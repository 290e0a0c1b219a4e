----------------------------- MODULE TagQueries -----------------------------
(***************************************************************************)
(* Which servers a client sees: filter expressions as they are typed,      *)
(* their parser (domains/preset/parsers/tagQueryParser.ts), the JSON       *)
(* queries presets keep (tagQueryEvaluator.ts), the filter of              *)
(* `preset create` and the three-state selection of `preset edit`.         *)
(*                                                                         *)
(* A filter is a sequence of symbols typed without spaces, but for one     *)
(* between two tags.  A name with a dash in it is a tag no server has.     *)
(***************************************************************************)
EXTENDS Integers, Sequences, SequencesExt

CONSTANTS
    TagOrder,   \* the tags of the servers, in the order they are shown
    Servers,
    TagsOf,     \* server -> set of its tags
    CanonOf     \* other spelling of a tag -> the tag in lower case

Tags == {TagOrder[i] : i \in DOMAIN TagOrder}

ASSUME TagConstants ==
    /\ TagsOf \in [Servers -> SUBSET Tags]
    /\ \A t \in DOMAIN CanonOf : CanonOf[t] \in Tags

(* normalizeTag *)
Canon(t) == IF t \in DOMAIN CanonOf THEN CanonOf[t] ELSE t

Dashed == "a-b"
Names == Tags \cup {Dashed}

-----------------------------------------------------------------------------
(* tokenize: after these a dash is an operator, else part of a name.       *)
Operators == {"(", "&&", ","}

Tokens(typed, operators) ==
    LET Sym(i) == IF i = 0 THEN "(" ELSE typed[i]
        Of[n \in 0 .. Len(typed)] ==
            IF n = 0 THEN <<>>
            ELSE LET prior == Of[n - 1]
                     inName == Sym(n - 1) = "-" /\ prior # <<>> /\ Last(prior) = Dashed
                 IN  IF inName /\ typed[n] \in Tags \cup {"-"} THEN prior
                     ELSE IF typed[n] # "-" THEN Append(prior, typed[n])
                     ELSE IF Sym(n - 1) \in operators THEN Append(prior, "!")
                     ELSE IF Sym(n - 1) \in Tags THEN Append(Front(prior), Dashed)
                     ELSE Append(prior, Dashed)
    IN  Of[Len(typed)]

(* Expressions and JSON queries.                                           *)
Tag(t) == [op |-> "tag", tag |-> t]
Node(op, children) == [op |-> op, of |-> children]
NoQuery == [op |-> "none"]

Parsed(expr, next) == [expr |-> expr, next |-> next]
Unparsed == Parsed(NoQuery, 0)

Joined(op, children) == IF Len(children) = 1 THEN children[1] ELSE Node(op, children)

RECURSIVE ParseOr(_, _, _), ParseAnd(_, _, _)

(* parseAtomicExpression: a tag, or a group.                               *)
ParseAtom(ts, i) ==
    IF i > Len(ts) THEN Unparsed
    ELSE IF ts[i] \in Names THEN Parsed(Tag(ts[i]), i + 1)
    ELSE IF ts[i] # "(" THEN Unparsed
    ELSE LET inner == ParseOr(ts, i + 1, <<>>)
         IN  IF inner.next \in DOMAIN ts /\ ts[inner.next] = ")"
             THEN Parsed(Node("group", <<inner.expr>>), inner.next + 1)
             ELSE Unparsed

(* Mutant of ParseNot: a NOT is of all that an AND joins.                  *)
ParseNotWide(ts, i) ==
    IF i \in DOMAIN ts /\ ts[i] = "!"
    THEN LET all == ParseAnd(ts, i + 1, <<>>)
         IN  IF all.next = 0 THEN Unparsed ELSE Parsed(Node("not", <<all.expr>>), all.next)
    ELSE ParseAtom(ts, i)

(* parseNotExpression: one NOT before an atom.                             *)
ParseNot(ts, i) ==
    IF i \in DOMAIN ts /\ ts[i] = "!"
    THEN LET atom == ParseAtom(ts, i + 1)
         IN  IF atom.next = 0 THEN Unparsed ELSE Parsed(Node("not", <<atom.expr>>), atom.next)
    ELSE ParseAtom(ts, i)

(* parseAndExpression and parseOrExpression, the operands read so far as   *)
(* their last argument.                                                    *)
ParseAnd(ts, i, before) ==
    LET operand == ParseNot(ts, i)
        all == Append(before, operand.expr)
    IN  IF operand.next = 0 THEN Unparsed
        ELSE IF operand.next \in DOMAIN ts /\ ts[operand.next] = "&&"
        THEN ParseAnd(ts, operand.next + 1, all)
        ELSE Parsed(Joined("and", all), operand.next)

ParseOr(ts, i, before) ==
    LET operand == ParseAnd(ts, i, <<>>)
        all == Append(before, operand.expr)
    IN  IF operand.next = 0 THEN Unparsed
        ELSE IF operand.next \in DOMAIN ts /\ ts[operand.next] = ","
        THEN ParseOr(ts, operand.next + 1, all)
        ELSE Parsed(Joined("or", all), operand.next)

(* parseAdvanced: all tokens, or it throws.                                *)
ParseAdvanced(typed) ==
    LET ts == Tokens(typed, Operators)
        all == ParseOr(ts, 1, <<>>)
    IN  IF all.next = Len(ts) + 1 THEN all.expr ELSE NoQuery

RECURSIVE EvaluateExpr(_, _), ToJSON(_), Evaluate(_, _)

(* TagQueryParser.evaluate compares tags in lower case.                    *)
EvaluateExpr(expr, tags) ==
    CASE expr.op = "tag"   -> Canon(expr.tag) \in {Canon(t) : t \in tags}
      [] expr.op = "not"   -> ~EvaluateExpr(expr.of[1], tags)
      [] expr.op = "and"   -> \A i \in DOMAIN expr.of : EvaluateExpr(expr.of[i], tags)
      [] expr.op = "or"    -> \E i \in DOMAIN expr.of : EvaluateExpr(expr.of[i], tags)
      [] expr.op = "group" -> EvaluateExpr(expr.of[1], tags)

(* expressionToJSON: groups are gone.                                      *)
ToJSON(expr) ==
    CASE expr.op \in {"tag", "none"} -> expr
      [] expr.op = "group" -> ToJSON(expr.of[1])
      [] OTHER             -> Node("$" \o expr.op, [i \in DOMAIN expr.of |-> ToJSON(expr.of[i])])

(* TagQueryEvaluator.evaluate compares them as they are spelled; an empty  *)
(* query matches nothing.                                                  *)
Evaluate(query, tags) ==
    CASE query.op = "tag"  -> query.tag \in tags
      [] query.op = "$or"  -> \E i \in DOMAIN query.of : Evaluate(query.of[i], tags)
      [] query.op = "$and" -> \A i \in DOMAIN query.of : Evaluate(query.of[i], tags)
      [] query.op = "$not" -> ~Evaluate(query.of[1], tags)
      [] OTHER             -> FALSE

(* testPreset, of the servers configured.                                  *)
Matching(servers, query) == {s \in servers : Evaluate(query, TagsOf[s])}

-----------------------------------------------------------------------------
(* parseSimple: what is between two commas is nothing or one name; one     *)
(* with a space in it is refused.                                          *)
SimpleTags(typed) ==
    IF \E i \in 1 .. Len(typed) - 1 : typed[i] \in Tags /\ typed[i + 1] \in Tags THEN <<>>
    ELSE SelectSeq(Tokens(typed, {}), LAMBDA t : t # ",")

(* Mutant of CreateQuery: a comma is an AND.                               *)
CreateQueryAnd(typed) ==
    IF \E i \in DOMAIN typed : typed[i] \in {"(", ")", "&&", "!"} THEN ToJSON(ParseAdvanced(typed))
    ELSE LET tags == SimpleTags(typed)
         IN  IF tags = <<>> THEN NoQuery
             ELSE Joined("$and", [i \in DOMAIN tags |-> Tag(tags[i])])

(* createCommand: the parser if the filter has its syntax, else tags       *)
(* between commas.                                                         *)
CreateQuery(typed) ==
    IF \E i \in DOMAIN typed : typed[i] \in {"(", ")", "&&", "!"} THEN ToJSON(ParseAdvanced(typed))
    ELSE LET tags == SimpleTags(typed)
         IN  IF tags = <<>> THEN NoQuery
             ELSE Joined("$or", [i \in DOMAIN tags |-> Tag(tags[i])])

-----------------------------------------------------------------------------
States == {"empty", "selected", "not-selected"}
EmptyQuery == [op |-> "{}"]

(* buildQueryFromSelections.                                               *)
BuildQuery(selection, strategy) ==
    LET In(state) == LET chosen == SelectSeq(TagOrder, LAMBDA t : selection[t] = state)
                     IN  [i \in DOMAIN chosen |-> Tag(chosen[i])]
        wanted == In("selected")
        unwanted == In("not-selected")
        queries == (IF wanted = <<>> THEN <<>> ELSE <<Joined("$" \o strategy, wanted)>>)
                   \o [i \in DOMAIN unwanted |-> Node("$not", <<unwanted[i]>>)]
    IN  IF queries = <<>> THEN EmptyQuery ELSE Joined("$and", queries)

RECURSIVE Mentions(_, _)
Mentions(query, t) ==
    CASE query.op = "tag"              -> query.tag = t
      [] query.op \in {"$or", "$and"}  -> \E i \in DOMAIN query.of : Mentions(query.of[i], t)
      [] query.op = "$not"             -> Mentions(query.of[1], t)
      [] OTHER                         -> FALSE

Excludes(query, t) == query.op = "$not" /\ Mentions(query.of[1], t)

(* Mutant of Restore: any mention is a selection.                          *)
RestoreMentioned(query) ==
    [t \in Tags |-> IF Mentions(query, t) THEN "selected" ELSE "empty"]

(* getInitialTagStateFromQuery: exclusions first.                          *)
Restore(query) ==
    [t \in Tags |->
        IF \/ Excludes(query, t)
           \/ /\ query.op \in {"$or", "$and"}
              /\ \E i \in DOMAIN query.of : Excludes(query.of[i], t)
        THEN "not-selected"
        ELSE IF Mentions(query, t) THEN "selected" ELSE "empty"]

-----------------------------------------------------------------------------
(* What a filter means, by the operators the documentation lists, whatever *)
(* its tokens: the set of truth values its readings give, none if it has no*)
(* reading.  A dash is a NOT (server-filtering.md:122).                    *)
RECURSIVE Readings(_, _, _)
Readings(level, ts, tags) ==
    LET n == Len(ts)
        Split(op, low, high, Value(_, _)) ==
            Readings(high, ts, tags) \cup
            UNION {{Value(x, y) : x \in Readings(low, SubSeq(ts, 1, i - 1), tags),
                                  y \in Readings(high, SubSeq(ts, i + 1, n), tags)} :
                   i \in {j \in DOMAIN ts : ts[j] = op}}
    IN  CASE level = "or"  -> Split(",", "or", "and", LAMBDA x, y : x \/ y)
          [] level = "and" -> Split("&&", "and", "not", LAMBDA x, y : x /\ y)
          [] level = "not" -> Readings("atom", ts, tags) \cup
                              IF n > 1 /\ ts[1] \in {"!", "-"}
                              THEN {~x : x \in Readings("atom", Tail(ts), tags)} ELSE {}
          [] level = "atom" -> IF n = 1 /\ ts[1] \in Tags THEN {ts[1] \in tags}
                               ELSE IF n > 2 /\ ts[1] = "(" /\ ts[n] = ")"
                               THEN Readings("or", SubSeq(ts, 2, n - 1), tags) ELSE {}

(* Every dash is where the table of operators and its examples have one:   *)
(* at the beginning, or after an operator or a parenthesis that opens.     *)
DashesArePrefixes(ts) ==
    \A i \in DOMAIN ts : ts[i] = "-" => i = 1 \/ ts[i - 1] \in {"(", "&&", ","}

(* The other dashes of the documentation (server-filtering.md:91-95): after*)
(* a tag, or a group, what follows is excluded.                            *)
WithExclusions(ts) ==
    FlattenSeq([i \in DOMAIN ts |->
        IF i > 1 /\ ts[i] = "-" /\ ts[i - 1] \in Tags \cup {")"} THEN <<"&&", "!">> ELSE <<ts[i]>>])
=============================================================================
