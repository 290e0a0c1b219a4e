--------------------------- MODULE RequestFilters ---------------------------
(***************************************************************************)
(* From the parameters of a request to the servers its session gets: the   *)
(* middlewares that read and check them                                    *)
(* (transport/http/middlewares/tagsExtractor.ts, scopeAuthMiddleware.ts),  *)
(* the filter of the connected servers (core/filtering/                    *)
(* filteringService.ts), the one that chooses the templates a session gets *)
(* instances of (templateFilteringService.ts) and the index over the       *)
(* templates (templateIndex.ts).                                           *)
(*                                                                         *)
(* What a request has in it is what is typed, or the name of a preset of   *)
(* the server.  Of servers and templates only their tags matter, and those *)
(* may be spelled with capitals.                                           *)
(***************************************************************************)
EXTENDS PresetFiles, TagQueries

Unchecked == {"unchecked"}     \* no scopes: they are not checked
Granted == SUBSET Tags \cup {Unchecked}
Spellings == Tags \cup DOMAIN CanonOf

(* A request: its one filter parameter, if any; the environment may ask    *)
(* for a filter, or give one to the requests without.                      *)
Requests ==
    [param : {"several", "tags", "tag-filter"}]
    \cup [param : {"none"}, environment : {"unset", "required", "default"}]
    \cup [param : {"preset"}, name : Presets]

(* What the middlewares leave in res.locals.                               *)
Filter(mode, tags) == [mode |-> mode, tags |-> tags, expr |-> NoQuery, query |-> NoQuery]
Refused == Filter("refused", {})

-----------------------------------------------------------------------------
(* parseSimple and validateAndSanitizeTags: what is between two commas is  *)
(* one tag, whatever is in it; only a tag alone is a server's.             *)
RawTags ==
    LET Commas == {0, Len(typed) + 1} \cup {i \in DOMAIN typed : typed[i] = ","}
        Pieces == {ij \in Commas \X Commas :
                      ij[1] + 1 < ij[2] /\ \A k \in Commas : k <= ij[1] \/ k >= ij[2]}
    IN  {IF ij[2] = ij[1] + 2 /\ typed[ij[1] + 1] \in Tags THEN typed[ij[1] + 1] ELSE Dashed :
            ij \in Pieces}

TagsRequest == Filter("simple-or", RawTags)

(* extractTagsFromQuery: direct operands only.                             *)
DirectTags(query) ==
    IF query.op = "tag" THEN {query.tag}
    ELSE IF query.op \in {"$or", "$and"}
    THEN {query.of[i].tag : i \in {j \in DOMAIN query.of : query.of[j].op = "tag"}}
    ELSE {}

(* It is null for a preset there is not, and for an empty query.           *)
resolvePresetToExpression(n) ==
    IF memory[Server][n] \in {None, NoQuery, EmptyQuery} THEN NoQuery ELSE memory[Server][n]

PresetRequest(n) ==
    LET query == resolvePresetToExpression(n)
    IN  IF query = NoQuery THEN Refused
        ELSE [Filter("preset", DirectTags(query)) EXCEPT !.query = query]

ExpressionRequest ==
    LET expr == ParseAdvanced(typed)
    IN  IF expr = NoQuery THEN Refused
        ELSE [Filter("advanced", IF expr.op = "tag" THEN {expr.tag} ELSE {}) EXCEPT !.expr = expr]

DefaultRequest(environment) ==
    CASE environment = "unset"    -> Filter("none", {})
      [] environment = "required" -> Refused
      [] environment = "default"  -> ExpressionRequest

tagsExtractor(request) ==
    CASE request.param = "several"    -> Refused
      [] request.param = "preset"     -> PresetRequest(request.name)
      [] request.param = "tags"       -> TagsRequest
      [] request.param = "tag-filter" -> ExpressionRequest
      [] request.param = "none"       -> DefaultRequest(request.environment)

-----------------------------------------------------------------------------
(* extractTagsFromExpression: every tag it names, negated ones too.        *)
ExpressionTags(expr) == {t \in Names : Mentions(ToJSON(expr), t)}

(* hasRequiredScopes *)
hasRequiredScopes(granted, requested) == requested \subseteq granted

(* createScopeAuthMiddleware: a preset is not checked, and tags that were  *)
(* not asked for are the granted ones.                                     *)
scopeAuth(filter, granted) ==
    IF filter = Refused \/ granted = Unchecked THEN filter
    ELSE LET requested == CASE filter.mode = "advanced"  -> ExpressionTags(filter.expr)
                            [] filter.mode = "simple-or" -> filter.tags
                            [] OTHER                     -> {}
         IN  IF ~hasRequiredScopes(granted, requested) THEN Refused
             ELSE [filter EXCEPT !.tags = IF requested = {} THEN granted ELSE requested]

(* buildConfigFromRequest, for every request and every token's scopes.     *)
Configs ==
    {scopeAuth(filter, granted) :
        filter \in {tagsExtractor(request) : request \in Requests}, granted \in Granted} \ {Refused}

-----------------------------------------------------------------------------
(* FilteringService: is a connected server with these tags selected?       *)
byTags(filterTags, tags) ==
    filterTags = {} \/ {Canon(t) : t \in tags} \cap {Canon(t) : t \in filterTags} # {}

byTagQuery(query, tags) == Evaluate(query, tags)
byTagExpression(expr, tags) == EvaluateExpr(expr, tags)

createFilter(config, tags) ==
    CASE config.mode = "preset"   -> byTagQuery(config.query, tags)
      [] config.mode = "advanced" -> byTagExpression(config.expr, tags)
      [] OTHER                    -> byTags(config.tags, tags)

ServerSelected(config, tags) == config.mode = "none" \/ createFilter(config, tags)

(* Mutant of TemplateByTags: tags are compared as they are spelled.        *)
TemplateByTagsExact(filterTags, tags) == filterTags = {} \/ tags \cap filterTags # {}

(* TemplateFilteringService: does a template with these tags match?  Its   *)
(* fallback for a preset that has a name and no query is never reached:    *)
(* the middleware sets both or refuses.                                    *)
TemplateByTags(filterTags, tags) ==
    filterTags = {} \/ \E t \in tags, u \in filterTags : Canon(t) = Canon(u)

TemplateByTagQuery(query, tags) == Evaluate(query, tags)
TemplateByExpression(expr, tags) == EvaluateExpr(expr, tags)

TemplateFilter(config, tags) ==
    IF config.mode = "advanced" /\ config.expr # NoQuery
    THEN TemplateByExpression(config.expr, tags)
    ELSE TemplateByTags(config.tags, tags)

getMatchingTemplates(config, tags) ==
    CASE config.mode = "preset" -> TemplateByTagQuery(config.query, tags)
      [] config.mode = "none"   -> TRUE
      [] OTHER                  -> TemplateFilter(config, tags)

-----------------------------------------------------------------------------
(* TemplateIndex over one template for every set of tags, named by it.     *)
Indexed == SUBSET Spellings

(* buildIndex and addTemplate: byNormalizedTag.                            *)
byNormalizedTag == [c \in Tags |-> {m \in Indexed : \E t \in m : Canon(t) = c}]

getTemplatesByTag(tag) == IF Canon(tag) \in Tags THEN byNormalizedTag[Canon(tag)] ELSE {}
getTemplatesByTags(tags) == UNION {getTemplatesByTag(t) : t \in tags}
evaluateTagQuery(query) == {m \in Indexed : Evaluate(query, m)}

RECURSIVE evaluateParsedExpression(_)

(* Mutant of Without: only what has a tag can be found.                    *)
WithoutTagged(found) == (UNION {byNormalizedTag[c] : c \in Tags}) \ found

(* The case 'not': all templates but those found.                          *)
Without(found) == Indexed \ found

evaluateParsedExpression(expr) ==
    LET found == {evaluateParsedExpression(expr.of[i]) : i \in DOMAIN expr.of}
    IN  CASE expr.op = "tag"   -> getTemplatesByTag(expr.tag)
          [] expr.op = "not"   -> Without(UNION found)
          [] expr.op = "and"   -> {m \in Indexed : \A f \in found : m \in f}
          [] expr.op \in {"or", "group"} -> UNION found

(* The templates the index finds for a filter.                             *)
FoundByIndex(config) ==
    CASE config.mode = "preset"   -> evaluateTagQuery(config.query)
      [] config.mode = "advanced" -> evaluateParsedExpression(config.expr)
      [] OTHER -> IF config.tags = {} THEN Indexed ELSE getTemplatesByTags(config.tags)

-----------------------------------------------------------------------------
(* A session gets instances of the templates whose servers it is then      *)
(* listed, whichever way its filter was given and whatever scopes it has:  *)
(* the filter of templates (getMatchingTemplates), the filter of connected *)
(* servers (getFilteredConnections) and the index over the templates make  *)
(* the same of it.                                                         *)
FiltersAgree ==
    \A config \in Configs :
        LET matching == {tags \in Indexed : getMatchingTemplates(config, tags)}
        IN  /\ matching = {tags \in Indexed : ServerSelected(config, tags)}
            /\ config.mode = "none" \/ matching = FoundByIndex(config)

(* A filter whose dashes are prefixes is parsed if the documented operators*)
(* give it a reading, which is what it then means; and one without dashes  *)
(* that `preset create` saves, if it is a filter at all, is a query with   *)
(* that meaning.                                                           *)
TypedIsMeant ==
    LET expr == ParseAdvanced(typed)
        query == QueryOfText(typed)
        dashes == \E i \in DOMAIN typed : typed[i] = "-"
    IN  DashesArePrefixes(typed) => \A tags \in SUBSET Tags :
            LET readings == Readings("or", typed, tags)
            IN  /\ readings = IF expr = NoQuery THEN {} ELSE {EvaluateExpr(expr, tags)}
                /\ query # NoQuery /\ expr # NoQuery /\ ~dashes => readings = {Evaluate(query, tags)}

(* Refuted: a dash after a tag or a group excludes what follows.  After a  *)
(* tag it belongs to a name, after a group the filter is not parsed.       *)
DashExcludes ==
    LET expr == ParseAdvanced(typed)
    IN  \A tags \in SUBSET Tags :
            LET readings == Readings("or", WithExclusions(typed), tags)
            IN  readings # {} => expr # NoQuery /\ readings = {EvaluateExpr(expr, tags)}

(* A preset that was selected by the strategy it is edited with keeps its  *)
(* servers if nothing is pressed.                                          *)
UntouchedKeepsServers ==
    \A e \in Editors :
        LET edit == editors[e]
            selected == {BuildQuery(s, edit.strategy) : s \in [Tags -> States]}
        IN  edit.at = "select" =>
            (edit.query \in selected /\ edit.presses = 0 =>
             \A tags \in SUBSET Tags :
                 Evaluate(BuildQuery(edit.selection, edit.strategy), tags) = Evaluate(edit.query, tags))

(* A filter means the same however it got into a preset and out of it.     *)
QueriesKeepMeaning == TypedIsMeant /\ UntouchedKeepsServers
=============================================================================
