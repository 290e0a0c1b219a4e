--------------------------- MODULE RequestDispatch ---------------------------
(***************************************************************************)
(* From a listing to a call: the names under which items of the servers    *)
(* are listed (utils/core/parsing.ts), and the handlers that take such a   *)
(* name apart, find the connection it names for the session and pass the   *)
(* call on (core/protocol/requestHandlers.ts).                             *)
(*                                                                         *)
(* A name is a sequence of symbols.  "1" stands for the four letters 1mcp, *)
(* so that the separator _1mcp_ is three symbols long, and a name may hold *)
(* a part of it.  Keys of the outbound map: <<name, suffix>>, the suffix   *)
(* of a static server being "".  Seen from one session, the suffix of a    *)
(* template server is its own id, the hash it was rendered with, or that   *)
(* of another session.                                                     *)
(***************************************************************************)
EXTENDS Integers, Sequences, FiniteSetsExt

CONSTANT MaxName   \* bound: symbols of a server's and an item's name together

ASSUME DispatchConstants == MaxName \in Nat

VARIABLES
    client,   \* the name of a server or template
    item,     \* the name of an item it offers
    config,   \* which items its configuration lets through
    conns,    \* its keys in the outbound map
    listed,   \* what the session was listed
    reached   \* the calls just made of what is listed

dispatchVars == <<client, item, config, conns, listed, reached>>

Symbols == {"a", "_", "1", " "}
Separator == <<"_", "1", "_">>
Strings == UNION {[1 .. n -> Symbols] : n \in 1 .. MaxName - 1}
ConnSuffixes == {"own", "hash", "other"}
CallKinds(name) == {"resource", "prompt"} \cup (IF name = <<"1">> THEN {} ELSE {"tool"})

Invalid == <<"invalid">>
Internal == <<"1mcp">>

Trim(s) ==
    LET solid == {i \in DOMAIN s : s[i] # " "}
    IN  IF solid = {} THEN <<>> ELSE SubSeq(s, Min(solid), Max(solid))

(* Where the separator begins. *)
Cuts(s) == {i \in 1 .. Len(s) - 2 : SubSeq(s, i, i + 2) = Separator}

buildUri(name, i) ==
    IF Trim(name) = <<>> \/ Trim(i) = <<>> THEN Invalid
    ELSE Trim(name) \o Separator \o Trim(i)

(* Mutant of SplitAt: the last separator counts. *)
SplitAtLast(uri) == Max(Cuts(uri))

(* split(separator, 2): the first one does. *)
SplitAt(uri) == Min(Cuts(uri))

parseUri(uri) ==
    IF Cuts(uri) = {} THEN Invalid
    ELSE LET name == Trim(SubSeq(uri, 1, SplitAt(uri) - 1))
             rest == Trim(SubSeq(uri, SplitAt(uri) + 3, Len(uri)))
         IN  IF name = <<>> \/ rest = <<>> THEN Invalid ELSE <<name, rest>>

-----------------------------------------------------------------------------
(* Which servers there are under a name.  A static server whose name a     *)
(* template has is left out when the configuration is loaded; a session's  *)
(* instance of a template is its own or shared by its hash, as the template*)
(* says.                                                                   *)
Conns(name) ==
    {{<<name, "">>}} \cup
    {{<<name, x>> : x \in found} : found \in {f \in SUBSET ConnSuffixes : ~{"own", "hash"} \subseteq f}}

(* filterConnectionsForSession *)
ForSession == {c \in conns : c[2] \in {"", "own", "hash"}}

(* Mutant of resolveOutboundConnection: no session-scoped key. *)
ResolveByHash(name) ==
    IF <<name, "hash">> \in conns THEN {<<name, "hash">>} ELSE {<<name, "">>} \cap conns

(* The session's own key, its rendered hash, the plain name.               *)
resolveOutboundConnection(name) ==
    IF <<name, "own">> \in conns THEN {<<name, "own">>}
    ELSE IF <<name, "hash">> \in conns THEN {<<name, "hash">>}
    ELSE {<<name, "">>} \cap conns

(* A server's configuration names the items it may show or those it may    *)
(* not; the first list, when there is one, decides.                        *)
isItemAllowed(i) ==
    IF config.enabled # {} THEN i \in config.enabled ELSE i \notin config.disabled

-----------------------------------------------------------------------------
(* What a call of a name reaches: {} when it is answered by an error.      *)
Forward(uri, checked) ==
    {[conn |-> c, item |-> parseUri(uri)[2]] :
        c \in IF parseUri(uri) = Invalid \/ (checked /\ ~isItemAllowed(parseUri(uri)[2])) THEN {}
              ELSE resolveOutboundConnection(parseUri(uri)[1])}

(* A tool of 1mcp itself is run here. *)
CallTool(uri) ==
    IF parseUri(uri) # Invalid /\ parseUri(uri)[1] = <<"1">>
    THEN {[conn |-> Internal, item |-> parseUri(uri)[2]]}
    ELSE Forward(uri, TRUE)

(* Reading; subscribing is the same, but for a server's refusal.           *)
ReadResource(uri) == Forward(uri, TRUE)
GetPrompt(uri) == Forward(uri, TRUE)

(* A completion is passed on whatever the configuration says of its prompt.*)
Complete(uri) == Forward(uri, FALSE)

Calls(uri) == [tool |-> CallTool(uri), resource |-> ReadResource(uri),
               prompt |-> GetPrompt(uri), completion |-> Complete(uri)]

-----------------------------------------------------------------------------
DispatchInit ==
    /\ client \in Strings
    /\ item \in {i \in Strings : Len(client) + Len(i) <= MaxName}
    /\ config \in [enabled : SUBSET {item}, disabled : SUBSET {item}]
    /\ conns \in Conns(client)
    /\ listed = {}
    /\ reached = {}

(* Instances of a template come and go with the sessions that use them.    *)
ConnsChange ==
    /\ conns' \in Conns(client)
    /\ <<client, "">> \notin conns \/ conns' = {}
    /\ <<client, "">> \notin conns'
    /\ reached' = {}
    /\ UNCHANGED <<client, item, config, listed>>

(* Tools, resources or prompts, as a session is listed them.  filterItems. *)
List ==
    /\ listed' = {[conn |-> c, name |-> buildUri(client, item)] :
                     c \in IF isItemAllowed(item) THEN ForSession ELSE {}}
    /\ reached' = {}
    /\ UNCHANGED <<client, item, config, conns>>

Call ==
    /\ reached' = {[entry |-> l, conns |-> conns, by |-> Calls(l.name)] : l \in listed}
    /\ UNCHANGED <<client, item, config, conns, listed>>

DispatchNext == ConnsChange \/ List \/ Call

DispatchSpec == DispatchInit /\ [][DispatchNext]_dispatchVars

-----------------------------------------------------------------------------
(* Names that can be told from what follows them: no separator begins in   *)
(* the name, not even one that ends in the separator behind it.            *)
Plain(name) == Trim(name) = name /\ Cuts(name \o Separator) = {Len(name) + 1}

(* What a session is listed it can call, and the call reaches the server   *)
(* that listed it, under the name the item has there - whatever is in that *)
(* name, the separator included - or fails because the server is gone; as  *)
(* long as the server's name is plain and, for tools, not 1mcp.  A name is *)
(* taken apart rightly for plain names only.                               *)
ListedIsCallable ==
    Trim(item) = item /\ Trim(client) # <<>> =>
    /\ Plain(client) <=> parseUri(buildUri(client, item)) = <<client, item>>
    /\ \A call \in reached, kind \in {"tool", "resource", "prompt", "completion"} :
           Plain(client) /\ ~(kind = "tool" /\ client = <<"1">>) =>
               /\ \A to \in call.by[kind] : to.item = item /\ to.conn \in call.conns
               /\ call.entry.conn \in call.conns =>
                      call.by[kind] = {[conn |-> call.entry.conn, item |-> item]}
=============================================================================
