----------------------------- MODULE Pagination -----------------------------
(***************************************************************************)
(* Listing page by page: handlePagination (utils/ui/pagination.ts), as the *)
(* list handlers of core/protocol/requestHandlers.ts call it.  The cursor a*)
(* client is handed names a server and a page of it; each request looks the*)
(* server up among those it lists then, and between two requests servers   *)
(* come and go.  A request suspends while the server answers and goes on   *)
(* with the names it had read before.                                      *)
(***************************************************************************)
EXTENDS SessionRouting

CONSTANTS
    Kind,       \* what is listed
    Pages,      \* key -> pages its server answers with
    Walkers,    \* bound: sessions that list (their walks share nothing)
    MaxChanges  \* bound: changes of the map, and requests that fail

ASSUME PaginationConstants ==
    /\ Kind \in Kinds
    /\ "no key" \notin Keys
    /\ Pages \in [Keys -> Nat \ {0}]
    /\ Walkers \subseteq Sessions
    /\ MaxChanges \in Nat

VARIABLES
    walks,   \* session -> its walk over the pages
    changes  \* changes so far

walkVars == <<routingVars, walks, changes>>

Start == [key |-> NoKey, page |-> 1]
NoCursor == [key |-> NoKey, page |-> 0]
NoWalk == [at |-> "idle", cursor |-> NoCursor, names |-> <<>>, seen |-> {}, stable |-> {}]

(* The servers of a listing, at their places in the order of the map. *)
ListOf(s) == [i \in {j \in DOMAIN order : order[j] \in Listed(s, Kind)} |-> order[i]]

(* The first of those places, and the server there. *)
First(names, places) == names[CHOOSE i \in places : \A j \in places : i <= j]

(* Places that no walk gets past: a cursor cannot hold the key of a server *)
(* there, or before.                                                       *)
Blocked(names) == {i \in DOMAIN names : \E j \in DOMAIN names : j <= i /\ names[j] \in Templates}

Reachable(s) ==
    LET names == ListOf(s)
    IN  {names[i] : i \in DOMAIN names \ Blocked(names)}

WalksInit == RoutingInit /\ walks = [s \in Sessions |-> NoWalk] /\ changes = 0

PaginationTypeOK ==
    \A s \in Sessions :
        /\ walks[s].at \in {"idle", "ready", "asking", "ended"}
        /\ walks[s].at = "asking" => \E i \in DOMAIN walks[s].names : walks[s].names[i] = walks[s].cursor.key
        /\ walks[s].stable \subseteq Keys
        /\ \A e \in walks[s].seen : e[2] \in 1 .. Pages[e[1]]

-----------------------------------------------------------------------------
(* encodeCursor knows no colon, so that a template key ends the walk.      *)
Encode(k, page) == IF k \in Templates THEN NoCursor ELSE [key |-> k, page |-> page]

(* Mutant of CursorAfter: the walk goes round.                             *)
CursorAfterWraps(k, page, names) ==
    LET place == CHOOSE i \in DOMAIN names : names[i] = k
        later == {i \in DOMAIN names : i > place}
    IN  IF page < Pages[k] THEN Encode(k, page + 1)
        ELSE Encode(First(names, IF later = {} THEN DOMAIN names ELSE later), 1)

(* The server's own cursor, or getNextClientCursor.                        *)
CursorAfter(k, page, names) ==
    LET place == CHOOSE i \in DOMAIN names : names[i] = k
        later == {i \in DOMAIN names : i > place}
    IN  IF page < Pages[k] THEN Encode(k, page + 1)
        ELSE IF later = {} THEN NoCursor
        ELSE Encode(First(names, later), 1)

(* Mutant of Target: a walk whose server is gone goes on with the last one.*)
TargetLast(cursor, names) ==
    LET last == CHOOSE i \in DOMAIN names : \A j \in DOMAIN names : j <= i
    IN  IF \E i \in DOMAIN names : names[i] = cursor.key THEN cursor
        ELSE [key |-> IF cursor = Start THEN First(names, DOMAIN names) ELSE names[last],
              page |-> 1]

(* The cursor's server, or the first one if it is gone.                    *)
Target(cursor, names) ==
    IF \E i \in DOMAIN names : names[i] = cursor.key THEN cursor
    ELSE [key |-> First(names, DOMAIN names), page |-> 1]

BeginWalk(s) ==
    /\ s \in sessions
    /\ walks[s].at = "idle"
    /\ walks' = [walks EXCEPT ![s] = [@ EXCEPT !.at = "ready", !.cursor = Start,
                                               !.stable = Reachable(s)]]
    /\ UNCHANGED <<routingVars, changes>>

(* A request: it asks a server, unless none is listed.                     *)
Asked(w, names) ==
    IF DOMAIN names = {} THEN [w EXCEPT !.at = "ended", !.cursor = NoCursor]
    ELSE [w EXCEPT !.at = "asking", !.names = names, !.cursor = Target(@, names)]

Ask(s) ==
    /\ walks[s].at = "ready"
    /\ walks' = [walks EXCEPT ![s] = Asked(@, ListOf(s))]
    /\ UNCHANGED <<routingVars, changes>>

(* The page it is answered with, and the cursor to the next one.           *)
Answered(w) ==
    LET next == CursorAfter(w.cursor.key, w.cursor.page, w.names)
    IN  [w EXCEPT !.at = IF next = NoCursor THEN "ended" ELSE "ready",
                  !.cursor = next,
                  !.names = <<>>,
                  !.seen = @ \cup {<<w.cursor.key, w.cursor.page>>}]

Answer(s) ==
    /\ walks[s].at = "asking"
    /\ walks' = [walks EXCEPT ![s] = Answered(@)]
    /\ UNCHANGED <<routingVars, changes>>

(* A request that fails is answered with an error; the client asks again.  *)
Fail(s) ==
    /\ walks[s].at = "asking"
    /\ walks' = [walks EXCEPT ![s] = [@ EXCEPT !.at = "ready", !.names = <<>>]]

(* The map changes: requests to a server that is lost fail.                *)
Changed(lost) ==
    walks' = [s \in Sessions |->
        LET w == walks[s]
            kept == [w EXCEPT !.stable = @ \cap Reachable(s)']
        IN  IF s \notin sessions' THEN NoWalk
            ELSE IF w.at = "asking" /\ w.cursor.key \in lost
                 THEN [kept EXCEPT !.at = "ready", !.names = <<>>]
                 ELSE kept]

Change ==
    /\ changes < MaxChanges
    /\ changes' = changes + 1
    /\ \/ \E k \in Keys : \/ ServerConnects(k) /\ Changed({})
                          \/ ServerFails(k) /\ Changed({})
                          \/ ServerDrops(k) /\ Changed({k})
                          \/ HotStart(k, "connected") /\ Changed({})
       \/ \E s \in Walkers : Fail(s) /\ UNCHANGED routingVars

SessionChange ==
    /\ \E s \in Sessions : SessionConnects(s) \/ SessionEnds(s)
    /\ Changed({})
    /\ UNCHANGED changes

WalksNext ==
    \/ Change
    \/ SessionChange
    \/ \E s \in Walkers : BeginWalk(s) \/ Ask(s) \/ Answer(s)

(* Servers answer, and a client follows the cursor it was handed.          *)
WalksSpec == WalksInit /\ [][WalksNext]_walkVars /\ \A s \in Walkers : WF_walkVars(Ask(s)) /\ WF_walkVars(Answer(s))
-----------------------------------------------------------------------------
(* A walk that has ended has seen every page of every server that was      *)
(* listed all along (ahead of any template server), whatever other servers *)
(* came and went meanwhile, and whatever names its requests held over their*)
(* awaits.                                                                 *)
WalkComplete ==
    \A s \in Sessions : walks[s].at = "ended" =>
        \A k \in walks[s].stable : \A p \in 1 .. Pages[k] : <<k, p>> \in walks[s].seen

(* Once servers stay as they are, a walk comes to its end: starting over   *)
(* where a server was lost happens only as often as servers are lost.      *)
WalkEnds ==
    \A s \in Sessions : walks[s].at = "ready" ~> walks[s].at \in {"ended", "idle"}

(* A walk ends with the last server of its listing (docs: pagination over  *)
(* all servers); refuted, it ends with the first template server.          *)
WalkEndsAtLast ==
    [][\A s \in Sessions :
          walks[s].at = "asking" /\ walks'[s].at = "ended" =>
              LET names == walks[s].names
              IN  \A i \in DOMAIN names : names[i] = walks[s].cursor.key
                                          => \A j \in DOMAIN names : j <= i]_walkVars

(* What servers send is sent on to a session that is there; refuted, the   *)
(* last session to connect takes it with it.                               *)
NotifiesTheLiving ==
    \A k \in InMap : sessions # {} /\ k \in collected => handler[k] \in sessions
=============================================================================
