-------------------------- MODULE CapabilityUpdates --------------------------
(***************************************************************************)
(* What follows when a server becomes ready while clients are connected:   *)
(* AsyncLoadingOrchestrator has CapabilityAggregator ask every connected   *)
(* server for its lists, and hands the difference to NotificationManager,  *)
(* which batches list_changed notifications.  A hot reload does the same   *)
(* with an aggregator and notification managers of its own.                *)
(* Asynchronous loading, batching and client notifications are enabled.    *)
(*                                                                         *)
(* An update suspends at every server it asks; the map may change meanwhile*)
(* and is walked on as it then is.  Items are known by their names without *)
(* the server's prefix, as the aggregator compares and deduplicates them.  *)
(***************************************************************************)
EXTENDS SessionRouting

CONSTANTS
    Names,      \* names of tools, resources and prompts
    ItemsOf,    \* key -> kind -> names its server lists
    Hidden,     \* key -> kind -> names its configuration disables
    Failures,   \* bound: sets of lists of one server that fail together
    Reloaded,   \* servers whose configuration is changed while they run
    MaxReloads  \* bound: hot reloads

ASSUME UpdateConstants ==
    /\ ItemsOf \in [Keys -> [Kinds -> SUBSET Names]]
    /\ Hidden \in [Keys -> [Kinds -> SUBSET Names]]
    /\ \A k \in Keys : Offers[k] = {kind \in Kinds : ItemsOf[k][kind] # {}}
    /\ "reload" \notin Keys /\ "no batch" \notin Kinds
    /\ Failures \subseteq SUBSET Kinds
    /\ Reloaded \subseteq Keys
    /\ MaxReloads \in Nat

VARIABLES
    updates,    \* key -> the update its loading started; Reload -> that of the last reload
    current,    \* currentCapabilities
    manager,    \* the orchestrator's notification manager: its session, and if it is still that
    pending,    \* its pending notifications
    timer,      \* its batch timer is armed
    down,       \* the orchestrator was shut down
    reloads,    \* reloads so far
    batches,    \* batches of the managers that reloads made, each with a timer
    owed        \* kinds with a name that a server brought and no client was told of since

updateVars == <<updates, current, manager, pending, timer, down, reloads, batches, owed>>
vars == <<routingVars, updateVars>>

Reload == "reload"
NoBatch == {"no batch"}
NoManager == [session |-> NoSession, alive |-> FALSE]
Empty == [ready |-> {}, items |-> [kind \in Kinds |-> {}]]
NoUpdate == [at |-> "none", asked |-> NoKey, pos |-> 0, prev |-> Empty, seen |-> Empty]
Done == [NoUpdate EXCEPT !.at = "done"]

UpdatesTypeOK ==
    /\ \A u \in Keys \cup {Reload} :
          /\ updates[u].at \in {"none", "listing", "done"}
          /\ updates[u].at = "listing" => /\ updates[u].asked \in Keys
                                          /\ updates[u].pos \in 0 .. Len(order)
          /\ updates[u].prev.ready \cup updates[u].seen.ready \subseteq Keys
    /\ current.items \in [Kinds -> SUBSET Names]
    /\ pending = NoBatch \/ pending \subseteq Kinds
    /\ manager.session \in Sessions \cup {NoSession}

InFlight == {u \in DOMAIN updates : updates[u].at = "listing"}
Quiet == InFlight = {} /\ pending = NoBatch /\ batches = {}

Init ==
    /\ RoutingInit
    /\ updates = [u \in Keys \cup {Reload} |-> NoUpdate]
    /\ current = Empty
    /\ manager = NoManager
    /\ pending = NoBatch
    /\ timer = FALSE
    /\ down = FALSE
    /\ reloads = 0
    /\ batches = {}
    /\ owed = {}

-----------------------------------------------------------------------------
(* filterCapabilities: nothing is filtered of a connection without config. *)
Filtered(k, kind) ==
    IF k \in configured THEN ItemsOf[k][kind] \ Hidden[k][kind] ELSE ItemsOf[k][kind]

(* detectChanges. *)
ChangedKinds(prev, new) == {kind \in Kinds : prev.items[kind] # new.items[kind]}
HasChanges(prev, new) == ChangedKinds(prev, new) # {} \/ prev.ready # new.ready

(* Mutant of Schedule: a later change takes the place of the pending one.  *)
ScheduleLast(kinds) ==
    /\ pending' = kinds
    /\ timer' = TRUE

(* scheduleBatchedNotification: kinds add up, and the timer starts again.  *)
Schedule(kinds) ==
    /\ pending' = IF pending = NoBatch THEN kinds ELSE pending \cup kinds
    /\ timer' = TRUE

(* updateCapabilities after its await, and the handlers of its event.      *)
FinishLoaded(prev, seen) ==
    /\ current' = seen
    /\ IF HasChanges(prev, seen) /\ ~down /\ manager # NoManager
       THEN Schedule(ChangedKinds(prev, seen))
       ELSE UNCHANGED <<pending, timer>>
    /\ UNCHANGED batches

(* sendListChangedNotifications: a manager for every session.              *)
FinishReload(seen) ==
    /\ batches' = IF HasChanges(Empty, seen)
                  THEN batches \cup {[session |-> s, kinds |-> ChangedKinds(Empty, seen)]
                                        : s \in sessions}
                  ELSE batches
    /\ UNCHANGED <<current, pending, timer>>

(* aggregateFromReadyServers past position i of the map (which is that of  *)
(* the next state): the update suspends at the next connected server, or is*)
(* over.  Us are the other updates as they then stand.                     *)
Walk(us, u, i, prev, seen) ==
    LET left == {j \in DOMAIN order' : j > i /\ status'[order'[j]] = "connected"}
    IN  IF left = {}
        THEN /\ updates' = [us EXCEPT ![u] = Done]
             /\ IF u = Reload THEN FinishReload(seen) ELSE FinishLoaded(prev, seen)
        ELSE LET next == CHOOSE j \in left : \A l \in left : j <= l
             IN  /\ updates' = [us EXCEPT ![u] =
                        [at |-> "listing", asked |-> order'[next], pos |-> next, prev |-> prev,
                         seen |-> [seen EXCEPT !.ready = @ \cup {order'[next]}]]]
                 /\ UNCHANGED <<current, pending, timer, batches>>

(* When the map is cleared, walks of it go on at its new beginning.        *)
Restarted == [u \in DOMAIN updates |-> [updates[u] EXCEPT !.pos = 0]]

-----------------------------------------------------------------------------
(* ServerLoaded: an update starts from the snapshot of this moment.        *)
Load(k) ==
    /\ updates[k].at = "none"
    /\ ServerConnects(k)
    /\ IF down THEN /\ updates' = [updates EXCEPT ![k] = Done]
                    /\ UNCHANGED <<current, pending, timer, batches>>
       ELSE Walk(updates, k, 0, current, Empty)
    /\ owed' = IF manager.alive /\ ~down
               THEN owed \cup {kind \in Kinds : ~(ItemsOf[k][kind] \subseteq current.items[kind])}
               ELSE owed
    /\ UNCHANGED <<manager, down, reloads>>

LoadFails(k) ==
    /\ updates[k].at = "none"
    /\ ServerFails(k)
    /\ UNCHANGED updateVars

(* What a server brought that is gone need not be told.                    *)
Drop(k) ==
    /\ ServerDrops(k)
    /\ owed' = owed \ Offers[k]
    /\ UNCHANGED <<updates, current, manager, pending, timer, down, reloads, batches>>

(* A reload starts server k, whether or not it can be connected.           *)
HotReload(k, st) ==
    /\ k \in Reloaded
    /\ reloads < MaxReloads
    /\ Reload \notin InFlight
    /\ HotStart(k, st)
    /\ reloads' = reloads + 1
    /\ Walk(Restarted, Reload, 0, Empty, Empty)
    /\ owed' = {}
    /\ UNCHANGED <<manager, down>>

(* The first session that connects gets the orchestrator's notifications.  *)
Connect(s) ==
    /\ SessionConnects(s)
    /\ manager' = IF manager = NoManager THEN [session |-> s, alive |-> TRUE] ELSE manager
    /\ UNCHANGED <<updates, current, pending, timer, down, reloads, batches, owed>>

End(s) ==
    /\ SessionEnds(s)
    /\ manager' = IF manager.session = s THEN [manager EXCEPT !.alive = FALSE] ELSE manager
    /\ owed' = IF manager.session = s THEN {} ELSE owed
    /\ UNCHANGED <<updates, current, pending, timer, down, reloads, batches>>

(* The lists of a server arrive; a list that fails counts as empty, and all*)
(* fail of a server whose connection has ended.                            *)
Lists(u, failing) ==
    LET k == updates[u].asked
        seen == [updates[u].seen EXCEPT !.items =
                    [kind \in Kinds |-> IF kind \in failing THEN @[kind]
                                        ELSE @[kind] \cup Filtered(k, kind)]]
    IN  /\ u \in InFlight
        /\ status[k] = "disconnected" => failing = Kinds
        /\ UNCHANGED routingVars
        /\ Walk(updates, u, updates[u].pos, updates[u].prev, seen)
        /\ owed' = owed \ (Offers[k] \cap failing)
        /\ UNCHANGED <<manager, down, reloads>>

(* sendBatchedNotifications: a client that is gone is not told.            *)
SendBatch ==
    /\ pending' = NoBatch
    /\ timer' = FALSE
    /\ owed' = owed \ pending

TimerFires ==
    /\ timer
    /\ SendBatch
    /\ UNCHANGED <<routingVars, updates, current, manager, down, reloads, batches>>

BatchFires(b) ==
    /\ b \in batches
    /\ batches' = batches \ {b}
    /\ owed' = IF b.session = manager.session THEN owed \ b.kinds ELSE owed
    /\ UNCHANGED <<routingVars, updates, current, manager, pending, timer, down, reloads>>

(* Mutant of Shutdown: the flag is set before the batch is flushed.        *)
ShutdownUnflushed ==
    /\ ~down
    /\ down' = TRUE
    /\ timer' = FALSE
    /\ UNCHANGED <<pending, owed, routingVars, updates, current, manager, reloads, batches>>

(* Shutdown flushes what is pending before the manager is told to shut     *)
(* down (which, its flag set, would flush nothing).                        *)
Shutdown ==
    /\ ~down
    /\ down' = TRUE
    /\ IF timer THEN SendBatch ELSE UNCHANGED <<pending, timer, owed>>
    /\ UNCHANGED <<routingVars, updates, current, manager, reloads, batches>>

Next ==
    \/ \E k \in Keys :
          \/ Load(k)
          \/ LoadFails(k)
          \/ Drop(k)
          \/ \E st \in {"connected", "error"} : HotReload(k, st)
    \/ \E s \in Sessions : Connect(s) \/ End(s)
    \/ \E u \in Keys \cup {Reload} :
          \E failing \in Failures \cup {Kinds} : Lists(u, failing)
    \/ TimerFires
    \/ \E b \in batches : BatchFires(b)
    \/ Shutdown

(* Timers fire, and the SDK answers or times out every request.            *)
Fairness ==
    /\ WF_vars(TimerFires)
    /\ \A u \in Keys \cup {Reload} :
          WF_vars(\E failing \in Failures \cup {Kinds} : Lists(u, failing))

Spec == Init /\ [][Next]_vars /\ Fairness
-----------------------------------------------------------------------------
(* Whatever a server brings while the orchestrator has a client, that      *)
(* client is told of in the end, however updates overlap and whatever other*)
(* servers do: the difference is taken to a snapshot that did not have it, *)
(* and batching loses no kind.                                             *)
BroughtIsTold == \A kind \in Kinds : kind \in owed ~> (kind \notin owed \/ down)

(* Once no update is under way and no batch is open, nothing is owed; a    *)
(* batch is never left without its timer, shutdown included.               *)
QuietOwesNothing ==
    /\ Quiet /\ ~down => owed = {}
    /\ pending # NoBatch => timer

(* Once all is quiet, every connected server is listed to the session that *)
(* was told (docs: new capabilities appear without a reconnect).           *)
NewServersAppear ==
    Quiet /\ manager.alive /\ reloads = 0 =>
        \A k \in Keys, kind \in Kinds :
            /\ status[k] = "connected"
            /\ kind \in Offers[k]
            /\ k \in Selects[manager.session]
            => k \in Listed(manager.session, kind)

(* Once all is quiet, the snapshot has every server that is connected.     *)
SnapshotComplete ==
    Quiet /\ reloads = 0 /\ ~down =>
        \A k \in Keys : status[k] = "connected" => k \in current.ready
=============================================================================
