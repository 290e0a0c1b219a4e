---------------------------- MODULE RestartableStdio ----------------------------
(***************************************************************************)
(* A stdio server that is restarted when its process exits:                *)
(* restartableStdioTransport.ts, driven by the attempts of                 *)
(* connectionHandler.ts, which starts and closes the one transport again   *)
(* and again.                                                              *)
(*                                                                         *)
(* The SDK's StdioClientTransport and Client are external: start answers   *)
(* when the process is spawned or cannot be; close asks the process to end *)
(* and waits until it has, but a second close of the same process returns  *)
(* at once; onclose comes with the end of the process, also of one that    *)
(* was never spawned; a Client whose initialize fails closes its transport *)
(* without awaiting it.                                                    *)
(***************************************************************************)
EXTENDS Naturals

CONSTANTS
    MaxRestarts, \* maxRestarts of the configuration
    MaxAttempts, \* CONNECTION_RETRY.MAX_ATTEMPTS
    MaxChildren  \* bound on the processes

ASSUME RestartConstants == MaxRestarts \in Nat /\ MaxAttempts \in Nat /\ MaxChildren \in Nat

VARIABLES
    child,     \* process -> none, spawning, unspawned, running, stopping, gone
    made,      \* processes so far; they are 1..made
    current,   \* the process of _currentTransport, 0 for null
    starting,  \* _isStarting
    closing,   \* _isClosing
    restarts,  \* _restartCount
    timers,    \* armed restart timers
    handle,    \* whether _restartTimer is one of them
    closers,   \* processes whose end a close() awaits
    caller,    \* where connectWithRetry, then the user of its client, is
    attempt,   \* attempts so far
    own,       \* the process that the present attempt started
    sinceStart \* history: processes since start() was last called

restartVars == <<child, made, current, starting, closing, restarts, timers, handle,
                 closers, caller, attempt, own, sinceStart>>

(* The SDK's transport has a process whose end has not been reported. *)
HasProcess(i) == child[i] \in {"spawning", "unspawned", "running"}

RestartInit ==
    /\ child = [i \in 1..MaxChildren |-> "none"]
    /\ made = 0 /\ current = 0 /\ own = 0 /\ sinceStart = 0
    /\ starting = FALSE /\ closing = FALSE /\ handle = FALSE
    /\ restarts = 0 /\ timers = 0 /\ attempt = 0
    /\ closers = {}
    /\ caller = "waiting"

-----------------------------------------------------------------------------
(* Parts of the actions. *)

(* createTransport and the spawn that start() of the SDK begins with. *)
Create ==
    /\ made < MaxChildren
    /\ made' = made + 1
    /\ current' = made + 1
    /\ child' = [child EXCEPT ![made + 1] = "spawning"]
    /\ starting' = TRUE

(* attemptRestart: one more restart is due, unless too many have been. *)
AttemptRestart ==
    IF restarts >= MaxRestarts
    THEN UNCHANGED <<restarts, timers, handle>>
    ELSE restarts' = restarts + 1 /\ timers' = timers + 1 /\ handle' = TRUE

(* Mutant of HandleTransportClose: the first exit only is handled. *)
HandleFirstClose ==
    IF closing \/ restarts > 0 THEN UNCHANGED <<restarts, timers, handle>> ELSE AttemptRestart

(* handleTransportClose.  An expected one is forwarded: whoever uses the   *)
(* connection learns of it (Told).                                         *)
HandleTransportClose ==
    IF closing THEN UNCHANGED <<restarts, timers, handle>> ELSE AttemptRestart

Told == IF closing /\ caller = "connected" THEN "lost" ELSE caller

(* Mutant of ClearTimer: the timer is left alone. *)
KeepTimer == UNCHANGED <<timers, handle>>

ClearTimer == handle' = FALSE /\ timers' = IF handle THEN timers - 1 ELSE timers

(* close(), called once or twice in a row: the second call finds the       *)
(* process on its way out and is done at once.                             *)
Close(calls) ==
    /\ closing' = TRUE
    /\ ClearTimer
    /\ IF current # 0 /\ HasProcess(current)
       THEN /\ child' = [child EXCEPT ![current] = "stopping"]
            /\ closers' = closers \cup {current}
            /\ current' = IF calls > 1 THEN 0 ELSE current
       ELSE /\ current' = 0
            /\ UNCHANGED <<child, closers>>

-----------------------------------------------------------------------------
(* The attempts of connectWithRetry. *)

(* start() of a transport that has no process. *)
Start ==
    /\ caller = "waiting" /\ attempt < MaxAttempts
    /\ current = 0
    /\ Create
    /\ attempt' = attempt + 1
    /\ own' = made + 1
    /\ restarts' = 0
    /\ sinceStart' = 1
    /\ caller' = "starting"
    /\ UNCHANGED <<closing, timers, handle, closers>>

(* The command cannot be run.  When it is the attempt's own process, the   *)
(* transport is closed before onclose comes, and that is awaited, unless   *)
(* it was the last attempt, which is only reported.                        *)
SpawnFails(i) ==
    LET own_ == caller = "starting" /\ i = own
        last == attempt = MaxAttempts
    IN  /\ child[i] = "spawning"
        /\ starting' = FALSE
        /\ caller' = IF ~own_ THEN caller ELSE IF last THEN "failed" ELSE "closing"
        /\ IF own_ /\ ~last THEN Close(1)
           ELSE /\ child' = [child EXCEPT ![i] = "unspawned"]
                /\ UNCHANGED <<closing, timers, handle, closers, current>>
        /\ UNCHANGED <<made, restarts, attempt, own, sinceStart>>

Spawned(i) ==
    /\ child[i] = "spawning"
    /\ child' = [child EXCEPT ![i] = "running"]
    /\ starting' = FALSE
    /\ caller' = IF caller = "starting" /\ i = own THEN "initializing" ELSE caller
    /\ UNCHANGED <<made, current, closing, restarts, timers, handle, closers, attempt, own,
                   sinceStart>>

(* The process that was asked answers initialize. *)
Initialized ==
    /\ caller = "initializing"
    /\ own = current /\ child[own] = "running"
    /\ caller' = "connected"
    /\ UNCHANGED <<child, made, current, starting, closing, restarts, timers, handle,
                   closers, attempt, own, sinceStart>>

(* The answer to initialize does not come in time: the SDK closes the      *)
(* transport, and so does connectWithRetry unless it gives up.  After a    *)
(* delay, which starts at once, the transport is started again.            *)
InitializeFails ==
    LET last == attempt = MaxAttempts
    IN  /\ caller = "initializing"
        /\ caller' = IF last THEN "failed" ELSE "waiting"
        /\ Close(IF last THEN 1 ELSE 2)
        /\ UNCHANGED <<made, starting, restarts, attempt, own, sinceStart>>

(* The connection's user closes it. *)
CloseByUser ==
    /\ caller \in {"connected", "lost"}
    /\ caller' = "closed"
    /\ Close(1)
    /\ UNCHANGED <<made, starting, restarts, attempt, own, sinceStart>>

-----------------------------------------------------------------------------
(* The processes and the timer. *)

(* A process ends, of itself or because it was asked to.  A close() that   *)
(* waited for it goes on and sets _currentTransport to null, whatever      *)
(* that is by now.                                                         *)
Exits(i) ==
    /\ child[i] \in {"unspawned", "running", "stopping"}
    /\ child' = [child EXCEPT ![i] = "gone"]
    /\ HandleTransportClose
    /\ caller' = IF caller = "closing" /\ i \in closers THEN "waiting" ELSE Told
    /\ closers' = closers \ {i}
    /\ current' = IF i \in closers THEN 0 ELSE current
    /\ UNCHANGED <<made, starting, closing, attempt, own, sinceStart>>

(* The timer: restartTransport.  The old process has ended (OldHasEnded),  *)
(* so that the close() of it is done at once.                              *)
RestartTransport ==
    /\ timers > 0
    /\ timers' = timers - 1
    /\ handle' = FALSE
    /\ IF starting \/ closing
       THEN UNCHANGED <<made, current, child, starting, sinceStart>>
       ELSE Create /\ sinceStart' = sinceStart + 1
    /\ UNCHANGED <<closing, restarts, closers, caller, attempt, own>>

-----------------------------------------------------------------------------
RestartNext ==
    \/ Start \/ Initialized \/ InitializeFails \/ CloseByUser \/ RestartTransport
    \/ \E i \in 1..made : Spawned(i) \/ SpawnFails(i) \/ Exits(i)

RestartSpec == RestartInit /\ [][RestartNext]_restartVars

(* A transport that nobody has closed has a process, is about to have one, *)
(* or has used up its restarts: no exit is lost, whenever in a start or a  *)
(* restart it comes (restartableStdioTransport.ts:74-150).                 *)
AliveOrRestarting ==
    ~closing /\ made > 0 =>
        (current # 0 /\ HasProcess(current)) \/ timers > 0 \/ restarts = MaxRestarts

(* A restart never meets a process that still runs. *)
OldHasEnded == timers > 0 => current # 0 /\ child[current] = "gone"

(* Between two starts there are no more processes than the configuration   *)
(* allows, and close() leaves no timer behind that would make one          *)
(* (restartableStdioTransport.ts:109-133, 211-228).                        *)
RestartsBounded ==
    /\ sinceStart <= 1 + MaxRestarts
    /\ closing => timers = 0

RestartsAreSound == AliveOrRestarting /\ OldHasEnded /\ RestartsBounded

-----------------------------------------------------------------------------
(* Claims of the docs and comments that the code does not keep. *)

(* docs/en/reference/mcp-servers.md:124, "Automatically restart the process*)
(* when it exits".                                                         *)
RestartsWhenExits ==
    caller \in {"connected", "lost"} /\ child[own] = "gone" /\ current = own =>
        timers > 0 \/ restarts = MaxRestarts

(* restartableStdioTransport.ts:76, "Expected close, forward the event": a *)
(* connection is reported closed only when its own process has ended.      *)
LostHasEnded == caller = "lost" => child[own] = "gone"

(* restartableStdioTransport.ts:207, "Closes the transport and prevents    *)
(* restart": what was closed has ended, once its closing has.              *)
ClosedHasEnded ==
    caller = "closed" /\ closers = {} => \A i \in 1..made : child[i] # "running"

(* restartableStdioTransport.ts:115, "stopping transport": the connection  *)
(* learns that its server is gone for good.                                *)
LimitIsTold ==
    caller = "connected" => (\E i \in 1..made : HasProcess(i)) \/ timers > 0
=============================================================================
