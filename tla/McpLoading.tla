----------------------------- MODULE McpLoading -----------------------------
(***************************************************************************)
(* Asynchronous loading of the configured servers:                         *)
(* core/loading/mcpLoadingManager.ts (loader, retries, timeouts, cancel,   *)
(* background retry, shutdown), loadingStateTracker.ts (the state each     *)
(* server is shown in), parallelExecutor.ts (batches) and                  *)
(* ClientManager.createSingleClient (the connection attempt itself, at     *)
(* most one per server through connectionSemaphore).                       *)
(*                                                                         *)
(* A loader awaits a race of the connection and a timeout.  Losing the     *)
(* race aborts the connection but does not end it: a connect in flight may *)
(* still succeed or fail afterwards, and a retry joins it.  connectWithRetry*)
(* is one connection here: how often it tries inside shows in its outcome  *)
(* only.  The configuration is the default one: continueOnFailure and      *)
(* enableBackgroundRetry are true.                                         *)
(*                                                                         *)
(* The map of connections is everybody's: clients close, pings are refused,*)
(* a changed configuration takes entries away and connects anew, the OAuth *)
(* routes restart and complete flows.  Of all these the tracker hears of a *)
(* completed flow only.  What they do is the subject of other modules; here*)
(* it is what they write that counts.                                      *)
(***************************************************************************)
EXTENDS Integers, Sequences, FiniteSets

CONSTANTS
    ServerOrder,        \* the servers in configuration order
    MaxRetries,         \* config.maxRetries
    MaxConcurrentLoads, \* config.maxConcurrentLoads
    MaxPerTick,         \* servers one background retry takes on (3)
    MaxTimers           \* bound: interval timers are counted up to here

ASSUME LoadingConstants ==
    /\ DOMAIN ServerOrder = 1 .. Len(ServerOrder)
    /\ MaxRetries \in Nat
    /\ MaxConcurrentLoads \in Nat \ {0}
    /\ MaxPerTick \in Nat \ {0}
    /\ MaxTimers \in Nat \ {0}

VARIABLES
    state,        \* server -> its LoadingState
    loader,       \* server -> where its loadSingleServer call stands
    reason,       \* server -> why the last attempt was rejected
    tries,        \* server -> the loader's local retryCount
    connection,   \* server -> its connectionSemaphore entry: none, of a loader
                  \* ("aborted" by its signal or not) or of somebody else ("other")
    outbound,     \* server -> status in outboundConns; "error" is Disconnected too
    touched,      \* servers whose entry others have written since a loader's outcome
    retryTimers,  \* background retry intervals that are running
    shuttingDown  \* isShuttingDown

vars == <<state, loader, reason, tries, connection, outbound, touched,
          retryTimers, shuttingDown>>

Servers == {ServerOrder[i] : i \in DOMAIN ServerOrder}

(* What outboundConns may say of a server.                                 *)
Statuses == {"absent", "connected", "error", "awaiting_oauth"}

LoadingStates == {"pending", "loading", "ready", "failed", "awaiting_oauth",
                  "cancelled"}

(* Mutant of InEarlierBatch: the batch just before is not waited for.      *)
InBatchBeforeLast(s, t) ==
    \E i, j \in DOMAIN ServerOrder :
        /\ ServerOrder[i] = s
        /\ ServerOrder[j] = t
        /\ (i - 1) \div MaxConcurrentLoads + 1 < (j - 1) \div MaxConcurrentLoads

(* ParallelExecutor starts a batch when the one before has settled. *)
InEarlierBatch(s, t) ==
    \E i, j \in DOMAIN ServerOrder :
        /\ ServerOrder[i] = s
        /\ ServerOrder[j] = t
        /\ (i - 1) \div MaxConcurrentLoads < (j - 1) \div MaxConcurrentLoads

-----------------------------------------------------------------------------
(* isComplete of the tracker's summary. *)
Complete(st) == \A s \in Servers : st[s] \notin {"pending", "loading"}

(* updateServerState of servers S: every update that leaves the loading    *)
(* complete emits LoadingComplete, and its handler starts an interval.     *)
SetState(S, new) ==
    /\ state' = [s \in Servers |-> IF s \in S THEN new ELSE state[s]]
    /\ retryTimers' = IF Complete(state') /\ ~shuttingDown /\ retryTimers < MaxTimers
                      THEN retryTimers + 1 ELSE retryTimers

KeepState == UNCHANGED <<state, retryTimers>>

(* createClientWithTimeout calls createSingleClient: servers with an entry *)
(* in the semaphore join the connection that is there.                     *)
BeginAttempt(S) ==
    /\ loader' = [s \in Servers |-> IF s \in S THEN "attempt" ELSE loader[s]]
    /\ connection' = [s \in Servers |->
                        IF s \in S /\ connection[s] = "none"
                        THEN "running" ELSE connection[s]]

(* The attempt's abort controller fires: the loader's race is lost. *)
AbortAttempts(S) ==
    /\ loader' = [s \in Servers |-> IF s \in S THEN "rejected" ELSE loader[s]]
    /\ reason' = [s \in Servers |-> IF s \in S THEN "error" ELSE reason[s]]
    /\ connection' = [s \in Servers |->
                        IF s \in S /\ connection[s] = "running"
                        THEN "aborted" ELSE connection[s]]

Attempting == {s \in Servers : loader[s] = "attempt"}

-----------------------------------------------------------------------------
(* The executor reaches the server: loadSingleServer, first attempt. *)
StartLoad(s) ==
    /\ loader[s] = "waiting"
    /\ \A t \in Servers : InEarlierBatch(t, s) => loader[t] = "done"
    /\ ~shuttingDown
    /\ SetState({s}, "loading")
    /\ BeginAttempt({s})
    /\ UNCHANGED <<reason, tries, outbound, touched, shuttingDown>>

SkipLoad(s) ==
    /\ loader[s] = "waiting"
    /\ \A t \in Servers : InEarlierBatch(t, s) => loader[t] = "done"
    /\ shuttingDown
    /\ loader' = [loader EXCEPT ![s] = "done"]
    /\ UNCHANGED <<state, reason, tries, connection, outbound, touched, retryTimers,
                   shuttingDown>>

(* The end of a connection no loader waits for writes the entry as others  *)
(* do, if others began it.                                                 *)
OthersConnection(s) == IF loader[s] # "attempt" /\ connection[s] = "other" THEN {s} ELSE {}

ConnectSucceeds(s) ==
    /\ connection[s] # "none"
    /\ connection' = [connection EXCEPT ![s] = "none"]
    /\ outbound' = [outbound EXCEPT ![s] = "connected"]
    /\ \/ /\ loader[s] = "attempt"
          /\ loader' = [loader EXCEPT ![s] = "done"]
          /\ SetState({s}, "ready")
          /\ touched' = touched \ {s}
       \/ /\ loader[s] # "attempt"
          /\ touched' = touched \cup OthersConnection(s)
          /\ UNCHANGED loader
          /\ KeepState
    /\ UNCHANGED <<reason, tries, shuttingDown>>

(* handleSingleClientError: the status an error leaves in outboundConns.   *)
StatusAlwaysError(why) == "error"    \* mutant of StatusAfter

StatusAfter(why) == IF why = "oauth" THEN "awaiting_oauth" ELSE "error"

(* The outcome is "error" or "oauth" (OAuthRequiredError). *)
ConnectFails(s, why) ==
    /\ connection[s] # "none"
    /\ connection' = [connection EXCEPT ![s] = "none"]
    /\ outbound' = [outbound EXCEPT ![s] = StatusAfter(why)]
    /\ loader' = [loader EXCEPT ![s] = IF @ = "attempt" THEN "rejected" ELSE @]
    /\ reason' = [reason EXCEPT ![s] = IF loader[s] = "attempt" THEN why ELSE @]
    /\ touched' = touched \cup OthersConnection(s)
    /\ KeepState
    /\ UNCHANGED <<tries, shuttingDown>>

(* Mutant of Timeout: an attempt that joins an aborted one has no timeout. *)
TimeoutOfOwnConnection(s) ==
    /\ s \in Attempting
    /\ connection[s] = "running"
    /\ AbortAttempts({s})
    /\ KeepState
    /\ UNCHANGED <<tries, outbound, touched, shuttingDown>>

Timeout(s) ==
    /\ s \in Attempting
    /\ AbortAttempts({s})
    /\ KeepState
    /\ UNCHANGED <<tries, outbound, touched, shuttingDown>>

(* Mutant of CancelServerLoading: no test whether the server is loading.   *)
CancelAnyServer(s) ==
    /\ AbortAttempts({s})
    /\ SetState({s}, "cancelled")
    /\ UNCHANGED <<tries, outbound, touched, shuttingDown>>

CancelServerLoading(s) ==
    /\ s \in Attempting
    /\ AbortAttempts({s})
    /\ SetState({s}, "cancelled")
    /\ UNCHANGED <<tries, outbound, touched, shuttingDown>>

(* The test of loadSingleServer's loop, once retryCount has been raised.   *)
TriesAgain(s) == tries[s] + 1 <= MaxRetries /\ ~shuttingDown

(* The catch block of loadSingleServer and the test of its loop. *)
HandleRejection(s) ==
    /\ loader[s] = "rejected"
    /\ tries' = [tries EXCEPT ![s] = @ + 1]
    /\ \/ /\ reason[s] = "oauth"
          /\ loader' = [loader EXCEPT ![s] = "done"]
          /\ SetState({s}, "awaiting_oauth")
       \/ /\ reason[s] # "oauth"
          /\ TriesAgain(s)
          /\ loader' = [loader EXCEPT ![s] = "backoff"]
          /\ KeepState
       \/ /\ reason[s] # "oauth"
          /\ ~TriesAgain(s)
          /\ loader' = [loader EXCEPT ![s] = "done"]
          /\ SetState({s}, "failed")
    /\ touched' = IF reason[s] = "oauth" THEN touched \ {s} ELSE touched
    /\ UNCHANGED <<reason, connection, outbound, shuttingDown>>

(* The exponential backoff has elapsed. *)
Retry(s) ==
    /\ loader[s] = "backoff"
    /\ ~shuttingDown
    /\ SetState({s}, "loading")
    /\ BeginAttempt({s})
    /\ UNCHANGED <<reason, tries, outbound, touched, shuttingDown>>

GiveUp(s) ==
    /\ loader[s] = "backoff"
    /\ shuttingDown
    /\ loader' = [loader EXCEPT ![s] = "done"]
    /\ SetState({s}, "failed")
    /\ UNCHANGED <<reason, tries, connection, outbound, touched, shuttingDown>>

(* One of the intervals fires: performBackgroundRetry starts a loader for  *)
(* some of the failed servers.                                             *)
BackgroundRetry(S) ==
    /\ retryTimers > 0
    /\ ~shuttingDown
    /\ S # {}
    /\ \A s \in S : state[s] = "failed"
    /\ \/ Cardinality(S) = MaxPerTick
       \/ Cardinality(S) < MaxPerTick /\ \A s \in Servers \ S : state[s] # "failed"
    /\ SetState(S, "loading")
    /\ BeginAttempt(S)
    /\ tries' = [s \in Servers |-> IF s \in S THEN 0 ELSE tries[s]]
    /\ UNCHANGED <<reason, outbound, touched, shuttingDown>>

(* shutdown() clears the interval stored last, aborts what is being loaded *)
(* and marks what is not final as cancelled.                               *)
Shutdown ==
    /\ ~shuttingDown
    /\ shuttingDown' = TRUE
    /\ retryTimers' = IF retryTimers > 0 THEN retryTimers - 1 ELSE 0
    /\ AbortAttempts(Attempting)
    /\ state' = [s \in Servers |->
                   IF s \in Attempting \/ state[s] \in {"pending", "loading"}
                   THEN "cancelled" ELSE state[s]]
    /\ UNCHANGED <<tries, outbound, touched>>

-----------------------------------------------------------------------------
(* The others. *)

loadVars == <<state, loader, reason, tries, retryTimers, shuttingDown>>

(* Whatever others do with the entry of the server's name: onclose and     *)
(* restartOAuthFlow ("error"), markAwaitingOAuth, createClient of a changed*)
(* configuration (any outcome, without the semaphore), removeClient,       *)
(* disconnectFromServer and the clear of createClients ("absent").         *)
Writes(s, status) ==
    /\ outbound' = [outbound EXCEPT ![s] = status]
    /\ touched' = touched \cup {s}
    /\ UNCHANGED <<connection, loadVars>>

(* createSingleClient of initiateOAuth, or of a reload of one server.      *)
Begins(s) ==
    /\ connection[s] = "none"
    /\ connection' = [connection EXCEPT ![s] = "other"]
    /\ UNCHANGED <<outbound, touched, loadVars>>

(* The callback of a flow: completeOAuthAndReconnect of an entry there was *)
(* when it began, and the tracker is told, whatever a loader is at.        *)
OAuthCallback(s) ==
    /\ outbound[s] # "absent" \/ s \in touched
    /\ outbound' = [outbound EXCEPT ![s] = "connected"]
    /\ SetState({s}, "ready")
    /\ touched' = IF loader[s] = "done" /\ connection[s] \in {"none", "other"}
                  THEN touched \ {s} ELSE touched \cup {s}
    /\ UNCHANGED <<loader, reason, tries, connection, shuttingDown>>

Others ==
    \E s \in Servers :
        \/ \E status \in Statuses : Writes(s, status)
        \/ Begins(s)
        \/ OAuthCallback(s)

-----------------------------------------------------------------------------
Init ==
    /\ state = [s \in Servers |-> "pending"]
    /\ loader = [s \in Servers |-> "waiting"]
    /\ reason = [s \in Servers |-> "error"]
    /\ tries = [s \in Servers |-> 0]
    /\ connection = [s \in Servers |-> "none"]
    /\ outbound = [s \in Servers |-> "absent"]
    /\ touched = {}
    /\ retryTimers = 0
    /\ shuttingDown = FALSE

(* Rejections are handled in microtasks, before any other callback runs. *)
MicrotasksDone == \A s \in Servers : loader[s] # "rejected"

Callback ==
    \/ \E s \in Servers :
          \/ StartLoad(s)
          \/ SkipLoad(s)
          \/ ConnectSucceeds(s)
          \/ \E why \in {"error", "oauth"} : ConnectFails(s, why)
          \/ Timeout(s)
          \/ CancelServerLoading(s)
          \/ Retry(s)
          \/ GiveUp(s)
    \/ \E S \in SUBSET Servers : BackgroundRetry(S)
    \/ Shutdown
    \/ Others

Next ==
    \/ \E s \in Servers : HandleRejection(s)
    \/ MicrotasksDone /\ Callback

Spec == Init /\ [][Next]_vars

(* Callbacks that are due run: the catch block, the executor's next item,  *)
(* the timeout of an attempt, the end of a backoff.  The event loop takes  *)
(* a due callback when the microtasks are done; these interrupt for a      *)
(* moment again and again, hence strong fairness.  A connection need not   *)
(* ever answer, and nobody need cancel, retry in the background or shut    *)
(* down.                                                                   *)
Fairness ==
    \A s \in Servers :
        /\ WF_vars(HandleRejection(s))
        /\ SF_vars(MicrotasksDone /\ (StartLoad(s) \/ SkipLoad(s)))
        /\ SF_vars(MicrotasksDone /\ Timeout(s))
        /\ SF_vars(MicrotasksDone /\ (Retry(s) \/ GiveUp(s)))

FairSpec == Spec /\ Fairness

-----------------------------------------------------------------------------
LoadingTypeOK ==
    /\ state \in [Servers -> LoadingStates]
    /\ loader \in [Servers -> {"waiting", "attempt", "rejected", "backoff", "done"}]
    /\ reason \in [Servers -> {"error", "oauth"}]
    /\ tries \in [Servers -> 0 .. MaxRetries + 1]
    /\ connection \in [Servers -> {"none", "running", "aborted", "other"}]
    /\ outbound \in [Servers -> Statuses]
    /\ touched \in SUBSET Servers
    /\ retryTimers \in 0 .. MaxTimers
    /\ shuttingDown \in BOOLEAN

(* A server shown ready is connected and one shown awaiting authorization  *)
(* waits for it, although connections of earlier attempts outlive their    *)
(* loader and write the connection's status later (createSingleClient's    *)
(* semaphore is what keeps a stale attempt from doing it now), unless      *)
(* others have written the entry since.                                    *)
ShownAsConnected ==
    \A s \in Servers \ touched :
        /\ state[s] = "ready" => outbound[s] = "connected"
        /\ state[s] = "awaiting_oauth" => outbound[s] = "awaiting_oauth"

(* As long as no background retry can have begun, the loaders at work are  *)
(* no more than configured, whatever retries and cancellations there are   *)
(* (ParallelExecutor, lines 84-136).                                       *)
InitialPhase == retryTimers = 0 /\ ~shuttingDown

InitialLoadersBounded ==
    InitialPhase =>
        Cardinality({s \in Servers : loader[s] \notin {"waiting", "done"}})
            <= MaxConcurrentLoads

(* Loading always comes to an end for every server, in whatever batch, if  *)
(* its connections never answer: the timeout sees to it.                   *)
LoadingSettles ==
    \A s \in Servers :
        state[s] \in {"pending", "loading"} ~> state[s] \notin {"pending", "loading"}

-----------------------------------------------------------------------------
(* Claims of the source's comments. *)

(* mcpLoadingManager.ts:380, "Cancel loading of a specific server": a      *)
(* server that was cancelled is not loaded after all.                      *)
CancelledIsNotLoaded ==
    [][\A s \in Servers : state[s] = "cancelled" => state'[s] # "loading"]_vars

(* mcpLoadingManager.ts:434, "Update state for any remaining               *)
(* pending/loading servers": what shutdown leaves cancelled stays so.      *)
ShutdownIsFinal ==
    [][\A s \in Servers :
         shuttingDown /\ state[s] = "cancelled" => state'[s] = "cancelled"]_vars

(* loadingStateTracker.ts:16, "Server failed to initialize": a server shown *)
(* so is not connected, even before any shutdown and if no others connect  *)
(* it.                                                                     *)
FailedIsNotConnected ==
    \A s \in Servers \ touched :
        state[s] = "failed" /\ ~shuttingDown => outbound[s] # "connected"

(* loadingStateTracker.ts:14, "Server successfully initialized and         *)
(* connected".                                                             *)
ReadyIsConnected == \A s \in Servers : state[s] = "ready" => outbound[s] = "connected"
=============================================================================
