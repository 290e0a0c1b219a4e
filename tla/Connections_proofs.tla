------------------------- MODULE Connections_proofs -------------------------
(***************************************************************************)
(* Proofs about connections: what is told of the connections to servers    *)
(* while they load, the connection to a child that is restarted, that of   *)
(* the proxy, what a client is allowed over one, the authorization of 1mcp *)
(* at a server, and what 1mcp's own tools answer.  The parts share no      *)
(* state; each has an inductive invariant of its own.                      *)
(***************************************************************************)
EXTENDS ServerStatus, RestartableStdio, ProxyForwarding, OAuthServer,
    UpstreamOAuth, InternalTools, FiniteSetTheorems, TLAPS

-----------------------------------------------------------------------------
(***************************************************************************)
(* Proofs about loading and what is told of it.                            *)
(***************************************************************************)

(* What is shown as the outcome of a loading is, unless others have written*)
(* since: its loader is done and nothing of it that is under way could     *)
(* still change the connection.                                            *)
Settled(s) == loader[s] = "done" /\ connection[s] \in {"none", "other"}

ShownIsSettled ==
    \A s \in Servers \ touched :
        /\ state[s] = "ready" => Settled(s) /\ outbound[s] = "connected"
        /\ state[s] = "awaiting_oauth" => Settled(s) /\ outbound[s] = "awaiting_oauth"

(* Who asks for an authorization has ended the connection and said so. *)
RejectedByOAuth ==
    \A s \in Servers :
        loader[s] = "rejected" /\ reason[s] = "oauth"
            => connection[s] = "none" /\ outbound[s] = "awaiting_oauth"

(* In the first phase, the batches before that of a loader are done.       *)
EarlierAreDone ==
    InitialPhase =>
        \A s, t \in Servers :
            InEarlierBatch(t, s) /\ loader[s] # "waiting" => loader[t] = "done"

(* Who is not done has a try left. *)
TriesAreLeft == \A s \in Servers : loader[s] # "done" => tries[s] <= MaxRetries

LoadingInv ==
    LoadingTypeOK /\ TriesAreLeft /\ ShownIsSettled /\ RejectedByOAuth /\ EarlierAreDone

-----------------------------------------------------------------------------
(* The numbers of one batch. *)
LEMMA BatchNumbers ==
    ASSUME NEW m \in Nat \ {0}, NEW i \in Nat \ {0}
    PROVE  /\ (i - 1) \div m \in Nat
           /\ i \in m * ((i - 1) \div m) + 1 .. m * ((i - 1) \div m) + m
<1>1. PICK a \in Nat : a = i - 1
  OBVIOUS
<1>2. a \div m \in Nat /\ m * (a \div m) <= a /\ a < m * (a \div m) + m
  OBVIOUS
<1>3. m * (a \div m) \in Nat
  BY <1>2
<1> QED BY <1>1, <1>2, <1>3

(* Servers none of which is in an earlier batch than another are no more   *)
(* than a batch has.                                                       *)
LEMMA BatchIsSmall ==
    ASSUME NEW W \in SUBSET Servers, \A s, t \in W : ~InEarlierBatch(s, t)
    PROVE  IsFiniteSet(W) /\ Cardinality(W) <= MaxConcurrentLoads
<1> DEFINE M == MaxConcurrentLoads
<1>1. M \in Nat \ {0} /\ DOMAIN ServerOrder \subseteq Nat \ {0}
  BY LoadingConstants
<1>2. CASE W = {}
  BY <1>1, <1>2, FS_EmptySet
<1>3. CASE W # {}
  <2>1. PICK s \in W : TRUE
    BY <1>3
  <2>2. PICK i \in DOMAIN ServerOrder : ServerOrder[i] = s
    BY DEF Servers
  <2>3. PICK b : b = (i - 1) \div M
    OBVIOUS
  <2> DEFINE P == {j \in DOMAIN ServerOrder : (j - 1) \div M = b}
             f == [j \in P |-> ServerOrder[j]]
             T == {f[j] : j \in P}
  <2>4. b \in Nat
    BY <1>1, <2>3, BatchNumbers
  <2>5. P \subseteq M * b + 1 .. M * b + M
    BY <1>1, <2>3, BatchNumbers
  <2>6. IsFiniteSet(P) /\ Cardinality(P) <= M
    <3>1. M * b \in Nat
      BY <1>1, <2>4
    <3>2. PICK a \in Nat : a = M * b
      BY <3>1
    <3>3. IsFiniteSet(a + 1 .. a + M) /\ Cardinality(a + 1 .. a + M) = M
      <4>1. (a + M) - (a + 1) + 1 = M /\ a + 1 <= a + M /\ a + 1 \in Int /\ a + M \in Int
        BY <1>1
      <4> HIDE DEF M
      <4> QED BY <4>1, FS_Interval
    <3>4. PICK I : I = a + 1 .. a + M
      OBVIOUS
    <3>5. IsFiniteSet(I) /\ Cardinality(I) = M
      BY <3>3, <3>4
    <3>6. P \in SUBSET I
      BY <2>5, <3>2, <3>4
    <3> HIDE DEF P
    <3>7. IsFiniteSet(P) /\ Cardinality(P) <= Cardinality(I)
      BY <3>5, <3>6, FS_Subset
    <3> QED BY <3>5, <3>7
  <2>7. f \in Surjection(P, T)
    BY DEF Surjection
  <2>8. IsFiniteSet(T) /\ Cardinality(T) <= Cardinality(P)
    <3> HIDE DEF f, T, P
    <3> QED BY <2>6, <2>7, FS_Surjection
  <2>9. W \subseteq T
    <3> SUFFICES ASSUME NEW t \in W PROVE t \in T
      OBVIOUS
    <3>1. PICK j \in DOMAIN ServerOrder : ServerOrder[j] = t
      BY DEF Servers
    <3>2. ~((i - 1) \div M < (j - 1) \div M) /\ ~((j - 1) \div M < (i - 1) \div M)
      <4>1. ~InEarlierBatch(s, t) /\ ~InEarlierBatch(t, s)
        OBVIOUS
      <4> QED BY <4>1, <2>2, <3>1 DEF InEarlierBatch
    <3>3. (i - 1) \div M \in Nat /\ (j - 1) \div M \in Nat
      BY <1>1, BatchNumbers
    <3>4. (j - 1) \div M = b
      BY <2>3, <3>2, <3>3
    <3> QED BY <3>1, <3>4
  <2> QED
    <3> HIDE DEF f, T, P
    <3>1. IsFiniteSet(W) /\ Cardinality(W) <= Cardinality(T)
      BY <2>8, <2>9, FS_Subset
    <3>2. Cardinality(W) \in Nat /\ Cardinality(T) \in Nat /\ Cardinality(P) \in Nat
      BY <2>6, <2>8, <3>1, FS_CardinalityType
    <3> QED BY <1>1, <2>6, <2>8, <3>1, <3>2
<1> QED BY <1>2, <1>3

(* While the first batches are loaded, the loaders at work are of one.     *)
LEMMA InitialIsBounded == LoadingInv => InitialLoadersBounded
<1> SUFFICES ASSUME LoadingInv, InitialPhase
             PROVE  Cardinality({s \in Servers : loader[s] \notin {"waiting", "done"}})
                       <= MaxConcurrentLoads
  BY DEF InitialLoadersBounded
<1>1. \A s, t \in {u \in Servers : loader[u] \notin {"waiting", "done"}} : ~InEarlierBatch(s, t)
  BY DEF LoadingInv, EarlierAreDone
<1> QED BY <1>1, BatchIsSmall

-----------------------------------------------------------------------------
(* LoadingInv holds before servers are loaded.                             *)
LEMMA LoadingInitInv == Init => LoadingInv
<1> SUFFICES ASSUME Init PROVE LoadingInv
  OBVIOUS
<1> USE LoadingConstants DEF Init
<1>1. LoadingTypeOK
  <2>1. state \in [Servers -> LoadingStates]
    BY DEF LoadingStates
  <2>2. loader \in [Servers -> {"waiting", "attempt", "rejected", "backoff", "done"}]
    OBVIOUS
  <2>3. reason \in [Servers -> {"error", "oauth"}]
    OBVIOUS
  <2>4. tries \in [Servers -> 0 .. MaxRetries + 1] /\ retryTimers \in 0 .. MaxTimers
    <3>1. 0 \in 0 .. MaxRetries + 1 /\ 0 \in 0 .. MaxTimers
      OBVIOUS
    <3> QED BY <3>1
  <2>5. connection \in [Servers -> {"none", "running", "aborted", "other"}]
    OBVIOUS
  <2>6. outbound \in [Servers -> Statuses] /\ touched \in SUBSET Servers
    BY DEF Statuses
  <2> QED BY <2>1, <2>2, <2>3, <2>4, <2>5, <2>6 DEF LoadingTypeOK
<1>2. /\ \A s \in Servers : state[s] = "pending" /\ loader[s] = "waiting" /\ tries[s] = 0
      /\ retryTimers = 0
  OBVIOUS
<1>3. TriesAreLeft /\ ShownIsSettled /\ RejectedByOAuth /\ EarlierAreDone
  BY <1>2, LoadingConstants DEF TriesAreLeft, ShownIsSettled, RejectedByOAuth, EarlierAreDone
<1> QED BY <1>1, <1>3 DEF LoadingInv

(* An update of the states may start an interval.                          *)
LEMMA SetStateFacts ==
    ASSUME LoadingInv, NEW S \in SUBSET Servers, NEW new \in LoadingStates, SetState(S, new)
    PROVE  /\ state' \in [Servers -> LoadingStates]
           /\ \A s \in Servers : state'[s] = IF s \in S THEN new ELSE state[s]
           /\ retryTimers' \in 0 .. MaxTimers
           /\ retryTimers' = 0 => retryTimers = 0
<1> USE DEF LoadingInv
<1>1. /\ state' \in [Servers -> LoadingStates]
      /\ \A s \in Servers : state'[s] = IF s \in S THEN new ELSE state[s]
  BY DEF SetState, LoadingTypeOK
<1>2. retryTimers \in 0 .. MaxTimers /\ MaxTimers \in Nat
  BY LoadingConstants DEF LoadingTypeOK
<1>3. retryTimers' \in 0 .. MaxTimers /\ (retryTimers' = 0 => retryTimers = 0)
  BY <1>2 DEF SetState
<1> QED BY <1>1, <1>3

(* Loaders that only go on, and settle before another batch begins, keep   *)
(* the order of the batches.                                               *)
LEMMA EarlierKept ==
    ASSUME LoadingInv,
           retryTimers' = 0 /\ ~shuttingDown' => retryTimers = 0 /\ ~shuttingDown,
           \A s \in Servers : loader[s] = "done" /\ InitialPhase => loader'[s] = "done",
           InitialPhase => \A s, t \in Servers :
               loader[s] = "waiting" /\ loader'[s] # "waiting" /\ InEarlierBatch(t, s)
                   => loader'[t] = "done"
    PROVE  EarlierAreDone'
<1>1. InitialPhase' => InitialPhase
  BY DEF InitialPhase
<1> SUFFICES ASSUME InitialPhase', NEW s \in Servers, NEW t \in Servers,
                    InEarlierBatch(t, s), loader'[s] # "waiting"
             PROVE  loader'[t] = "done"
  BY DEF EarlierAreDone, InEarlierBatch
<1>2. CASE loader[s] = "waiting"
  BY <1>1, <1>2
<1>3. CASE loader[s] # "waiting"
  BY <1>1, <1>3 DEF LoadingInv, EarlierAreDone
<1> QED BY <1>2, <1>3

-----------------------------------------------------------------------------
(* The executor starts a server or, after a shutdown, passes it over.      *)
LEMMA ExecutorInv ==
    ASSUME LoadingInv, MicrotasksDone, NEW s \in Servers, StartLoad(s) \/ SkipLoad(s)
    PROVE  LoadingInv'
<1> USE DEF LoadingInv
<1>1. CASE StartLoad(s)
  <2>1. SetState({s}, "loading") /\ loader[s] = "waiting" /\ ~shuttingDown
    BY <1>1 DEF StartLoad
  <2>2. /\ state' \in [Servers -> LoadingStates]
        /\ \A t \in Servers : state'[t] = IF t = s THEN "loading" ELSE state[t]
        /\ retryTimers' \in 0 .. MaxTimers
        /\ retryTimers' = 0 => retryTimers = 0
    BY <2>1, SetStateFacts DEF LoadingStates
  <2>3. /\ loader' \in [Servers -> {"waiting", "attempt", "rejected", "backoff", "done"}]
        /\ \A t \in Servers : loader'[t] = IF t = s THEN "attempt" ELSE loader[t]
    BY <1>1 DEF StartLoad, BeginAttempt, LoadingTypeOK
  <2>4. /\ connection' \in [Servers -> {"none", "running", "aborted", "other"}]
        /\ \A t \in Servers : t # s => connection'[t] = connection[t]
    BY <1>1 DEF StartLoad, BeginAttempt, LoadingTypeOK
  <2>5. UNCHANGED <<reason, tries, outbound, touched, shuttingDown>>
    BY <1>1 DEF StartLoad
  <2>6. LoadingTypeOK' /\ TriesAreLeft'
    BY <2>1, <2>2, <2>3, <2>4, <2>5 DEF LoadingTypeOK, TriesAreLeft
  <2>7. ShownIsSettled' /\ RejectedByOAuth'
    BY <2>2, <2>3, <2>4, <2>5 DEF ShownIsSettled, Settled, RejectedByOAuth
  <2>8. \A t \in Servers : InEarlierBatch(t, s) => loader[t] = "done"
    BY <1>1 DEF StartLoad
  <2>9. EarlierAreDone'
    BY <2>1, <2>2, <2>3, <2>5, <2>8, EarlierKept
  <2> QED BY <2>6, <2>7, <2>9
<1>2. CASE SkipLoad(s)
  <2>1. /\ loader' = [loader EXCEPT ![s] = "done"] /\ shuttingDown /\ loader[s] = "waiting"
        /\ UNCHANGED <<state, reason, tries, connection, outbound, touched, retryTimers, shuttingDown>>
        /\ \A t \in Servers : InEarlierBatch(t, s) => loader[t] = "done"
    BY <1>2 DEF SkipLoad
  <2>2. /\ loader' \in [Servers -> {"waiting", "attempt", "rejected", "backoff", "done"}]
        /\ \A t \in Servers : loader'[t] = IF t = s THEN "done" ELSE loader[t]
    BY <2>1 DEF LoadingTypeOK
  <2>3. LoadingTypeOK' /\ TriesAreLeft'
    BY <2>1, <2>2 DEF LoadingTypeOK, TriesAreLeft
  <2>4. ShownIsSettled' /\ RejectedByOAuth'
    BY <2>1, <2>2 DEF ShownIsSettled, Settled, RejectedByOAuth
  <2>5. EarlierAreDone'
    BY <2>1, <2>2, EarlierKept
  <2> QED BY <2>3, <2>4, <2>5
<1> QED BY <1>1, <1>2

(* A connection ends, whether or not its loader still waits for it.        *)
LEMMA ConnectInv ==
    ASSUME LoadingInv, MicrotasksDone, NEW s \in Servers,
           ConnectSucceeds(s) \/ \E why \in {"error", "oauth"} : ConnectFails(s, why)
    PROVE  LoadingInv'
<1> USE DEF LoadingInv
<1>1. CASE ConnectSucceeds(s)
  <2>1. /\ connection' \in [Servers -> {"none", "running", "aborted", "other"}]
        /\ \A t \in Servers : connection'[t] = IF t = s THEN "none" ELSE connection[t]
        /\ outbound' \in [Servers -> Statuses]
        /\ \A t \in Servers : outbound'[t] = IF t = s THEN "connected" ELSE outbound[t]
        /\ UNCHANGED <<reason, tries, shuttingDown>>
        /\ connection[s] # "none"
    BY <1>1 DEF ConnectSucceeds, LoadingTypeOK, Statuses
  <2>2. CASE loader[s] = "attempt"
    <3>1. /\ loader' = [loader EXCEPT ![s] = "done"] /\ SetState({s}, "ready")
          /\ touched' = touched \ {s}
      BY <1>1, <2>2 DEF ConnectSucceeds
    <3>2. /\ state' \in [Servers -> LoadingStates]
          /\ \A t \in Servers : state'[t] = IF t = s THEN "ready" ELSE state[t]
          /\ retryTimers' \in 0 .. MaxTimers
          /\ retryTimers' = 0 => retryTimers = 0
      BY <3>1, SetStateFacts DEF LoadingStates
    <3>3. /\ loader' \in [Servers -> {"waiting", "attempt", "rejected", "backoff", "done"}]
          /\ \A t \in Servers : loader'[t] = IF t = s THEN "done" ELSE loader[t]
      BY <3>1 DEF LoadingTypeOK
    <3>4. LoadingTypeOK' /\ TriesAreLeft'
      BY <2>1, <3>1, <3>2, <3>3 DEF LoadingTypeOK, TriesAreLeft
    <3>5. ShownIsSettled' /\ RejectedByOAuth'
      BY <2>1, <3>1, <3>2, <3>3 DEF ShownIsSettled, Settled, RejectedByOAuth
    <3>6. EarlierAreDone'
      BY <2>1, <2>2, <3>2, <3>3, EarlierKept
    <3> QED BY <3>4, <3>5, <3>6
  <2>3. CASE loader[s] # "attempt"
    <3>1. /\ UNCHANGED <<loader, state, retryTimers>>
          /\ touched' \in SUBSET Servers /\ touched \subseteq touched'
          /\ connection[s] = "other" => s \in touched'
      BY <1>1, <2>3 DEF ConnectSucceeds, KeepState, OthersConnection, LoadingTypeOK
    <3>2. LoadingTypeOK' /\ TriesAreLeft'
      BY <2>1, <3>1 DEF LoadingTypeOK, TriesAreLeft
    <3>3. ShownIsSettled'
      BY <2>1, <3>1 DEF ShownIsSettled, Settled
    <3>4. RejectedByOAuth'
      BY <3>1 DEF RejectedByOAuth, MicrotasksDone
    <3>5. EarlierAreDone'
      BY <2>1, <3>1, EarlierKept
    <3> QED BY <3>2, <3>3, <3>4, <3>5
  <2> QED BY <2>2, <2>3
<1>2. ASSUME NEW why \in {"error", "oauth"}, ConnectFails(s, why) PROVE LoadingInv'
  <2>1. /\ connection' \in [Servers -> {"none", "running", "aborted", "other"}]
        /\ \A t \in Servers : connection'[t] = IF t = s THEN "none" ELSE connection[t]
        /\ UNCHANGED <<state, retryTimers, tries, shuttingDown>>
        /\ connection[s] # "none"
    BY <1>2 DEF ConnectFails, KeepState, LoadingTypeOK
  <2>2. /\ outbound' \in [Servers -> Statuses]
        /\ \A t \in Servers : t # s => outbound'[t] = outbound[t]
        /\ why = "oauth" => outbound'[s] = "awaiting_oauth"
        /\ touched' \in SUBSET Servers /\ touched \subseteq touched'
        /\ connection[s] = "other" /\ loader[s] # "attempt" => s \in touched'
    BY <1>2 DEF ConnectFails, StatusAfter, LoadingTypeOK, Statuses, OthersConnection
  <2>3. /\ loader' \in [Servers -> {"waiting", "attempt", "rejected", "backoff", "done"}]
        /\ \A t \in Servers :
              loader'[t] = IF t = s /\ loader[s] = "attempt" THEN "rejected" ELSE loader[t]
    BY <1>2 DEF ConnectFails, LoadingTypeOK
  <2>4. /\ reason' \in [Servers -> {"error", "oauth"}]
        /\ loader[s] = "attempt" => reason'[s] = why
    BY <1>2 DEF ConnectFails, LoadingTypeOK
  <2>5. LoadingTypeOK' /\ TriesAreLeft'
    BY <2>1, <2>2, <2>3, <2>4 DEF LoadingTypeOK, TriesAreLeft
  <2>6. ShownIsSettled'
    BY <2>1, <2>2, <2>3 DEF ShownIsSettled, Settled
  <2>7. RejectedByOAuth'
    BY <2>1, <2>2, <2>3, <2>4 DEF RejectedByOAuth, MicrotasksDone
  <2>8. EarlierAreDone'
    BY <2>1, <2>3, EarlierKept
  <2> QED BY <2>5, <2>6, <2>7, <2>8
<1> QED BY <1>1, <1>2

(* What losing a race leaves of the loaders.                               *)
LEMMA AbortFacts ==
    ASSUME LoadingTypeOK, NEW S \in SUBSET Attempting, AbortAttempts(S)
    PROVE  /\ loader' \in [Servers -> {"waiting", "attempt", "rejected", "backoff", "done"}]
           /\ reason' \in [Servers -> {"error", "oauth"}]
           /\ connection' \in [Servers -> {"none", "running", "aborted", "other"}]
           /\ \A s \in S : loader[s] = "attempt" /\ loader'[s] = "rejected" /\ reason'[s] = "error"
           /\ \A s \in Servers \ S :
                 loader'[s] = loader[s] /\ reason'[s] = reason[s] /\ connection'[s] = connection[s]
BY DEF AbortAttempts, Attempting, LoadingTypeOK

(* An attempt loses its race.                                              *)
LEMMA AbortInv ==
    ASSUME LoadingInv, MicrotasksDone, NEW s \in Servers, Timeout(s) \/ CancelServerLoading(s)
    PROVE  LoadingInv'
<1> USE DEF LoadingInv
<1>1. s \in Attempting /\ AbortAttempts({s}) /\ UNCHANGED <<tries, outbound, touched, shuttingDown>>
  BY DEF Timeout, CancelServerLoading
<1>2. /\ loader' \in [Servers -> {"waiting", "attempt", "rejected", "backoff", "done"}]
      /\ reason' \in [Servers -> {"error", "oauth"}]
      /\ connection' \in [Servers -> {"none", "running", "aborted", "other"}]
      /\ loader[s] = "attempt" /\ loader'[s] = "rejected" /\ reason'[s] = "error"
      /\ \A t \in Servers : t # s =>
            loader'[t] = loader[t] /\ reason'[t] = reason[t] /\ connection'[t] = connection[t]
  BY <1>1, AbortFacts
<1>3. /\ state' \in [Servers -> LoadingStates]
      /\ \A t \in Servers : state'[t] = state[t] \/ (t = s /\ state'[t] = "cancelled")
      /\ retryTimers' \in 0 .. MaxTimers
      /\ retryTimers' = 0 => retryTimers = 0
  <2>1. CASE Timeout(s)
    BY <2>1 DEF Timeout, KeepState, LoadingTypeOK
  <2>2. CASE CancelServerLoading(s)
    <3>1. SetState({s}, "cancelled")
      BY <2>2 DEF CancelServerLoading
    <3> QED BY <1>2, <3>1, SetStateFacts DEF LoadingStates
  <2> QED BY <2>1, <2>2
<1>4. LoadingTypeOK' /\ TriesAreLeft'
  BY <1>1, <1>2, <1>3 DEF LoadingTypeOK, TriesAreLeft
<1>5. ShownIsSettled'
  BY <1>1, <1>2, <1>3 DEF ShownIsSettled, Settled
<1>6. RejectedByOAuth'
  BY <1>1, <1>2, <1>3 DEF RejectedByOAuth
<1>8. EarlierAreDone'
  BY <1>1, <1>2, <1>3, EarlierKept
<1> QED BY <1>4, <1>5, <1>6, <1>8

(* The catch block: the loader ends, or backs off to try again.            *)
LEMMA HandleInv ==
    ASSUME LoadingInv, NEW s \in Servers, HandleRejection(s)
    PROVE  LoadingInv'
<1> USE DEF LoadingInv
<1>1. /\ loader[s] = "rejected"
      /\ tries' = [tries EXCEPT ![s] = @ + 1]
      /\ touched' = IF reason[s] = "oauth" THEN touched \ {s} ELSE touched
      /\ UNCHANGED <<reason, connection, outbound, shuttingDown>>
  BY DEF HandleRejection
<1>2. /\ tries[s] \in Nat /\ tries[s] <= MaxRetries /\ MaxRetries \in Nat
      /\ tries' \in [Servers -> 0 .. MaxRetries + 1]
      /\ tries'[s] = tries[s] + 1 /\ \A t \in Servers : t # s => tries'[t] = tries[t]
  <2>1. tries[s] \in Nat /\ tries[s] <= MaxRetries /\ MaxRetries \in Nat
    BY <1>1, LoadingConstants DEF TriesAreLeft, LoadingTypeOK
  <2>2. tries[s] + 1 \in 0 .. MaxRetries + 1
    BY <2>1
  <2> QED BY <1>1, <2>1, <2>2 DEF LoadingTypeOK
<1>3. ASSUME NEW new \in {"awaiting_oauth", "failed"}, SetState({s}, new),
             loader' = [loader EXCEPT ![s] = "done"],
             new = "awaiting_oauth" => reason[s] = "oauth"
      PROVE  LoadingInv'
  <2>1. /\ state' \in [Servers -> LoadingStates]
        /\ \A t \in Servers : state'[t] = IF t = s THEN new ELSE state[t]
        /\ retryTimers' \in 0 .. MaxTimers
        /\ retryTimers' = 0 => retryTimers = 0
    BY <1>3, SetStateFacts DEF LoadingStates
  <2>2. /\ loader' \in [Servers -> {"waiting", "attempt", "rejected", "backoff", "done"}]
        /\ \A t \in Servers : loader'[t] = IF t = s THEN "done" ELSE loader[t]
    BY <1>3 DEF LoadingTypeOK
  <2>3. LoadingTypeOK' /\ TriesAreLeft'
    BY <1>1, <1>2, <2>1, <2>2 DEF LoadingTypeOK, TriesAreLeft
  <2>4. ShownIsSettled'
    BY <1>1, <1>3, <2>1, <2>2 DEF ShownIsSettled, Settled, RejectedByOAuth
  <2>5. RejectedByOAuth'
    BY <1>1, <2>1, <2>2 DEF RejectedByOAuth
  <2>6. EarlierAreDone'
    BY <1>1, <2>1, <2>2, EarlierKept
  <2> QED BY <2>3, <2>4, <2>5, <2>6
<1>4. ASSUME TriesAgain(s), loader' = [loader EXCEPT ![s] = "backoff"], KeepState,
             touched' = touched
      PROVE  LoadingInv'
  <2>1. /\ loader' \in [Servers -> {"waiting", "attempt", "rejected", "backoff", "done"}]
        /\ \A t \in Servers : loader'[t] = IF t = s THEN "backoff" ELSE loader[t]
        /\ UNCHANGED <<state, retryTimers>>
    BY <1>4 DEF LoadingTypeOK, KeepState
  <2>2. LoadingTypeOK' /\ TriesAreLeft'
    BY <1>1, <1>2, <1>4, <2>1 DEF LoadingTypeOK, TriesAreLeft, TriesAgain
  <2>3. ShownIsSettled'
    BY <1>1, <1>4, <2>1 DEF ShownIsSettled, Settled
  <2>4. RejectedByOAuth'
    BY <1>1, <2>1 DEF RejectedByOAuth
  <2>5. EarlierAreDone'
    BY <1>1, <2>1, EarlierKept
  <2> QED BY <2>2, <2>3, <2>4, <2>5
<1> QED BY <1>1, <1>3, <1>4 DEF HandleRejection

(* An attempt begins for servers that are not shown as settled and do not  *)
(* wait: after a backoff, or in the background.                            *)
LEMMA AgainInv ==
    ASSUME LoadingInv, MicrotasksDone, NEW S \in SUBSET Servers,
           SetState(S, "loading"), BeginAttempt(S), ~shuttingDown,
           UNCHANGED <<reason, outbound, touched, shuttingDown>>,
           InitialPhase => \A s \in S : loader[s] \notin {"waiting", "done"},
           tries' \in [Servers -> 0 .. MaxRetries + 1],
           \A s \in S : tries'[s] <= MaxRetries,
           \A s \in Servers \ S : tries'[s] = tries[s]
    PROVE  LoadingInv'
<1> USE DEF LoadingInv
<1>1. /\ state' \in [Servers -> LoadingStates]
      /\ \A t \in Servers : state'[t] = IF t \in S THEN "loading" ELSE state[t]
      /\ retryTimers' \in 0 .. MaxTimers
      /\ retryTimers' = 0 => retryTimers = 0
  BY SetStateFacts DEF LoadingStates
<1>2. /\ loader' \in [Servers -> {"waiting", "attempt", "rejected", "backoff", "done"}]
      /\ \A t \in Servers : loader'[t] = IF t \in S THEN "attempt" ELSE loader[t]
      /\ connection' \in [Servers -> {"none", "running", "aborted", "other"}]
      /\ \A t \in Servers \ S : connection'[t] = connection[t]
  BY DEF BeginAttempt, LoadingTypeOK
<1>3. LoadingTypeOK' /\ TriesAreLeft'
  BY <1>1, <1>2 DEF LoadingTypeOK, TriesAreLeft
<1>4. ShownIsSettled'
  BY <1>1, <1>2 DEF ShownIsSettled, Settled
<1>5. RejectedByOAuth'
  BY <1>1, <1>2 DEF RejectedByOAuth
<1>6. EarlierAreDone'
  BY <1>1, <1>2, EarlierKept
<1> QED BY <1>3, <1>4, <1>5, <1>6

(* A retry after a failed attempt begins one more connection               *)
(* (mcpLoadingManager.ts, loadServerWithRetry).                            *)
LEMMA RetryInv ==
    ASSUME LoadingInv, MicrotasksDone, NEW s \in Servers, Retry(s)
    PROVE  LoadingInv'
<1>1. /\ SetState({s}, "loading") /\ BeginAttempt({s}) /\ ~shuttingDown
      /\ UNCHANGED <<reason, outbound, touched, shuttingDown>> /\ tries' = tries
      /\ loader[s] = "backoff"
  BY DEF Retry
<1>2. tries[s] <= MaxRetries /\ tries \in [Servers -> 0 .. MaxRetries + 1]
  BY <1>1 DEF LoadingInv, TriesAreLeft, LoadingTypeOK
<1> QED BY <1>1, <1>2, AgainInv

(* The background retry, which begins again with the failed servers.       *)
LEMMA BackgroundInv ==
    ASSUME LoadingInv, MicrotasksDone, NEW S \in SUBSET Servers, BackgroundRetry(S)
    PROVE  LoadingInv'
<1>1. /\ SetState(S, "loading") /\ BeginAttempt(S) /\ ~shuttingDown /\ retryTimers > 0
      /\ UNCHANGED <<reason, outbound, touched, shuttingDown>>
      /\ tries' = [s \in Servers |-> IF s \in S THEN 0 ELSE tries[s]]
  BY DEF BackgroundRetry
<1>3. ~InitialPhase
  BY <1>1 DEF InitialPhase
<1>4. /\ tries' \in [Servers -> 0 .. MaxRetries + 1]
      /\ \A s \in S : tries'[s] <= MaxRetries
      /\ \A s \in Servers \ S : tries'[s] = tries[s]
  <2>1. 0 \in 0 .. MaxRetries + 1 /\ 0 <= MaxRetries
    BY LoadingConstants
  <2> QED BY <1>1, <2>1 DEF LoadingInv, LoadingTypeOK
<1> QED BY <1>1, <1>3, <1>4, AgainInv

(* A loader whose attempts failed says so; a connection may come later.    *)
LEMMA GiveUpInv ==
    ASSUME LoadingInv, MicrotasksDone, NEW s \in Servers, GiveUp(s)
    PROVE  LoadingInv'
<1> USE DEF LoadingInv
<1>1. /\ SetState({s}, "failed") /\ shuttingDown /\ loader[s] = "backoff"
      /\ UNCHANGED <<reason, tries, connection, outbound, touched, shuttingDown>>
  BY DEF GiveUp
<1>2. /\ state' \in [Servers -> LoadingStates]
      /\ \A t \in Servers : state'[t] = IF t = s THEN "failed" ELSE state[t]
      /\ retryTimers' \in 0 .. MaxTimers
      /\ retryTimers' = 0 => retryTimers = 0
  BY <1>1, SetStateFacts DEF LoadingStates
<1>3. /\ loader' \in [Servers -> {"waiting", "attempt", "rejected", "backoff", "done"}]
      /\ \A t \in Servers : loader'[t] = IF t = s THEN "done" ELSE loader[t]
  BY DEF GiveUp, LoadingTypeOK
<1>4. LoadingTypeOK' /\ TriesAreLeft'
  BY <1>1, <1>2, <1>3 DEF LoadingTypeOK, TriesAreLeft
<1>5. ShownIsSettled'
  BY <1>1, <1>2, <1>3 DEF ShownIsSettled, Settled
<1>6. RejectedByOAuth'
  BY <1>1, <1>2, <1>3 DEF RejectedByOAuth
<1>7. EarlierAreDone'
  BY <1>1, <1>2, <1>3, EarlierKept
<1> QED BY <1>4, <1>5, <1>6, <1>7

(* A shutdown ends loaders and leaves states as they are.                  *)
LEMMA ShutdownInv ==
    ASSUME LoadingInv, MicrotasksDone, Shutdown
    PROVE  LoadingInv'
<1> USE DEF LoadingInv
<1>1. /\ AbortAttempts(Attempting) /\ ~shuttingDown /\ shuttingDown' = TRUE
      /\ UNCHANGED <<tries, outbound, touched>>
  BY DEF Shutdown
<1>2. /\ state' \in [Servers -> LoadingStates]
      /\ \A t \in Servers :
            state'[t] = IF t \in Attempting \/ state[t] \in {"pending", "loading"}
                        THEN "cancelled" ELSE state[t]
  BY DEF Shutdown, LoadingTypeOK, LoadingStates
<1>3. retryTimers' \in 0 .. MaxTimers
  BY LoadingConstants DEF Shutdown, LoadingTypeOK
<1>4. /\ loader' \in [Servers -> {"waiting", "attempt", "rejected", "backoff", "done"}]
      /\ reason' \in [Servers -> {"error", "oauth"}]
      /\ connection' \in [Servers -> {"none", "running", "aborted", "other"}]
      /\ \A s \in Attempting :
            loader[s] = "attempt" /\ loader'[s] = "rejected" /\ reason'[s] = "error"
      /\ \A s \in Servers \ Attempting :
            loader'[s] = loader[s] /\ reason'[s] = reason[s] /\ connection'[s] = connection[s]
  BY <1>1, AbortFacts
<1>5. LoadingTypeOK' /\ TriesAreLeft'
  BY <1>1, <1>2, <1>3, <1>4 DEF LoadingTypeOK, TriesAreLeft
<1>6. ShownIsSettled'
  BY <1>1, <1>2, <1>4 DEF ShownIsSettled, Settled
<1>7. RejectedByOAuth'
  BY <1>1, <1>2, <1>4 DEF RejectedByOAuth
<1>9. EarlierAreDone'
  BY <1>1, <1>4, EarlierKept
<1> QED BY <1>5, <1>6, <1>7, <1>9

(* What others do to the connections and to what is shown.                 *)
LEMMA OthersInv ==
    ASSUME LoadingInv, MicrotasksDone, NEW s \in Servers,
           \/ \E status \in Statuses : Writes(s, status)
           \/ Begins(s)
           \/ OAuthCallback(s)
    PROVE  LoadingInv'
<1> USE DEF LoadingInv
<1>1. /\ UNCHANGED <<loader, reason, tries, shuttingDown>>
      /\ \A t \in Servers : loader[t] # "rejected"
  BY DEF Writes, Begins, OAuthCallback, loadVars, MicrotasksDone
<1>2. /\ connection' \in [Servers -> {"none", "running", "aborted", "other"}]
      /\ outbound' \in [Servers -> Statuses]
      /\ touched' \in SUBSET Servers
      /\ \A t \in Servers : connection'[t] = connection[t] \/ connection'[t] = "other"
      /\ \A t \in Servers \ {s} : outbound'[t] = outbound[t] /\ (t \in touched' <=> t \in touched)
  BY DEF Writes, Begins, OAuthCallback, LoadingTypeOK, Statuses
<1>3. /\ state' \in [Servers -> LoadingStates]
      /\ retryTimers' \in 0 .. MaxTimers
      /\ retryTimers' = 0 => retryTimers = 0
      /\ \A t \in Servers \ {s} : state'[t] = state[t]
      /\ s \in touched' \/ state'[s] = state[s] \/ state'[s] = "ready"
  <2>1. CASE OAuthCallback(s)
    <3>1. SetState({s}, "ready")
      BY <2>1 DEF OAuthCallback
    <3> QED BY <3>1, SetStateFacts DEF LoadingStates
  <2>2. CASE ~OAuthCallback(s)
    BY <2>2 DEF Writes, Begins, loadVars, LoadingTypeOK
  <2> QED BY <2>1, <2>2
<1>4. LoadingTypeOK' /\ TriesAreLeft' /\ RejectedByOAuth'
  BY <1>1, <1>2, <1>3 DEF LoadingTypeOK, TriesAreLeft, RejectedByOAuth
<1>5. ShownIsSettled'
  <2>1. ASSUME s \notin touched'
        PROVE  /\ state'[s] = "ready" => Settled(s)' /\ outbound'[s] = "connected"
               /\ state'[s] = "awaiting_oauth" => Settled(s)' /\ outbound'[s] = "awaiting_oauth"
    <3>1. ~\E status \in Statuses : Writes(s, status)
      BY <2>1 DEF Writes
    <3>2. CASE OAuthCallback(s)
      <4>1. /\ state'[s] = "ready" /\ outbound'[s] = "connected"
            /\ loader'[s] = "done" /\ connection'[s] \in {"none", "other"}
        BY <2>1, <3>2 DEF OAuthCallback, SetState, LoadingTypeOK
      <4> QED BY <4>1 DEF Settled
    <3>3. CASE Begins(s)
      <4>1. /\ UNCHANGED <<outbound, touched, state, loader>>
            /\ connection'[s] = "other"
        BY <3>3 DEF Begins, loadVars, LoadingTypeOK
      <4> QED BY <2>1, <4>1 DEF ShownIsSettled, Settled
    <3> QED BY <3>1, <3>2, <3>3
  <2>2. ASSUME NEW t \in Servers \ {s}, t \notin touched'
        PROVE  /\ state'[t] = "ready" => Settled(t)' /\ outbound'[t] = "connected"
               /\ state'[t] = "awaiting_oauth" => Settled(t)' /\ outbound'[t] = "awaiting_oauth"
    BY <1>1, <1>2, <1>3, <2>2 DEF ShownIsSettled, Settled
  <2> QED BY <2>1, <2>2 DEF ShownIsSettled
<1>6. EarlierAreDone'
  BY <1>1, <1>3, EarlierKept
<1> QED BY <1>4, <1>5, <1>6

(* Every step of loading keeps LoadingInv.                                 *)
LEMMA LoadingNextInv == LoadingInv /\ [Next]_vars => LoadingInv'
<1> SUFFICES ASSUME LoadingInv, [Next]_vars PROVE LoadingInv'
  OBVIOUS
<1>1. ASSUME NEW s \in Servers, HandleRejection(s) PROVE LoadingInv'
  BY <1>1, HandleInv
<1>2. CASE MicrotasksDone /\ Callback
  <2>1. ASSUME NEW s \in Servers, StartLoad(s) \/ SkipLoad(s) PROVE LoadingInv'
    BY <1>2, <2>1, ExecutorInv
  <2>2. ASSUME NEW s \in Servers,
               ConnectSucceeds(s) \/ \E why \in {"error", "oauth"} : ConnectFails(s, why)
        PROVE LoadingInv'
    BY <1>2, <2>2, ConnectInv
  <2>3. ASSUME NEW s \in Servers, Timeout(s) \/ CancelServerLoading(s) PROVE LoadingInv'
    BY <1>2, <2>3, AbortInv
  <2>4. ASSUME NEW s \in Servers, Retry(s) \/ GiveUp(s) PROVE LoadingInv'
    BY <1>2, <2>4, RetryInv, GiveUpInv
  <2>5. ASSUME NEW S \in SUBSET Servers, BackgroundRetry(S) PROVE LoadingInv'
    BY <1>2, <2>5, BackgroundInv
  <2>6. CASE Shutdown
    BY <1>2, <2>6, ShutdownInv
  <2>7. CASE Others
    BY <1>2, <2>7, OthersInv DEF Others
  <2> QED BY <1>2, <2>1, <2>2, <2>3, <2>4, <2>5, <2>6, <2>7 DEF Callback
<1>3. CASE UNCHANGED vars
  BY <1>3 DEF vars, LoadingInv, LoadingTypeOK, TriesAreLeft, ShownIsSettled, Settled,
              RejectedByOAuth, EarlierAreDone, InitialPhase
<1> QED BY <1>1, <1>2, <1>3 DEF Next

-----------------------------------------------------------------------------
(* A request goes on exactly when all that is relevant is available, or a  *)
(* part of it is and that is enough.                                       *)
LEMMA VerdictIsNext ==
    ASSUME NEW tags, NEW allowPartial \in BOOLEAN, NEW includeOAuth \in BOOLEAN
    PROVE  Verdict(tags, allowPartial, includeOAuth) = "next" <=>
              \/ AvailableServers(tags, includeOAuth) = RelevantServers(tags)
              \/ AvailableServers(tags, includeOAuth) # {} /\ allowPartial
BY DEF Verdict

(* Whoever is let through finds a server that is there.                    *)
LEMMA PassedAreServed == LoadingInv => PassedIsServed
<1> SUFFICES ASSUME LoadingInv, NEW tags \in SUBSET Tags,
                    NEW allowPartial \in BOOLEAN, NEW includeOAuth \in BOOLEAN,
                    RelevantServers(tags) # {},
                    Verdict(tags, allowPartial, includeOAuth) = "next",
                    ~(AvailableServers(tags, includeOAuth) \subseteq touched)
             PROVE  \E s \in RelevantServers(tags) :
                       \/ outbound[s] = "connected"
                       \/ includeOAuth /\ outbound[s] = "awaiting_oauth"
  BY DEF PassedIsServed
<1>2. PICK s \in AvailableServers(tags, includeOAuth) : s \notin touched
  OBVIOUS
<1>3. /\ s \in RelevantServers(tags) /\ s \in Servers
      /\ state[s] = "ready" \/ (includeOAuth /\ state[s] = "awaiting_oauth")
  BY <1>2 DEF AvailableServers, InStates, RelevantServers
<1> QED BY <1>2, <1>3 DEF LoadingInv, ShownIsSettled

(* What is shown ready stays so once its loader is done.                   *)
LEMMA ReadyStays ==
    ASSUME LoadingInv, [Next]_vars, NEW s \in Servers, state[s] = "ready", loader[s] = "done"
    PROVE  state'[s] = "ready"
<1>1. loader[s] = "done"
  OBVIOUS
<1>2. ASSUME NEW S, NEW new, s \notin S, SetState(S, new) PROVE state'[s] = "ready"
  BY <1>2 DEF SetState
<1>3. ASSUME NEW t \in Servers, HandleRejection(t) PROVE state'[s] = "ready"
  BY <1>1, <1>2, <1>3 DEF HandleRejection, KeepState
<1>4. ASSUME NEW t \in Servers, StartLoad(t) \/ SkipLoad(t) \/ Retry(t) \/ GiveUp(t)
      PROVE state'[s] = "ready"
  BY <1>1, <1>2, <1>4 DEF StartLoad, SkipLoad, Retry, GiveUp
<1>5. ASSUME NEW t \in Servers,
             ConnectSucceeds(t) \/ \E why \in {"error", "oauth"} : ConnectFails(t, why)
      PROVE state'[s] = "ready"
  BY <1>1, <1>2, <1>5 DEF ConnectSucceeds, ConnectFails, KeepState
<1>6. ASSUME NEW t \in Servers, Timeout(t) \/ CancelServerLoading(t)
      PROVE state'[s] = "ready"
  BY <1>1, <1>2, <1>6 DEF Timeout, CancelServerLoading, KeepState, Attempting
<1>7. ASSUME NEW S \in SUBSET Servers, BackgroundRetry(S) PROVE state'[s] = "ready"
  BY <1>2, <1>7 DEF BackgroundRetry
<1>8. CASE Shutdown
  BY <1>1, <1>8 DEF Shutdown, Attempting
<1>9. CASE UNCHANGED vars
  BY <1>9 DEF vars
<1>10. ASSUME NEW t \in Servers,
              (\E status \in Statuses : Writes(t, status)) \/ Begins(t) \/ OAuthCallback(t)
       PROVE  state'[s] = "ready"
  BY <1>10 DEF Writes, Begins, OAuthCallback, SetState, loadVars
<1> QED BY <1>3, <1>4, <1>5, <1>6, <1>7, <1>8, <1>9, <1>10 DEF Next, Callback, Others

(* So what is available only grows, if its loaders are done.               *)
LEMMA AdmittedStays ==
    ASSUME LoadingInv, [Next]_vars, NEW tags, NEW allowPartial \in BOOLEAN,
           Verdict(tags, allowPartial, FALSE) = "next",
           \A s \in AvailableServers(tags, FALSE) : loader[s] = "done"
    PROVE  Verdict(tags, allowPartial, FALSE)' = "next"
<1>1. RelevantServers(tags)' = RelevantServers(tags) /\ RelevantServers(tags) \subseteq Servers
  BY DEF RelevantServers
<1>2. AvailableServers(tags, FALSE) \subseteq AvailableServers(tags, FALSE)'
  BY <1>1, ReadyStays DEF AvailableServers, InStates
<1>3. AvailableServers(tags, FALSE)' \subseteq RelevantServers(tags)
  BY <1>1 DEF AvailableServers, InStates
<1>4. \/ AvailableServers(tags, FALSE)' = RelevantServers(tags)'
      \/ AvailableServers(tags, FALSE)' # {} /\ allowPartial
  <2>1. \/ AvailableServers(tags, FALSE) = RelevantServers(tags)
        \/ AvailableServers(tags, FALSE) # {} /\ allowPartial
    BY VerdictIsNext
  <2>2. CASE AvailableServers(tags, FALSE) = RelevantServers(tags)
    BY <1>1, <1>2, <1>3, <2>2
  <2>3. CASE AvailableServers(tags, FALSE) # {} /\ allowPartial
    BY <1>2, <2>3
  <2> QED BY <2>1, <2>2, <2>3
<1>5. Verdict(tags, allowPartial, FALSE)' = "next" <=>
              \/ AvailableServers(tags, FALSE)' = RelevantServers(tags)'
              \/ AvailableServers(tags, FALSE)' # {} /\ allowPartial
  BY DEF Verdict
<1> QED BY <1>4, <1>5

-----------------------------------------------------------------------------
(* In every behaviour the states, the loaders, the connections and the     *)
(* batches agree.                                                          *)
THEOREM LoadingInvariant == Spec => []LoadingInv
<1> QED BY LoadingInitInv, LoadingNextInv, PTL DEF Spec

(* What is shown ready is connected and who is let through is served, as   *)
(* far as others have not written the connections since, and no more       *)
(* servers are loaded at once than a batch has, for any servers, tags,     *)
(* batch size and number of retries.                                       *)
THEOREM StatusStaysTrue == Spec => []StatusIsTrue
<1>1. LoadingInv => ShownAsConnected
  BY DEF LoadingInv, ShownIsSettled, ShownAsConnected
<1>2. LoadingInv => StatusIsTrue
  BY <1>1, PassedAreServed, InitialIsBounded DEF StatusIsTrue
<1> QED BY <1>2, LoadingInvariant, PTL

(* No request that was let pass once is refused later, when the loaders of *)
(* the servers it counts on are done.                                      *)
THEOREM AdmittedStayAdmitted == Spec => AdmittedStaysAdmitted
<1>1. LoadingInv /\ [Next]_vars
        => [\A tags \in SUBSET Tags, allowPartial \in BOOLEAN :
              Verdict(tags, allowPartial, FALSE) = "next"
              /\ (\A s \in AvailableServers(tags, FALSE) : loader[s] = "done")
                 => Verdict(tags, allowPartial, FALSE)' = "next"]_vars
  BY AdmittedStays
<1> QED BY <1>1, LoadingInvariant, PTL DEF Spec, AdmittedStaysAdmitted

-----------------------------------------------------------------------------
(* The restartable stdio transport: one process at a time, restarts that   *)
(* are counted, one timer at most.                                         *)

ProcessStates == {"none", "spawning", "unspawned", "running", "stopping", "gone"}
CallerStates ==
    {"waiting", "starting", "initializing", "connected", "lost", "closing", "closed", "failed"}

(* What the transport's state is made of; there is one timer at most.      *)
RestartTypeOK ==
    /\ child \in [1..MaxChildren -> ProcessStates]
    /\ made \in 0..MaxChildren
    /\ current \in 0..made
    /\ own \in 0..made
    /\ starting \in BOOLEAN /\ closing \in BOOLEAN /\ handle \in BOOLEAN
    /\ restarts \in 0..MaxRestarts
    /\ timers \in {0, 1}
    /\ closers \subseteq 1..made
    /\ caller \in CallerStates
    /\ attempt \in Nat
    /\ sinceStart \in Nat

(* Until it is closed a transport has one process, the latest, and all that*)
(* came before it have ended.                                              *)
OneProcess ==
    ~closing =>
        /\ current = made /\ closers = {}
        /\ \A i \in 1..made : i # current => child[i] = "gone"
        /\ made > 0 =>
              /\ child[current] \in {"spawning", "unspawned", "running", "gone"}
              /\ starting <=> child[current] = "spawning"

(* The handle is that of the one timer, and each process since start() but *)
(* the first is one of the restarts that were counted.                     *)
RestartsCounted ==
    /\ handle <=> timers = 1
    /\ sinceStart + timers <= 1 + restarts

RestartInv ==
    /\ RestartTypeOK
    /\ OneProcess
    /\ RestartsCounted
    /\ closing => timers = 0
    /\ OldHasEnded
    /\ AliveOrRestarting

(* RestartInv holds of a transport that has not been started.              *)
LEMMA RestartInitInv == RestartInit => RestartInv
<1> SUFFICES ASSUME RestartInit PROVE RestartInv
  OBVIOUS
<1> USE RestartConstants DEF RestartInit
<1>1. RestartTypeOK
  <2>1. child \in [1..MaxChildren -> ProcessStates]
    BY DEF ProcessStates
  <2>2. 0 \in 0..MaxChildren /\ 0 \in 0..0 /\ 0 \in 0..MaxRestarts
    OBVIOUS
  <2>3. QED
    BY <2>1, <2>2 DEF RestartTypeOK, CallerStates
<1>2. OneProcess /\ RestartsCounted
  BY DEF OneProcess, RestartsCounted
<1>3. OldHasEnded /\ AliveOrRestarting
  BY DEF OldHasEnded, AliveOrRestarting
<1>4. QED
  BY <1>1, <1>2, <1>3 DEF RestartInv

(* A closed transport has no timer, and the rest says nothing of it.       *)
LEMMA ClosedInv ==
    ASSUME RestartTypeOK', RestartsCounted', closing' = TRUE, timers' = 0
    PROVE  RestartInv'
BY DEF RestartInv, OneProcess, OldHasEnded, AliveOrRestarting

(* What close() does, called once or, by a restart that is under way,      *)
(* twice: no timer is left, and what the process is now is no more than    *)
(* ended.                                                                  *)
LEMMA CloseFacts ==
    ASSUME RestartInv, NEW times \in 1..2, Close(times)
    PROVE  /\ closing' = TRUE /\ timers' = 0 /\ handle' = FALSE
           /\ child' \in [1..MaxChildren -> ProcessStates]
           /\ current' \in 0..made
           /\ closers' \subseteq 1..made
<1>1. closing' = TRUE /\ timers' = 0 /\ handle' = FALSE
  BY DEF Close, ClearTimer, RestartInv, RestartTypeOK, RestartsCounted
<1>2. /\ made \in Nat /\ made <= MaxChildren /\ current \in 0..made /\ 0 \in 0..made
      /\ child \in [1..MaxChildren -> ProcessStates] /\ closers \subseteq 1..made
  BY RestartConstants DEF RestartInv, RestartTypeOK
<1>3. CASE current # 0 /\ HasProcess(current)
  <2>1. current \in 1..made /\ current \in 1..MaxChildren
    BY <1>2, <1>3, RestartConstants
  <2>2. /\ child' = [child EXCEPT ![current] = "stopping"]
        /\ closers' = closers \cup {current}
        /\ current' \in {0, current}
    BY <1>3 DEF Close
  <2>3. "stopping" \in ProcessStates
    BY DEF ProcessStates
  <2>4. QED
    BY <1>1, <1>2, <2>1, <2>2, <2>3
<1>4. CASE ~(current # 0 /\ HasProcess(current))
  <2>1. current' = 0 /\ UNCHANGED <<child, closers>>
    BY <1>4 DEF Close
  <2>2. QED
    BY <1>1, <1>2, <2>1
<1>5. QED
  BY <1>3, <1>4

(* Every step of the transport, its processes and its caller keeps         *)
(* RestartInv.                                                             *)
LEMMA RestartNextInv == RestartInv /\ [RestartNext]_restartVars => RestartInv'
<1> SUFFICES ASSUME RestartInv, [RestartNext]_restartVars
             PROVE  RestartInv'
  OBVIOUS
<1>0. /\ RestartTypeOK /\ OneProcess /\ RestartsCounted /\ (closing => timers = 0)
      /\ OldHasEnded /\ AliveOrRestarting
      /\ MaxRestarts \in Nat /\ MaxChildren \in Nat
      /\ made \in Nat /\ made <= MaxChildren
  BY RestartConstants DEF RestartInv, RestartTypeOK
<1>1. CASE Start
  <2>1. timers = 0 /\ handle = FALSE
    BY <1>0, <1>1 DEF Start, OldHasEnded, RestartTypeOK, RestartsCounted
  <2>2. /\ made < MaxChildren /\ current = 0
        /\ made' = made + 1 /\ current' = made + 1 /\ own' = made + 1
        /\ child' = [child EXCEPT ![made + 1] = "spawning"]
        /\ starting' = TRUE /\ restarts' = 0 /\ sinceStart' = 1 /\ attempt' = attempt + 1
        /\ caller' = "starting"
        /\ UNCHANGED <<closing, timers, handle, closers>>
    BY <1>1 DEF Start, Create
  <2>3. RestartTypeOK'
    BY <1>0, <2>2 DEF RestartTypeOK, ProcessStates, CallerStates
  <2>4. OneProcess' /\ AliveOrRestarting'
    BY <1>0, <2>2 DEF RestartTypeOK, OneProcess, AliveOrRestarting, HasProcess
  <2>5. RestartsCounted' /\ OldHasEnded' /\ (closing' => timers' = 0)
    BY <2>1, <2>2 DEF RestartsCounted, OldHasEnded
  <2>6. QED
    BY <2>3, <2>4, <2>5 DEF RestartInv
<1>2. ASSUME Initialized
      PROVE  RestartInv'
  BY <1>0, <1>2
     DEF Initialized, RestartInv, RestartTypeOK, CallerStates, OneProcess, RestartsCounted,
         OldHasEnded, AliveOrRestarting, HasProcess
<1>3. ASSUME InitializeFails \/ CloseByUser
      PROVE  RestartInv'
  <2>1. /\ \E times \in 1..2 : Close(times)
        /\ caller' \in CallerStates
        /\ UNCHANGED <<made, starting, restarts, attempt, own, sinceStart>>
    BY <1>3 DEF InitializeFails, CloseByUser, CallerStates
  <2>2. /\ closing' = TRUE /\ timers' = 0 /\ handle' = FALSE
        /\ child' \in [1..MaxChildren -> ProcessStates]
        /\ current' \in 0..made
        /\ closers' \subseteq 1..made
    BY <2>1, CloseFacts
  <2>3. RestartTypeOK'
    BY <1>0, <2>1, <2>2 DEF RestartTypeOK, Close
  <2>4. RestartsCounted'
    BY <1>0, <2>1, <2>2 DEF RestartsCounted, RestartTypeOK
  <2>5. QED
    BY <2>2, <2>3, <2>4, ClosedInv
<1>4. CASE RestartTransport
  <2>1. /\ timers = 1 /\ timers' = 0 /\ handle' = FALSE
        /\ ~closing /\ current # 0 /\ child[current] = "gone" /\ ~starting
        /\ made > 0 /\ current = made
    BY <1>0, <1>4 DEF RestartTransport, RestartTypeOK, OldHasEnded, OneProcess
  <2>2. /\ made < MaxChildren
        /\ made' = made + 1 /\ current' = made + 1
        /\ child' = [child EXCEPT ![made + 1] = "spawning"]
        /\ starting' = TRUE /\ sinceStart' = sinceStart + 1
        /\ UNCHANGED <<closing, restarts, closers, caller, attempt, own>>
    BY <1>4, <2>1 DEF RestartTransport, Create
  <2>3. RestartTypeOK'
    <3>1. child' \in [1..MaxChildren -> ProcessStates]
      BY <1>0, <2>2 DEF RestartTypeOK, ProcessStates
    <3>2. /\ made' \in 0..MaxChildren /\ current' \in 0..made' /\ own' \in 0..made'
          /\ closers' \subseteq 1..made' /\ sinceStart' \in Nat
      BY <1>0, <2>2 DEF RestartTypeOK
    <3>3. timers' \in {0, 1} /\ starting' \in BOOLEAN /\ handle' \in BOOLEAN
      BY <2>1, <2>2
    <3>4. QED
      BY <1>0, <2>2, <3>1, <3>2, <3>3 DEF RestartTypeOK
  <2>4. OneProcess' /\ AliveOrRestarting'
    BY <1>0, <2>1, <2>2 DEF RestartTypeOK, OneProcess, AliveOrRestarting, HasProcess
  <2>5. RestartsCounted' /\ OldHasEnded' /\ (closing' => timers' = 0)
    BY <1>0, <2>1, <2>2 DEF RestartTypeOK, RestartsCounted, OldHasEnded
  <2>6. QED
    BY <2>3, <2>4, <2>5 DEF RestartInv
<1>5. ASSUME NEW i \in 1..made, Spawned(i)
      PROVE  RestartInv'
  <2>1. /\ child[i] = "spawning" /\ i \in 1..MaxChildren
        /\ child' = [child EXCEPT ![i] = "running"]
        /\ starting' = FALSE
        /\ UNCHANGED <<made, current, closing, restarts, timers, handle, closers, attempt, own,
                       sinceStart>>
        /\ caller' \in CallerStates
    BY <1>0, <1>5 DEF Spawned, RestartTypeOK, CallerStates
  <2>2. RestartTypeOK'
    BY <1>0, <2>1 DEF RestartTypeOK, ProcessStates
  <2>3. OneProcess' /\ AliveOrRestarting'
    BY <1>0, <2>1 DEF RestartTypeOK, OneProcess, AliveOrRestarting, HasProcess
  <2>4. RestartsCounted' /\ OldHasEnded' /\ (closing' => timers' = 0)
    BY <1>0, <2>1 DEF RestartTypeOK, RestartsCounted, OldHasEnded
  <2>5. QED
    BY <2>2, <2>3, <2>4 DEF RestartInv
<1>6. ASSUME NEW i \in 1..made, SpawnFails(i)
      PROVE  RestartInv'
  <2>1. /\ child[i] = "spawning" /\ i \in 1..MaxChildren
        /\ starting' = FALSE
        /\ UNCHANGED <<made, restarts, attempt, own, sinceStart>>
        /\ caller' \in CallerStates
    BY <1>0, <1>6 DEF SpawnFails, RestartTypeOK, CallerStates
  <2>2. CASE Close(1)
    <3>1. /\ closing' = TRUE /\ timers' = 0 /\ handle' = FALSE
          /\ child' \in [1..MaxChildren -> ProcessStates]
          /\ current' \in 0..made
          /\ closers' \subseteq 1..made
      BY <2>2, CloseFacts
    <3>2. RestartTypeOK'
      BY <1>0, <2>1, <2>2, <3>1 DEF RestartTypeOK, Close
    <3>3. RestartsCounted'
      BY <1>0, <2>1, <3>1 DEF RestartsCounted, RestartTypeOK
    <3>4. QED
      BY <3>1, <3>2, <3>3, ClosedInv
  <2>3. CASE /\ child' = [child EXCEPT ![i] = "unspawned"]
             /\ UNCHANGED <<closing, timers, handle, closers, current>>
    <3>1. RestartTypeOK'
      BY <1>0, <2>1, <2>3 DEF RestartTypeOK, ProcessStates
    <3>2. OneProcess' /\ AliveOrRestarting'
      BY <1>0, <2>1, <2>3 DEF RestartTypeOK, OneProcess, AliveOrRestarting, HasProcess
    <3>3. RestartsCounted' /\ OldHasEnded' /\ (closing' => timers' = 0)
      BY <1>0, <2>1, <2>3 DEF RestartTypeOK, RestartsCounted, OldHasEnded
    <3>4. QED
      BY <3>1, <3>2, <3>3 DEF RestartInv
  <2>4. QED
    BY <1>6, <2>2, <2>3 DEF SpawnFails
<1>7. ASSUME NEW i \in 1..made, Exits(i)
      PROVE  RestartInv'
  <2>1. /\ child[i] \in {"unspawned", "running", "stopping"} /\ i \in 1..MaxChildren
        /\ child' = [child EXCEPT ![i] = "gone"]
        /\ closers' = closers \ {i}
        /\ current' = IF i \in closers THEN 0 ELSE current
        /\ caller' \in CallerStates
        /\ UNCHANGED <<made, starting, closing, attempt, own, sinceStart>>
    BY <1>0, <1>7 DEF Exits, RestartTypeOK, CallerStates, Told
  <2>2. CASE closing
    <3>1. UNCHANGED <<restarts, timers, handle>>
      BY <1>7, <2>2 DEF Exits, HandleTransportClose
    <3>2. RestartTypeOK'
      BY <1>0, <2>1, <3>1 DEF RestartTypeOK, ProcessStates
    <3>3. closing' = TRUE /\ timers' = 0 /\ RestartsCounted'
      BY <1>0, <2>1, <2>2, <3>1 DEF RestartTypeOK, RestartsCounted
    <3>4. QED
      BY <3>2, <3>3, ClosedInv
  <2>3. CASE ~closing
    <3>1. i = current /\ current' = current /\ timers = 0 /\ handle = FALSE /\ ~starting
      BY <1>0, <2>1, <2>3 DEF OneProcess, OldHasEnded, RestartTypeOK, RestartsCounted
    <3>2. \/ /\ restarts = MaxRestarts
             /\ UNCHANGED <<restarts, timers, handle>>
          \/ /\ restarts < MaxRestarts
             /\ restarts' = restarts + 1 /\ timers' = 1 /\ handle' = TRUE
      BY <1>0, <1>7, <2>3, <3>1 DEF Exits, HandleTransportClose, AttemptRestart, RestartTypeOK
    <3>3. RestartTypeOK'
      <4>1. child' \in [1..MaxChildren -> ProcessStates]
        BY <1>0, <2>1 DEF RestartTypeOK, ProcessStates
      <4>2. /\ closers' \subseteq 1..made' /\ current' \in 0..made'
            /\ restarts' \in 0..MaxRestarts
        BY <1>0, <2>1, <3>1, <3>2 DEF RestartTypeOK
      <4>3. timers' \in {0, 1} /\ handle' \in BOOLEAN
        BY <3>1, <3>2
      <4>4. QED
        BY <1>0, <2>1, <4>1, <4>2, <4>3 DEF RestartTypeOK
    <3>4. OneProcess'
      BY <1>0, <2>1, <2>3, <3>1 DEF RestartTypeOK, OneProcess
    <3>5. RestartsCounted' /\ OldHasEnded' /\ AliveOrRestarting' /\ (closing' => timers' = 0)
      BY <1>0, <2>1, <2>3, <3>1, <3>2
         DEF RestartTypeOK, RestartsCounted, OldHasEnded, AliveOrRestarting
    <3>6. QED
      BY <3>3, <3>4, <3>5 DEF RestartInv
  <2>4. QED
    BY <2>2, <2>3
<1>8. CASE UNCHANGED restartVars
  BY <1>0, <1>8
     DEF restartVars, RestartInv, RestartTypeOK, OneProcess, RestartsCounted, OldHasEnded,
         AliveOrRestarting, HasProcess
<1>9. QED
  BY <1>1, <1>2, <1>3, <1>4, <1>5, <1>6, <1>7, <1>8 DEF RestartNext

(* RestartInv holds of a transport and its caller at all times.            *)
THEOREM RestartInvariant == RestartSpec => []RestartInv
BY RestartInitInv, RestartNextInv, PTL DEF RestartSpec

(* For any limit on restarts: unless it is closed or has given up, a       *)
(* started transport has a process or a timer that makes one; a process is *)
(* made when those before it have ended; and between two starts there are  *)
(* no more than the configuration allows                                   *)
(* (restartableStdioTransport.ts:109-133, 211-228).                        *)
THEOREM RestartsStaySound == RestartSpec => []RestartsAreSound
<1>1. RestartInv => RestartsAreSound
  BY RestartConstants
     DEF RestartInv, RestartsAreSound, RestartsBounded, RestartTypeOK, RestartsCounted
<1>2. QED
  BY <1>1, RestartInvariant, PTL

-----------------------------------------------------------------------------
(* The proxy: the context of a session is that of the proxy.               *)

Contexts == [project : BOOLEAN, variables : SUBSET EnvNames, client : BOOLEAN]
ProxysContext == [context EXCEPT !.client = client]

Introduced == \E n \in 1 .. MaxMessages : sent[n] \in {"initialize", "bare"}
Pinged == \E n \in 1 .. MaxMessages : sent[n] = "ping"

(* The context a message or a session has: once the client introduced      *)
(* itself, that of the proxy with what the proxy knows of the client.      *)
IsProxys(c) ==
    \/ c = NoContext_ /\ Pinged
    \/ c = ProxysContext /\ Introduced

ForwardingTypeOK ==
    /\ context \in Contexts /\ client \in BOOLEAN
    /\ sent \in [1 .. MaxMessages -> Kinds \cup {"unsent"}]
    /\ posted \subseteq [number : 1 .. MaxMessages, meta : Contexts]
    /\ session \in [state : {"none", "blank", "ready"}, context : Contexts]
    /\ answered \subseteq 1 .. MaxMessages

(* Nothing is on its way before the proxy has its context.                 *)
StartedFirst ==
    /\ bridge = "new" =>
          /\ \A n \in 1 .. MaxMessages : sent[n] = "unsent"
          /\ posted = {} /\ session.state = "none" /\ stored = NoSession
    /\ bridge # "new" => context.project

(* The client sends its messages in order, calls after it introduced       *)
(* itself; so its name cannot become known after the first context.        *)
InOrder ==
    /\ \A n \in 1 .. MaxMessages : \A m \in 1 .. n - 1 : sent[n] # "unsent" => sent[m] # "unsent"
    /\ \A n \in 1 .. MaxMessages : sent[n] = "call" => Introduced

ContextsAreProxys ==
    /\ \A m \in posted : IsProxys(m.meta)
    /\ session.state # "none" => IsProxys(session.context)
    /\ stored # NoSession => stored \in Contexts /\ IsProxys(stored)

ForwardingInv == ForwardingTypeOK /\ StartedFirst /\ InOrder /\ ContextsAreProxys

(* ForwardingInv holds before the bridge is started.                       *)
LEMMA ForwardingInitInv == ProxyInit => ForwardingInv
<1> SUFFICES ASSUME ProxyInit PROVE ForwardingInv
  OBVIOUS
<1>1. ForwardingTypeOK
  BY DEF ProxyInit, ForwardingTypeOK, Contexts, NoContext_, Kinds
<1>2. StartedFirst /\ InOrder /\ ContextsAreProxys
  BY DEF ProxyInit, StartedFirst, InOrder, ContextsAreProxys
<1>3. QED
  BY <1>1, <1>2 DEF ForwardingInv

(* Starting the bridge sets the context, and nothing is on its way yet.    *)
LEMMA StartBridgeInv == ForwardingInv /\ StartBridge => ForwardingInv'
<1> SUFFICES ASSUME ForwardingInv, StartBridge PROVE ForwardingInv'
  OBVIOUS
<1>1. /\ bridge = "new" /\ bridge' = "open"
      /\ \E valued \in SUBSET EnvNames, configured \in BOOLEAN :
            context' = Detected(valued, configured)
      /\ UNCHANGED <<client, sent, posted, session, stored, answered>>
  BY DEF StartBridge
<1>2. context' \in Contexts /\ context'.project
  BY <1>1, ProxyConstants DEF Detected, Contexts
<1>3. ForwardingTypeOK'
  BY <1>1, <1>2 DEF ForwardingInv, ForwardingTypeOK
<1>4. StartedFirst' /\ InOrder' /\ ContextsAreProxys'
  BY <1>1, <1>2
     DEF ForwardingInv, StartedFirst, InOrder, Introduced, ContextsAreProxys
<1>5. QED
  BY <1>3, <1>4 DEF ForwardingInv

(* A message of the client is posted with the context the proxy then has.  *)
LEMMA ReadInv ==
    ASSUME ForwardingInv, NEW n \in 1 .. MaxMessages, NEW kind \in Kinds, Read(n, kind)
    PROVE  ForwardingInv'
<1>a. client \in BOOLEAN
  BY DEF ForwardingInv, ForwardingTypeOK
<1>b. PICK named \in BOOLEAN : named = (client \/ kind = "initialize")
  BY <1>a
<1>c. PICK m : m = [number |-> n, meta |-> AddContextMeta(kind, named)]
  OBVIOUS
<1>1. /\ bridge = "open" /\ sent[n] = "unsent"
      /\ kind \in {"initialize", "bare"} =>
            \A k \in 1 .. n - 1 : sent[k] \notin {"initialize", "bare"}
      /\ kind = "call" => \E k \in answered : sent[k] \in {"initialize", "bare"}
      /\ sent' = [sent EXCEPT ![n] = kind]
      /\ client' = named
      /\ posted' = posted \cup {m}
      /\ UNCHANGED <<context, bridge, session, stored, answered>>
  BY <1>b, <1>c DEF Read
<1>2. /\ context \in Contexts
      /\ sent \in [1 .. MaxMessages -> Kinds \cup {"unsent"}]
      /\ answered \subseteq 1 .. MaxMessages
  BY DEF ForwardingInv, ForwardingTypeOK
<1>3. /\ sent'[n] = kind /\ kind # "unsent"
      /\ \A k \in (1 .. MaxMessages) \ {n} : sent'[k] = sent[k]
  BY <1>1, <1>2 DEF Kinds
<1>4. /\ Introduced => Introduced'
      /\ Pinged => Pinged'
      /\ kind \in {"initialize", "bare"} => Introduced'
      /\ kind = "ping" => Pinged'
      /\ kind = "call" => Introduced
  BY <1>1, <1>2, <1>3 DEF Introduced, Pinged
<1>5. kind = "initialize" => ~Introduced
  <2> SUFFICES ASSUME kind = "initialize", Introduced PROVE FALSE
    OBVIOUS
  <2>1. PICK k \in 1 .. MaxMessages : sent[k] \in {"initialize", "bare"}
    BY DEF Introduced
  <2>2. k \notin 1 .. n - 1 /\ k # n
    BY <1>1, <2>1
  <2>3. n \in 1 .. k - 1
    BY <2>2
  <2>4. QED
    BY <1>1, <2>1, <2>3 DEF ForwardingInv, InOrder
<1>6. kind # "initialize" => client' = client
  BY <1>a, <1>b, <1>1
<1>7. \A c : IsProxys(c) => IsProxys(c)'
  BY <1>1, <1>4, <1>5, <1>6 DEF IsProxys, ProxysContext
<1>8. m.meta \in Contexts /\ IsProxys(m.meta)'
  <2>1. CASE kind = "ping"
    BY <1>c, <1>4, <2>1 DEF AddContextMeta, HasParams, IsProxys, NoContext_, Contexts
  <2>2. CASE kind # "ping"
    <3>1. m.meta = [context EXCEPT !.client = named] /\ Introduced'
      BY <1>c, <1>4, <2>2 DEF AddContextMeta, HasParams, Kinds
    <3>2. [context EXCEPT !.client = named] \in Contexts
      BY <1>2 DEF Contexts
    <3>3. QED
      BY <1>1, <3>1, <3>2 DEF IsProxys, ProxysContext
  <2>3. QED
    BY <2>1, <2>2
<1>9. ForwardingTypeOK'
  BY <1>c, <1>1, <1>2, <1>8 DEF ForwardingInv, ForwardingTypeOK
<1>10. StartedFirst'
  BY <1>1 DEF ForwardingInv, StartedFirst
<1>11. InOrder'
  <2>1. \A k \in 1 .. MaxMessages : \A j \in 1 .. k - 1 :
            sent'[k] # "unsent" => sent'[j] # "unsent"
    BY <1>1, <1>3 DEF ForwardingInv, InOrder, Read
  <2>2. \A k \in 1 .. MaxMessages : sent'[k] = "call" => Introduced'
    BY <1>3, <1>4 DEF ForwardingInv, InOrder
  <2>3. QED
    BY <2>1, <2>2 DEF InOrder
<1>12. ContextsAreProxys'
  BY <1>1, <1>7, <1>8 DEF ForwardingInv, ContextsAreProxys
<1>13. QED
  BY <1>9, <1>10, <1>11, <1>12 DEF ForwardingInv

(* The server takes a message and, if it is the first of its session, its  *)
(* context with it; the session may be written.                            *)
LEMMA HandleMessageInv ==
    ASSUME ForwardingInv, NEW m \in posted, NEW written \in BOOLEAN, Handle(m, written)
    PROVE  ForwardingInv'
<1> DEFINE s == SessionFor(m)
<1>1. /\ posted' = posted \ {m}
      /\ session' = s \/ session' = [s EXCEPT !.state = "ready"]
      /\ stored' = stored \/ (session.state = "none" /\ stored = NoSession /\ stored' = s.context)
      /\ answered' \subseteq answered \cup {m.number}
      /\ UNCHANGED <<context, client, bridge, sent>>
  BY DEF Handle
<1>2. /\ m.number \in 1 .. MaxMessages /\ m.meta \in Contexts /\ IsProxys(m.meta)
      /\ bridge # "new" /\ context \in Contexts /\ context.project
      /\ session \in [state : {"none", "blank", "ready"}, context : Contexts]
  BY DEF ForwardingInv, ForwardingTypeOK, StartedFirst, ContextsAreProxys
<1>3. Extracted(m) \in Contexts /\ IsProxys(Extracted(m))
  BY <1>2 DEF Extracted, IsProxys, NoContext_, Contexts, ProxysContext
<1>4. /\ s \in [state : {"blank", "ready"}, context : Contexts]
      /\ IsProxys(s.context)
  <2>1. CASE session.state # "none"
    BY <1>2, <2>1 DEF SessionFor, ForwardingInv, ContextsAreProxys
  <2>2. CASE session.state = "none" /\ stored # NoSession
    BY <2>2 DEF SessionFor, Restored, ForwardingInv, ContextsAreProxys
  <2>3. CASE session.state = "none" /\ stored = NoSession
    BY <1>3, <2>3 DEF SessionFor
  <2>4. QED
    BY <2>1, <2>2, <2>3
<1> HIDE DEF s
<1>5. /\ session' \in [state : {"blank", "ready"}, context : Contexts]
      /\ session'.context = s.context
  BY <1>1, <1>4
<1>6. \A c : IsProxys(c)' <=> IsProxys(c)
  BY <1>1 DEF IsProxys, ProxysContext, Introduced, Pinged
<1>7. ForwardingTypeOK'
  BY <1>1, <1>2, <1>5 DEF ForwardingInv, ForwardingTypeOK
<1>8. StartedFirst' /\ InOrder'
  BY <1>1, <1>2 DEF ForwardingInv, StartedFirst, InOrder, Introduced
<1>9. ContextsAreProxys'
  BY <1>1, <1>4, <1>5, <1>6 DEF ForwardingInv, ContextsAreProxys
<1>10. QED
  BY <1>7, <1>8, <1>9 DEF ForwardingInv

(* A post that is lost, a session that vanishes and a proxy that closes    *)
(* only take away.                                                         *)
LEMMA MishapInv ==
    ASSUME ForwardingInv,
           \/ CloseBridge
           \/ \E m \in posted : Lost(m)
           \/ \E expired \in BOOLEAN : Vanish(expired)
    PROVE  ForwardingInv'
<1>1. /\ posted' \subseteq posted
      /\ session' = session \/ session' = [state |-> "none", context |-> NoContext_]
      /\ stored' = stored \/ stored' = NoSession
      /\ bridge = "new" => UNCHANGED <<posted, session, stored>>
      /\ (bridge' = "new") <=> (bridge = "new")
      /\ UNCHANGED <<context, client, sent, answered>>
  BY DEF CloseBridge, Lost, Vanish, ForwardingInv, StartedFirst
<1>2. \A c : IsProxys(c)' <=> IsProxys(c)
  BY <1>1 DEF IsProxys, ProxysContext, Introduced, Pinged
<1>3. ForwardingTypeOK'
  <2>1. NoContext_ \in Contexts
    BY DEF NoContext_, Contexts
  <2>2. QED
    BY <1>1, <2>1 DEF ForwardingInv, ForwardingTypeOK
<1>4. StartedFirst' /\ InOrder'
  BY <1>1 DEF ForwardingInv, StartedFirst, InOrder, Introduced
<1>5. ContextsAreProxys'
  BY <1>1, <1>2 DEF ForwardingInv, ContextsAreProxys
<1>6. QED
  BY <1>3, <1>4, <1>5 DEF ForwardingInv

(* Every step of the proxy, the client and the server keeps ForwardingInv. *)
LEMMA ForwardingNextInv == ForwardingInv /\ [ProxyNext]_proxyVars => ForwardingInv'
<1> SUFFICES ASSUME ForwardingInv, [ProxyNext]_proxyVars PROVE ForwardingInv'
  OBVIOUS
<1>1. CASE StartBridge
  BY <1>1, StartBridgeInv
<1>2. ASSUME NEW n \in 1 .. MaxMessages, NEW kind \in Kinds, Read(n, kind)
      PROVE  ForwardingInv'
  BY <1>2, ReadInv
<1>3. ASSUME NEW m \in posted, NEW written \in BOOLEAN, Handle(m, written)
      PROVE  ForwardingInv'
  BY <1>3, HandleMessageInv
<1>4. ASSUME \/ CloseBridge
             \/ \E m \in posted : Lost(m)
             \/ \E expired \in BOOLEAN : Vanish(expired)
      PROVE  ForwardingInv'
  BY <1>4, MishapInv
<1>5. CASE UNCHANGED proxyVars
  BY <1>5
     DEF proxyVars, ForwardingInv, ForwardingTypeOK, StartedFirst, InOrder, ContextsAreProxys,
         IsProxys, ProxysContext, Introduced, Pinged
<1>6. QED
  BY <1>1, <1>2, <1>3, <1>4, <1>5 DEF ProxyNext

(* ForwardingInv holds at all times.                                       *)
THEOREM ForwardingInvariant == ProxySpec => []ForwardingInv
BY ForwardingInitInv, ForwardingNextInv, PTL DEF ProxySpec

(* Whatever message made it, and however often it was restored, a session  *)
(* has the context of its proxy (stdioProxyTransport.ts:338-369).          *)
THEOREM ContextStaysProxys == ProxySpec => []ContextIsProxys
<1>1. ForwardingInv => ContextIsProxys
  BY DEF ForwardingInv, ContextsAreProxys, IsProxys, ProxysContext, Pinged, ContextIsProxys
<1>2. QED
  BY <1>1, ForwardingInvariant, PTL

-----------------------------------------------------------------------------
(* The authorization server: an app's tokens are what its user consented   *)
(* to. What makes that inductive is that consent is final: the request of  *)
(* a code that an app knows is closed, and a code that was exchanged is    *)
(* gone.                                                                   *)

(* What the files and the histories are made of: requests are of apps,     *)
(* codes of requests, tokens of codes.                                     *)
IssuerTypeOK ==
    /\ files \subseteq Apps \cup Requests \cup Codes \cup Tokens
    /\ stale \subseteq Apps \cup Requests \cup Codes \cup Tokens
    /\ DOMAIN owner \subseteq Requests /\ \A q \in DOMAIN owner : owner[q] \in Apps
    /\ DOMAIN origin \subseteq Codes /\ \A k \in DOMAIN origin : origin[k] \in DOMAIN owner
    /\ DOMAIN grantOf \subseteq Tokens
    /\ known \subseteq DOMAIN origin
    /\ denied \subseteq DOMAIN owner
    /\ exchanging \in [Handlers -> Codes \cup {NoCode}]

(* An app knows at most one code of a request, and the request is closed.  *)
KnownIsFinal ==
    /\ \A k \in known : origin[k] \notin files
    /\ \A j, k \in known : origin[j] = origin[k] => j = k

(* A code is exchanged by an app that knows it, and once.                  *)
GrantIsFinal ==
    /\ \A h \in Handlers : exchanging[h] # NoCode => exchanging[h] \in known
    /\ \A t \in DOMAIN grantOf : grantOf[t] \in known /\ grantOf[t] \notin files
    /\ \A s, t \in DOMAIN grantOf : grantOf[s] = grantOf[t] => s = t

(* A denied request is closed, and no app knows a code of it.              *)
DenialIsFinal ==
    \A q \in denied : q \notin files /\ \A k \in known : origin[k] # q

IssuerInv ==
    /\ IssuerTypeOK
    /\ KnownIsFinal
    /\ GrantIsFinal
    /\ DenialIsFinal

(* IssuerInv holds before any app is registered.                           *)
LEMMA IssuerInitInv == IssuerInit => IssuerInv
BY DEF IssuerInit, IssuerInv, IssuerTypeOK, KnownIsFinal, GrantIsFinal, DenialIsFinal

(* No file comes back, and no one learns of anything: the steps that only  *)
(* take files away keep the invariant.                                     *)
LEMMA FilesGoInv ==
    ASSUME IssuerInv, files' \subseteq files \cup Apps,
           stale' \subseteq Apps \cup Requests \cup Codes \cup Tokens,
           UNCHANGED <<owner, origin, grantOf, known>>,
           denied' = denied,
           \/ exchanging' = exchanging
           \/ \E h \in Handlers : exchanging' = [exchanging EXCEPT ![h] = NoCode]
           \/ exchanging' = [h \in Handlers |-> NoCode]
    PROVE  IssuerInv'
<1>1. /\ exchanging' \in [Handlers -> Codes \cup {NoCode}]
      /\ \A h \in Handlers : exchanging'[h] # NoCode => exchanging'[h] = exchanging[h]
  BY DEF IssuerInv, IssuerTypeOK
<1>2. IssuerTypeOK'
  BY <1>1 DEF IssuerInv, IssuerTypeOK
<1>3. \A x \in Requests \cup Codes : x \notin files => x \notin files'
  BY IssuerConstants
<1>4. KnownIsFinal' /\ GrantIsFinal' /\ DenialIsFinal'
  BY <1>1, <1>3 DEF IssuerInv, IssuerTypeOK, KnownIsFinal, GrantIsFinal, DenialIsFinal
<1>5. QED
  BY <1>2, <1>4 DEF IssuerInv

(* A new request of an app: no code is of it yet.                          *)
LEMMA AuthorizeInv ==
    ASSUME IssuerInv, NEW a \in Apps, NEW q \in Requests, Authorize(a, q)
    PROVE  IssuerInv'
<1>1. /\ q \notin DOMAIN owner
      /\ files' = files \cup {q}
      /\ owner' = With(owner, q, a)
      /\ UNCHANGED <<stale, origin, grantOf, known, denied, exchanging>>
  BY DEF Authorize, FreshRequest
<1>2. /\ DOMAIN owner' = DOMAIN owner \cup {q}
      /\ owner'[q] = a
      /\ \A p \in DOMAIN owner : owner'[p] = owner[p]
  BY <1>1 DEF With
<1>3. IssuerTypeOK'
  BY <1>1, <1>2 DEF IssuerInv, IssuerTypeOK
<1>4. KnownIsFinal' /\ GrantIsFinal' /\ DenialIsFinal'
  BY <1>1, IssuerConstants
     DEF IssuerInv, IssuerTypeOK, KnownIsFinal, GrantIsFinal, DenialIsFinal
<1>5. QED
  BY <1>3, <1>4 DEF IssuerInv

(* A code is written for an open request; the app learns of it when the    *)
(* request is deleted, and does not when the process dies before that.     *)
LEMMA WriteCodeInv ==
    ASSUME IssuerInv, NEW q \in Requests, NEW k \in Codes, WriteCode(q, k),
           UNCHANGED <<stale, owner, grantOf, denied>>,
           \/ /\ files' = (files \cup {k}) \ {q}
              /\ known' = known \cup {k}
              /\ UNCHANGED exchanging
           \/ /\ files' = files \cup {k}
              /\ UNCHANGED known
              /\ exchanging' = [h \in Handlers |-> NoCode]
    PROVE  IssuerInv'
<1>1. /\ k \notin DOMAIN origin
      /\ q \in DOMAIN owner /\ q \in files
      /\ DOMAIN origin' = DOMAIN origin \cup {k}
      /\ origin'[k] = q
      /\ \A x \in DOMAIN origin : origin'[x] = origin[x]
  BY DEF WriteCode, FreshCode, Consentable, Readable, With
<1>2. k # q /\ k \notin known /\ q \notin denied /\ \A x \in known : origin[x] # q
  BY <1>1, IssuerConstants DEF IssuerInv, IssuerTypeOK, KnownIsFinal, DenialIsFinal
<1>3. IssuerTypeOK'
  BY <1>1 DEF IssuerInv, IssuerTypeOK
<1>4. KnownIsFinal'
  BY <1>1, <1>2, IssuerConstants DEF IssuerInv, IssuerTypeOK, KnownIsFinal
<1>5. GrantIsFinal'
  BY <1>1, <1>2, IssuerConstants DEF IssuerInv, IssuerTypeOK, GrantIsFinal
<1>6. DenialIsFinal'
  BY <1>1, <1>2, IssuerConstants DEF IssuerInv, IssuerTypeOK, DenialIsFinal
<1>7. QED
  BY <1>3, <1>4, <1>5, <1>6 DEF IssuerInv

(* A denial closes the request; no app can get a code of it any more.      *)
LEMMA DenyInv ==
    ASSUME IssuerInv, NEW q \in Requests, Deny(q)
    PROVE  IssuerInv'
<1>1. /\ q \in DOMAIN owner /\ q \in files
      /\ files' = files \ {q}
      /\ denied' = denied \cup {q}
      /\ UNCHANGED <<stale, owner, origin, grantOf, known, exchanging>>
  BY DEF Deny, Consentable, Readable
<1>2. IssuerTypeOK'
  BY <1>1 DEF IssuerInv, IssuerTypeOK
<1>3. KnownIsFinal' /\ GrantIsFinal' /\ DenialIsFinal'
  BY <1>1 DEF IssuerInv, KnownIsFinal, GrantIsFinal, DenialIsFinal
<1>4. QED
  BY <1>2, <1>3 DEF IssuerInv

(* A token request begins with a code that its app knows.                  *)
LEMMA ChallengeInv ==
    ASSUME IssuerInv, NEW h \in Handlers, NEW k \in Codes, Challenge(h, k)
    PROVE  IssuerInv'
<1>1. /\ k \in known
      /\ exchanging' = [exchanging EXCEPT ![h] = k]
      /\ UNCHANGED <<files, stale, owner, origin, grantOf, known, denied>>
  BY DEF Challenge
<1>2. QED
  BY <1>1 DEF IssuerInv, IssuerTypeOK, KnownIsFinal, GrantIsFinal, DenialIsFinal

(* The code is there when it is exchanged, so that no token has come of it.*)
LEMMA ExchangeInv ==
    ASSUME IssuerInv, NEW h \in Handlers, NEW t \in Tokens, Exchange(h, t)
    PROVE  IssuerInv'
<1> DEFINE k == exchanging[h]
<1>1. /\ k # NoCode /\ k \in files
      /\ t \notin DOMAIN grantOf
      /\ files' = (files \ {k}) \cup {t}
      /\ exchanging' = [exchanging EXCEPT ![h] = NoCode]
      /\ UNCHANGED <<stale, owner, origin, known, denied>>
  BY DEF Exchange, DeleteCode, Readable, FreshToken
<1>2. /\ DOMAIN grantOf' = DOMAIN grantOf \cup {t}
      /\ grantOf'[t] = k
      /\ \A s \in DOMAIN grantOf : grantOf'[s] = grantOf[s]
  BY <1>1 DEF Exchange, With
<1>3. k \in known /\ k \in Codes /\ \A s \in DOMAIN grantOf : grantOf[s] # k
  BY <1>1 DEF IssuerInv, IssuerTypeOK, GrantIsFinal
<1>4. IssuerTypeOK'
  BY <1>1, <1>2 DEF IssuerInv, IssuerTypeOK
<1>5. KnownIsFinal' /\ DenialIsFinal'
  BY <1>1, IssuerConstants DEF IssuerInv, IssuerTypeOK, KnownIsFinal, DenialIsFinal
<1>6. GrantIsFinal'
  BY <1>1, <1>2, <1>3, IssuerConstants DEF IssuerInv, IssuerTypeOK, GrantIsFinal
<1>7. QED
  BY <1>4, <1>5, <1>6 DEF IssuerInv

(* Every step of apps, users, handlers and the process keeps IssuerInv.    *)
LEMMA IssuerNextInv == IssuerInv /\ [IssuerNext]_issuerVars => IssuerInv'
<1> SUFFICES ASSUME IssuerInv, [IssuerNext]_issuerVars
             PROVE  IssuerInv'
  OBVIOUS
<1>0. stale \subseteq Apps \cup Requests \cup Codes \cup Tokens
  BY DEF IssuerInv, IssuerTypeOK
<1>1. ASSUME NEW a \in Apps, Register(a)
      PROVE  IssuerInv'
  BY <1>0, <1>1, FilesGoInv DEF Register
<1>2. ASSUME NEW a \in Apps, NEW q \in Requests, Authorize(a, q)
      PROVE  IssuerInv'
  BY <1>2, AuthorizeInv
<1>3. ASSUME NEW q \in Requests, Unanswerable(q)
      PROVE  IssuerInv'
  <2>1. files' \subseteq files /\ stale' \subseteq stale
    BY <1>3 DEF Unanswerable, Dropped
  <2>2. QED
    BY <1>0, <1>3, <2>1, FilesGoInv DEF Unanswerable
<1>4. ASSUME NEW q \in Requests, Deny(q)
      PROVE  IssuerInv'
  BY <1>4, DenyInv
<1>5. ASSUME NEW q \in Requests, NEW k \in Codes, Approve(q, k)
      PROVE  IssuerInv'
  BY <1>5, WriteCodeInv DEF Approve
<1>6. ASSUME NEW h \in Handlers, NEW k \in Codes, Challenge(h, k)
      PROVE  IssuerInv'
  BY <1>6, ChallengeInv
<1>7. ASSUME NEW h \in Handlers, NEW t \in Tokens, Exchange(h, t)
      PROVE  IssuerInv'
  BY <1>7, ExchangeInv
<1>8. ASSUME NEW h \in Handlers, RefuseExchange(h)
      PROVE  IssuerInv'
  <2>1. files' \subseteq files /\ stale' \subseteq stale
    BY <1>8 DEF RefuseExchange, Dropped
  <2>2. QED
    BY <1>0, <1>8, <2>1, FilesGoInv DEF RefuseExchange
<1>9. ASSUME NEW t \in Tokens, DropToken(t)
      PROVE  IssuerInv'
  BY <1>0, <1>9, FilesGoInv DEF DropToken
<1>10. ASSUME NEW id \in Apps \cup Requests \cup Codes \cup Tokens, Expire(id)
       PROVE  IssuerInv'
  BY <1>0, <1>10, FilesGoInv DEF Expire
<1>11. CASE CleanUp
  BY <1>0, <1>11, FilesGoInv DEF CleanUp
<1>12. CASE Kill
  <2>1. /\ exchanging' = [h \in Handlers |-> NoCode]
        /\ UNCHANGED <<stale, owner, grantOf, known, denied>>
    BY <1>12 DEF Kill
  <2>2. CASE files' \subseteq files /\ UNCHANGED origin
    BY <1>0, <2>1, <2>2, FilesGoInv
  <2>3. ASSUME NEW q \in Requests, NEW k \in Codes, WriteCode(q, k), files' = files \cup {k}
        PROVE  IssuerInv'
    BY <2>1, <2>3, WriteCodeInv
  <2>4. QED
    BY <1>12, <2>2, <2>3 DEF Kill
<1>13. CASE UNCHANGED issuerVars
  BY <1>0, <1>13, FilesGoInv DEF issuerVars
<1>14. QED
  BY <1>1, <1>2, <1>3, <1>4, <1>5, <1>6, <1>7, <1>8, <1>9, <1>10, <1>11, <1>12, <1>13
     DEF IssuerNext

(* IssuerInv holds at all times, through crashes and expired files.        *)
THEOREM IssuerInvariant == IssuerSpec => []IssuerInv
BY IssuerInitInv, IssuerNextInv, PTL DEF IssuerSpec

(* For any apps, requests, codes and handlers: there is at most one token  *)
(* of a consent, and none of a request that was denied, whatever handlers  *)
(* overlap and wherever the process is killed.                             *)
THEOREM ConsentStaysKept == IssuerSpec => []ConsentIsKept
<1>1. IssuerInv => OneTokenPerConsent
  <2> SUFFICES ASSUME IssuerInv, NEW q \in Requests
               PROVE  Cardinality(TokensOf(q)) <= 1
    BY DEF OneTokenPerConsent
  <2>1. \A s, t \in TokensOf(q) : s = t
    BY DEF TokensOf, IssuerInv, GrantIsFinal, KnownIsFinal
  <2>2. TokensOf(q) = {} \/ \E t : TokensOf(q) = {t}
    BY <2>1
  <2>3. CASE TokensOf(q) = {}
    BY <2>3, FS_EmptySet
  <2>4. ASSUME NEW t, TokensOf(q) = {t}
        PROVE  Cardinality(TokensOf(q)) <= 1
    <3>1. Cardinality({t}) = 1
      BY FS_Singleton
    <3>2. QED
      BY <2>4, <3>1
  <2>5. QED
    BY <2>2, <2>3, <2>4
<1>2. IssuerInv => DeniedGetsNothing
  BY DEF IssuerInv, GrantIsFinal, DenialIsFinal, DeniedGetsNothing, TokensOf
<1>3. QED
  BY <1>1, <1>2, IssuerInvariant, PTL DEF ConsentIsKept

-----------------------------------------------------------------------------
(***************************************************************************)
(* The connection to a server that wants OAuth.  The verifier is that of   *)
(* the flow begun last, whoever began it: a visit that had the server to   *)
(* itself therefore has the verifier of its own flow, and what it was      *)
(* granted is good until somebody takes it back.                           *)
(***************************************************************************)

(* The verifier is that of the flow begun last.                            *)
ProviderFits(p, n) ==
    /\ p \in [tokens : {p.tokens}, verifier : {p.verifier}, url : {p.url}]
    /\ n \in Nat /\ p.verifier = n

(* What a request of the dashboard is doing says which handler it is in.   *)
VisitIsSound(k) ==
    /\ k \in [at : {k.at}, op : {k.op}, old : {k.old}, new : {k.new}, grant : {k.grant}, flow : {k.flow}]
    /\ k.at = "connecting" => k.op # "callback"
    /\ k.at \in {"exchanging", "reconnecting"} => k.op = "callback"

(* The provider's URL, if it has one, is that of the same flow.            *)
UpstreamInv ==
    /\ ProviderFits(provider, flows)
    /\ provider.url \in {None, flows}
    /\ visit = [v \in Actors |-> visit[v]]
    /\ \A v \in Actors : VisitIsSound(visit[v])
    /\ \A v \in alone \cap Actors : visit[v].at = "reconnecting" => visit[v].grant \in good

(* What the library and the handlers do to the provider.                   *)
LEMMA ProviderFacts ==
    ASSUME ProviderFits(provider, flows)
    PROVE  /\ ProviderFits(BeginFlow(provider), flows + 1)
           /\ BeginFlow(provider).url = flows + 1
           /\ ProviderFits(InvalidateTokens(BeginFlow(provider)), flows + 1)
           /\ InvalidateTokens(BeginFlow(provider)).url = flows + 1
           /\ ProviderFits(InvalidateTokens(provider), flows)
           /\ InvalidateTokens(provider).tokens = None
           /\ InvalidateTokens(provider).url = provider.url
           /\ \A f : /\ ProviderFits([provider EXCEPT !.tokens = f], flows)
                    /\ [provider EXCEPT !.tokens = f].tokens = f
                    /\ [provider EXCEPT !.tokens = f].url = provider.url
           /\ ProviderFits([provider EXCEPT !.url = None], flows)
           /\ [provider EXCEPT !.url = None].url = None
<1>1. ASSUME NEW p, NEW n, ProviderFits(p, n), NEW f
      PROVE  /\ ProviderFits([p EXCEPT !.tokens = f], n) /\ [p EXCEPT !.tokens = f].tokens = f
             /\ [p EXCEPT !.tokens = f].url = p.url
             /\ ProviderFits([p EXCEPT !.url = f], n) /\ [p EXCEPT !.url = f].url = f
  BY <1>1 DEF ProviderFits
<1>2. PICK p : p = BeginFlow(provider)
  OBVIOUS
<1>3. ProviderFits(p, flows + 1) /\ p.url = flows + 1
  <2>1. p = [provider EXCEPT !.verifier = flows + 1, !.url = flows + 1]
    BY <1>2 DEF BeginFlow
  <2>2. p.verifier = flows + 1 /\ p.url = flows + 1 /\ p.tokens = provider.tokens
    BY <2>1 DEF ProviderFits
  <2>3. p \in [tokens : {provider.tokens}, verifier : {flows + 1}, url : {flows + 1}]
    BY <2>1 DEF ProviderFits
  <2>4. QED
    BY <2>2, <2>3 DEF ProviderFits
<1>4. ProviderFits([p EXCEPT !.tokens = None], flows + 1) /\ [p EXCEPT !.tokens = None].url = flows + 1
  BY <1>1, <1>3
<1>5. InvalidateTokens(BeginFlow(provider)) = [p EXCEPT !.tokens = None]
  BY <1>2 DEF InvalidateTokens
<1>6. /\ ProviderFits(InvalidateTokens(provider), flows)
      /\ InvalidateTokens(provider).tokens = None
      /\ InvalidateTokens(provider).url = provider.url
  BY <1>1 DEF InvalidateTokens
<1>7. \A f : /\ ProviderFits([provider EXCEPT !.tokens = f], flows)
             /\ [provider EXCEPT !.tokens = f].tokens = f
             /\ [provider EXCEPT !.tokens = f].url = provider.url
  BY <1>1
<1>8. ProviderFits([provider EXCEPT !.url = None], flows) /\ [provider EXCEPT !.url = None].url = None
  BY <1>1
<1>9. QED
  BY <1>2, <1>3, <1>4, <1>5, <1>6, <1>7, <1>8, Zenon

(* No flow is begun and no visit is anywhere at first. *)
LEMMA UpstreamInitInv == UpstreamInit => UpstreamInv
<1> SUFFICES ASSUME UpstreamInit PROVE UpstreamInv
  OBVIOUS
<1>1. VisitIsSound(Idle)
  BY DEF VisitIsSound, Idle
<1>2. QED
  BY <1>1 DEF UpstreamInit, UpstreamInv, ProviderFits, None

(* What a visit can do in a step: nothing, begin, go on or be over.        *)
LEMMA VisitsInv ==
    ASSUME UpstreamInv, ProviderFits(provider', flows'), provider'.url \in {None, flows'},
           visit' = [v \in Actors |-> visit'[v]],
           \A v \in Actors : visit'[v] = visit[v] \/ VisitIsSound(visit'[v]),
           \A v \in alone' \cap Actors : visit'[v].at = "reconnecting" => visit'[v].grant \in good'
    PROVE  UpstreamInv'
<1>1. \A v \in Actors : VisitIsSound(visit'[v])
  BY DEF UpstreamInv
<1>2. \A v \in Actors : VisitIsSound(visit[v])'
  BY <1>1 DEF VisitIsSound
<1>3. QED
  BY <1>2 DEF UpstreamInv

(* What the two properties say of a step. *)
StepHeals ==
    \A v \in Visits \cap alone \cap alone' :
        (visit[v].at = "connecting" /\ ~Busy(v)') => (Served \/ LinkFits)' \/ GrantIsGone
StepConnects ==
    \A v \in Visits \cap alone \cap alone' :
        (visit[v].op = "callback" /\ visit[v].flow = flows /\ Busy(v) /\ ~Busy(v)')
            => (Served' /\ visit'[v].at = "ok")
Kept == UpstreamInv' /\ StepHeals /\ StepConnects

(* A request that begins is answered by none, and nobody else is alone. *)
LEMMA ArrivesInv ==
    ASSUME UpstreamInv, NEW v \in Actors, Arrives(v), NEW k,
           visit' = [visit EXCEPT ![v] = k], VisitIsSound(k), k.at # "reconnecting",
           UNCHANGED <<flows, provider, good>>
    PROVE  Kept
<1>1. /\ visit' = [w \in Actors |-> visit'[w]]
      /\ \A w \in Actors : visit'[w] = IF w = v THEN k ELSE visit[w]
  BY DEF UpstreamInv
<1>2. alone' \subseteq {v} /\ ~Busy(v)
  BY DEF Arrives
<1>3. UpstreamInv'
  <2>1. \A w \in alone' \cap Actors : visit'[w].at # "reconnecting"
    BY <1>1, <1>2
  <2>2. QED
    BY <1>1, <2>1, VisitsInv DEF UpstreamInv
<1>4. StepHeals /\ StepConnects
  BY <1>2 DEF Busy, StepHeals, StepConnects
<1>5. QED
  BY <1>3, <1>4 DEF Kept

(* A handler that begins something other than a callback.                  *)
LEMMA AttemptBeginsInv ==
    ASSUME UpstreamInv, NEW v \in Actors, NEW op, op # "callback", Arrives(v),
           visit' = [visit EXCEPT ![v] = Beginning(op)], UNCHANGED <<flows, provider, good>>
    PROVE  Kept
<1>1. VisitIsSound(Beginning(op)) /\ Beginning(op).at # "reconnecting"
  BY DEF VisitIsSound, Beginning, Idle
<1>2. QED
  BY <1>1, ArrivesInv

(* A step in which nobody is alone any more promises nothing.              *)
LEMMA NobodyAloneInv ==
    ASSUME UpstreamInv, alone' = {}, ProviderFits(provider', flows'), provider'.url \in {None, flows'},
           visit' = [v \in Actors |-> visit'[v]],
           \A v \in Actors : visit'[v] = visit[v] \/ VisitIsSound(visit'[v])
    PROVE  Kept
  BY VisitsInv DEF Kept, StepHeals, StepConnects

(* Answered visits rely on nothing.                                        *)
LEMMA AnswerFacts ==
    ASSUME NEW vs, NEW how \in {"ok", "failed"}, Answer(vs, how)
    PROVE  /\ visit' = [v \in Actors |-> visit'[v]]
           /\ \A v \in Actors \ vs : visit'[v] = visit[v]
           /\ \A v \in Actors \cap vs : visit'[v].at = how /\ VisitIsSound(visit'[v])
  BY DEF Answer, VisitIsSound, Idle

(* A step that ends the visits that wait for a connection.                 *)
LEMMA JoinedInv ==
    ASSUME UpstreamInv, Answer(Joined, "ok"), (Served \/ LinkFits)' \/ GrantIsGone,
           UNCHANGED <<alone, good>>, ProviderFits(provider', flows'), provider'.url \in {None, flows'}
    PROVE  Kept
<1>1. /\ visit' = [v \in Actors |-> visit'[v]]
      /\ \A v \in Actors \ Joined : visit'[v] = visit[v]
      /\ \A v \in Actors \cap Joined : visit'[v].at = "ok" /\ VisitIsSound(visit'[v])
  BY AnswerFacts
<1>2. UpstreamInv'
  BY <1>1, VisitsInv DEF UpstreamInv
<1>3. ASSUME NEW v \in Actors, visit[v].op = "callback"
      PROVE  visit'[v] = visit[v]
  BY <1>1, <1>3 DEF UpstreamInv, VisitIsSound, Joined
<1>4. StepHeals /\ StepConnects
  BY <1>3 DEF StepHeals, StepConnects, Busy, Actors
<1>5. QED
  BY <1>2, <1>4 DEF Kept

(* A step that changes no visit but v's, and brings v on or to a server    *)
(* that is connected; or v was not alone.                                  *)
LEMMA GoesOnInv ==
    ASSUME UpstreamInv, NEW v \in Actors, alone' = alone,
           ProviderFits(provider', flows'), provider'.url \in {None, flows'},
           visit' = [w \in Actors |-> visit'[w]],
           \A w \in Actors \ {v} : visit'[w] = visit[w],
           visit[v].at # "connecting", VisitIsSound(visit'[v]),
           good \subseteq good',
           v \in alone /\ visit'[v].at = "reconnecting" => visit'[v].grant \in good',
           \/ v \notin alone
           \/ Busy(v)'
           \/ visit[v].flow # flows
           \/ Served' /\ visit'[v].at = "ok"
    PROVE  Kept
<1>1. UpstreamInv'
  BY VisitsInv DEF UpstreamInv
<1>2. StepHeals /\ StepConnects
  BY DEF StepHeals, StepConnects, Busy, Actors
<1>3. QED
  BY <1>1, <1>2 DEF Kept

(* The steps of the connection that visits join.                           *)
LEMMA ConnectingInv ==
    ASSUME UpstreamInv, Load \/ Connected \/ Unauthorized \/ TryFails
    PROVE  Kept
<1>1. CASE Load
  <2>1. Loader \in Actors /\ UNCHANGED <<flows, provider, good>>
    BY <1>1 DEF Load, Actors, Keeps, worldVars
  <2>2. QED
    BY <1>1, <2>1, AttemptBeginsInv DEF Load
<1>2. CASE Connected
  <2>1. Served' /\ UNCHANGED <<flows, provider, good, alone>>
    BY <1>2 DEF Connected, Served, Keeps, worldVars
  <2>2. QED
    BY <1>2, <2>1, JoinedInv DEF Connected, UpstreamInv
<1>3. CASE Unauthorized
  <2>1. /\ ProviderFits(provider', flows') /\ provider'.url \in {None, flows'}
        /\ \/ provider'.url = flows' /\ flows' = flows + 1
           \/ provider.tokens # None /\ provider'.tokens = None /\ UNCHANGED flows
    BY <1>3, ProviderFacts DEF Unauthorized, Rejects, UpstreamInv
  <2>2. /\ UNCHANGED <<good, alone>>
        /\ entry'.status = "awaitingOAuth" /\ entry'.url = provider'.url
    BY <1>3 DEF Unauthorized, worldVars
  <2>3. LinkFits' \/ GrantIsGone
    BY <2>1, <2>2 DEF LinkFits, GrantIsGone, UpstreamInv, ProviderFits, None
  <2>4. QED
    BY <1>3, <2>1, <2>2, <2>3, JoinedInv DEF Unauthorized
<1>4. CASE TryFails
  <2>1. /\ alone' = {} /\ UNCHANGED <<flows, provider>>
        /\ Answer(Joined, "failed") \/ UNCHANGED visit
    BY <1>4 DEF TryFails, Keeps
  <2>2. /\ visit' = [w \in Actors |-> visit'[w]]
        /\ \A w \in Actors : visit'[w] = visit[w] \/ VisitIsSound(visit'[w])
    BY <2>1, AnswerFacts DEF UpstreamInv
  <2>3. QED
    BY <2>1, <2>2, NobodyAloneInv DEF UpstreamInv
<1>5. QED
  BY <1>1, <1>2, <1>3, <1>4

(* The requests of the dashboard.                                          *)
LEMMA HandlersInv ==
    ASSUME UpstreamInv, NEW v \in Visits,
           \/ AuthorizeHandler(v) \/ RestartHandler(v)
           \/ \E f \in consented : CallbackHandler(v, f)
    PROVE  Kept
<1>1. v \in Actors
  BY DEF Actors
<1>2. CASE AuthorizeHandler(v)
  <2>1. visit' = [visit EXCEPT ![v] = Beginning("authorize")] /\ UNCHANGED <<flows, provider, good>>
    BY <1>2 DEF AuthorizeHandler, InitiateOAuth, Keeps, worldVars
  <2>2. QED
    BY <1>1, <1>2, <2>1, AttemptBeginsInv DEF AuthorizeHandler
<1>3. CASE RestartHandler(v)
  <2>1. visit' = [visit EXCEPT ![v] = Beginning("restart")] /\ UNCHANGED <<flows, provider, good>>
    BY <1>3 DEF RestartHandler, InitiateOAuth, Keeps, worldVars
  <2>2. QED
    BY <1>1, <1>3, <2>1, AttemptBeginsInv DEF RestartHandler
<1>4. ASSUME NEW f \in consented, CallbackHandler(v, f)
      PROVE  Kept
  <2>1. UNCHANGED <<flows, provider, good>> /\ Arrives(v)
    BY <1>4 DEF CallbackHandler, Keeps
  <2>2. PICK k : /\ visit' = [visit EXCEPT ![v] = k]
                 /\ k = IF entry = Absent THEN [Idle EXCEPT !.at = "failed", !.op = "callback", !.flow = f]
                        ELSE [Idle EXCEPT !.at = "exchanging", !.op = "callback", !.flow = f,
                                          !.old = entry.transport, !.new = Fresh]
    BY <1>4 DEF CallbackHandler
  <2>3. VisitIsSound(k) /\ k.at # "reconnecting"
    BY <2>2 DEF VisitIsSound, Idle
  <2>4. QED
    BY <1>1, <2>1, <2>2, <2>3, ArrivesInv
<1>5. QED
  BY <1>2, <1>3, <1>4

(* A callback goes on: its code is exchanged, unless the verifier is that  *)
(* of another flow, and the grant connects.                                *)
LEMMA CallbacksInv ==
    ASSUME UpstreamInv, NEW v \in Visits,
           Exchanged(v) \/ Refused(v) \/ Reconnected(v) \/ NotReconnected(v)
    PROVE  Kept
<1>1. v \in Actors
  BY DEF Actors
<1>2. CASE Exchanged(v)
  <2>1. /\ visit' = [visit EXCEPT ![v].at = "reconnecting", ![v].old = None, ![v].grant = provider'.tokens]
        /\ ProviderFits(provider', flows') /\ provider'.tokens = visit[v].flow
        /\ provider'.url \in {None, flows'}
        /\ good' = good \cup {visit[v].flow} /\ UNCHANGED <<flows, alone>>
        /\ visit[v].at = "exchanging"
    BY <1>2, ProviderFacts DEF Exchanged, UpstreamInv
  <2>2. /\ visit' = [w \in Actors |-> visit'[w]]
        /\ \A w \in Actors \ {v} : visit'[w] = visit[w]
        /\ visit'[v].at = "reconnecting" /\ visit'[v].op = visit[v].op
        /\ visit'[v].grant = visit[v].flow
    BY <1>1, <2>1 DEF UpstreamInv, VisitIsSound
  <2>3. VisitIsSound(visit'[v]) /\ Busy(v)'
    BY <1>1, <2>1, <2>2 DEF UpstreamInv, VisitIsSound, Busy
  <2>4. alone' = alone /\ good \subseteq good' /\ visit'[v].grant \in good' /\ ProviderFits(provider', flows')
        /\ provider'.url \in {None, flows'}
    BY <2>1, <2>2
  <2>5. visit[v].at # "connecting"
    BY <2>1
  <2>6. QED
    BY <1>1, <2>2, <2>3, <2>4, <2>5, GoesOnInv, Zenon
<1>3. ASSUME NEW how \in {"ok", "failed"}, Answer({v}, how)
      PROVE  /\ visit' = [w \in Actors |-> visit'[w]]
             /\ \A w \in Actors \ {v} : visit'[w] = visit[w]
             /\ visit'[v].at = how /\ VisitIsSound(visit'[v])
  BY <1>1, <1>3, AnswerFacts
<1>4. CASE Refused(v)
  <2>1. /\ visit[v].at = "exchanging" /\ UNCHANGED <<flows, provider, good>>
        /\ \/ provider.verifier # visit[v].flow /\ alone' = alone
           \/ alone' = {}
        /\ Answer({v}, "failed")
    BY <1>4 DEF Refused, Keeps
  <2>2. CASE alone' = {}
    BY <1>1, <1>3, <2>1, <2>2, NobodyAloneInv DEF UpstreamInv
  <2>3. CASE provider.verifier # visit[v].flow /\ alone' = alone
    <3>1. /\ ProviderFits(provider', flows') /\ visit[v].flow # flows /\ provider'.url \in {None, flows'}
          /\ visit[v].at # "connecting" /\ good \subseteq good' /\ alone' = alone
      BY <2>1, <2>3 DEF UpstreamInv, ProviderFits
    <3>2. visit'[v].at # "reconnecting"
      BY <1>3, <2>1
    <3>3. QED
      BY <1>1, <1>3, <2>1, <3>1, <3>2, GoesOnInv
  <2>4. QED
    BY <2>1, <2>2, <2>3
<1>5. CASE Reconnected(v)
  <2>1. /\ visit[v].at = "reconnecting" /\ UNCHANGED <<flows, provider, good, alone>>
        /\ Answer({v}, "ok") /\ Served'
    BY <1>5 DEF Reconnected, Keeps, worldVars, Served
  <2>2. QED
    BY <1>1, <1>3, <2>1, GoesOnInv DEF UpstreamInv
<1>6. CASE NotReconnected(v)
  <2>1. /\ visit[v].at = "reconnecting" /\ good' = good
        /\ Answer({v}, "failed")
        /\ \/ /\ visit[v].grant \notin good /\ alone' = alone
           \/ alone' = {}
        /\ ProviderFits(provider', flows') /\ provider'.url \in {None, flows'}
    BY <1>6, ProviderFacts DEF NotReconnected, Keeps, UpstreamInv
  <2>3. CASE alone' = {}
    BY <1>1, <1>3, <2>1, <2>3, NobodyAloneInv
  <2>4. CASE visit[v].grant \notin good /\ alone' = alone
    <3>1. v \notin alone
      BY <1>1, <2>1, <2>4 DEF UpstreamInv
    <3>2. QED
      BY <1>1, <1>3, <2>1, <2>4, <3>1, GoesOnInv
  <2>5. QED
    BY <2>1, <2>3, <2>4
<1>7. QED
  BY <1>2, <1>4, <1>5, <1>6

(* The rest of the world. *)
LEMMA WorldInv ==
    ASSUME UpstreamInv,
           \/ \E f \in 1 .. MaxFlows : Consent(f)
           \/ Ping \/ \E p \in pings : PingAnswered(p)
           \/ \E g \in good : Revoke(g)
           \/ ProcessRestart
    PROVE  Kept
<1>1. ASSUME NEW f \in 1 .. MaxFlows, Consent(f)
      PROVE  Kept
  <2>1. UNCHANGED <<flows, provider, good, alone, visit>>
    BY <1>1 DEF Consent, Keeps
  <2>2. UpstreamInv'
    BY <2>1, VisitsInv DEF UpstreamInv
  <2>3. StepHeals /\ StepConnects
    BY <2>1 DEF StepHeals, StepConnects, Busy
  <2>4. QED
    BY <2>2, <2>3 DEF Kept
<1>2. CASE Ping
  BY <1>2, NobodyAloneInv DEF Ping, Keeps, UpstreamInv
<1>3. ASSUME NEW p \in pings, PingAnswered(p)
      PROVE  Kept
  <2>1. alone' = {} /\ visit' = visit /\ ProviderFits(provider', flows') /\ provider'.url \in {None, flows'}
    BY <1>3, ProviderFacts DEF PingAnswered, Rejects, Keeps, UpstreamInv
  <2>2. QED
    BY <2>1, NobodyAloneInv DEF UpstreamInv
<1>4. ASSUME NEW g \in good, Revoke(g)
      PROVE  Kept
  BY <1>4, NobodyAloneInv DEF Revoke, Keeps, UpstreamInv
<1>5. CASE ProcessRestart
  <2>1. /\ alone' = {} /\ ProviderFits(provider', flows') /\ provider'.url \in {None, flows'}
        /\ visit' = [v \in Actors |-> Idle]
    BY <1>5, ProviderFacts DEF ProcessRestart, UpstreamInv
  <2>2. VisitIsSound(Idle)
    BY DEF VisitIsSound, Idle
  <2>3. QED
    BY <2>1, <2>2, NobodyAloneInv DEF UpstreamInv
<1>6. QED
  BY <1>1, <1>2, <1>3, <1>4, <1>5

(* Every step keeps the invariant and what it promises of lone visits.     *)
LEMMA UpstreamNextInv ==
    UpstreamInv /\ [UpstreamNext]_upstreamVars => Kept \/ (UpstreamInv' /\ UNCHANGED upstreamVars)
<1> SUFFICES ASSUME UpstreamInv, [UpstreamNext]_upstreamVars
             PROVE  Kept \/ (UpstreamInv' /\ UNCHANGED upstreamVars)
  OBVIOUS
<1>1. CASE UNCHANGED upstreamVars
  <2>1. UNCHANGED <<flows, provider, good, alone, visit>>
    BY <1>1 DEF upstreamVars, worldVars
  <2>2. UpstreamInv'
    BY <2>1, VisitsInv DEF UpstreamInv
  <2>3. QED
    BY <1>1, <2>2
<1>2. QED
  BY <1>1, ConnectingInv, HandlersInv, CallbacksInv, WorldInv DEF UpstreamNext

(* In every state the verifier is that of the flow begun last.             *)
THEOREM UpstreamInvariant == UpstreamSpec => []UpstreamInv
<1>1. UpstreamInv /\ [UpstreamNext]_upstreamVars => UpstreamInv'
  BY UpstreamNextInv DEF Kept
<1>2. QED
  BY <1>1, UpstreamInitInv, PTL DEF UpstreamSpec

(* For any transports, dashboards and faults: a visit that had the server  *)
(* to itself ends with the server connected or with a link whose code can  *)
(* be exchanged, unless it lost a grant that was refused; and the code of  *)
(* the flow begun last connects the server (AttemptsConnect).              *)
THEOREM AttemptsStayConnecting == UpstreamSpec => AttemptsConnect
<1>1. UpstreamInv /\ [UpstreamNext]_upstreamVars => [StepHeals]_upstreamVars /\ [StepConnects]_upstreamVars
  BY UpstreamNextInv DEF Kept
<1>2. UpstreamSpec => [][StepHeals]_upstreamVars /\ [][StepConnects]_upstreamVars
  BY <1>1, UpstreamInvariant, PTL DEF UpstreamSpec
<1>3. QED
  BY <1>2 DEF AttemptsConnect, RestartHeals, LastLinkConnects, StepHeals, StepConnects

-----------------------------------------------------------------------------
(***************************************************************************)
(* 1mcp's own tools.  A call that awaits something has a copy of what it   *)
(* was given and, to update, of what it read; the file may be another one  *)
(* when it goes on.                                                        *)
(***************************************************************************)

(* What a call under way relies on after its await. *)
CallIsSound(k) ==
    /\ k.keep \in BOOLEAN
    /\ k.at # "none" => k.srv \in Names
    /\ k.at = "edit" => k.asked \in Names /\ k.edit \in BOOLEAN
    /\ k.at = "direct" => k.edit \in SUBSET ToolTags
    /\ k.at = "update" => k.edit \in ServerEntries

(* A tool that is switched off never comes to an await. *)
ToolsInv ==
    /\ file \in [Names -> ServerEntries \cup {NoServer}]
    /\ calls = [c \in ToolCalls |-> calls[c]]
    /\ flags.all \in BOOLEAN
    /\ \A c \in ToolCalls : CallIsSound(calls[c])
    /\ ~flags.all => \A c \in ToolCalls : calls[c].at = "none"

(* An outcome that the answer of the tool, called for server "from", may   *)
(* be given of.                                                            *)
OutcomeIsTrue(tool, from, o) ==
    /\ o.srv \in Names
    /\ o.entry \in ServerEntries \cup {NoServer}
    /\ ~flags.all \/ ~o.ok => o.entry = file[o.srv]
    /\ o.ok =>
          CASE tool = "mcp_enable" -> o.entry # NoServer /\ o.entry.on
            [] tool = "mcp_disable" -> o.entry # NoServer /\ ~o.entry.on
            [] tool = "mcp_uninstall removeAll" -> o.warned \/ o.entry = NoServer
            [] tool \in {"mcp_edit", "mcp_install direct", "mcp_install force"} -> o.entry.runs = "new"
            [] tool = "mcp_install" -> o.warned \/ o.entry.runs = "new"
            [] tool = "mcp_update" -> o.entry # NoServer
            [] OTHER -> o.entry = file[o.srv]
    /\ o.ok /\ ((tool = "mcp_edit" /\ o.srv # from) \/ tool = "mcp_install direct")
          => Seen(o.srv) = NoServer

(* What is in an entry: one that is there runs something. *)
LEMMA EntryFacts ==
    /\ \A e \in ServerEntries :
          e.runs \in {"old", "new"} /\ e.on \in BOOLEAN /\ e.tags \in SUBSET ToolTags
    /\ NoServer \notin ServerEntries
  BY DEF ServerEntries, NoServer

(* An answer with a true outcome is a true answer, and the call is over.   *)
LEMMA AnswersInv ==
    ASSUME ToolsInv, NEW c \in ToolCalls, NEW tool, NEW from, NEW named, NEW o, NEW shown,
           Answers(c, tool, from, named, o, shown), OutcomeIsTrue(tool, from, o)
    PROVE  ToolsInv' /\ AnswerIsTrue
<1>1. /\ file' = [file EXCEPT ![o.srv] = o.entry]
      /\ UNCHANGED <<flags, readable>>
      /\ calls' = [calls EXCEPT ![c] = NoCall]
      /\ answer'.tool = tool /\ answer'.srv = o.srv /\ answer'.from = from
      /\ answer'.ok = o.ok /\ answer'.warned = o.warned
  BY DEF Answers
<1>2. file \in [Names -> ServerEntries \cup {NoServer}]
  BY DEF ToolsInv
<1>3. /\ file' \in [Names -> ServerEntries \cup {NoServer}]
      /\ file'[o.srv] = o.entry
      /\ o.entry = file[o.srv] => file' = file
  BY <1>1, <1>2 DEF OutcomeIsTrue
<1>4. CallIsSound(NoCall) /\ NoCall.at = "none"
  BY DEF CallIsSound, NoCall
<1>5. /\ calls' = [d \in ToolCalls |-> calls'[d]]
      /\ \A d \in ToolCalls : calls'[d] = IF d = c THEN NoCall ELSE calls[d]
  BY <1>1 DEF ToolsInv
<1>6. ToolsInv'
  <2>1. \A d \in ToolCalls : CallIsSound(calls'[d])
    BY <1>4, <1>5 DEF ToolsInv
  <2>2. \A d \in ToolCalls : CallIsSound(calls[d])'
    BY <2>1 DEF CallIsSound
  <2>3. ~flags.all => \A d \in ToolCalls : calls'[d].at = "none"
    BY <1>4, <1>5 DEF ToolsInv
  <2>4. QED
    BY <1>1, <1>3, <1>5, <2>2, <2>3 DEF ToolsInv
<1>7. AnswerIsTrue
  <2>1. ~flags.all \/ ~o.ok => file' = file
    BY <1>3 DEF OutcomeIsTrue
  <2>2. o.ok => HasHappened(answer', file')
    BY <1>1, <1>3 DEF OutcomeIsTrue, HasHappened
  <2>3. o.ok /\ TakesNoName(answer') => Seen(o.srv) = NoServer
    BY <1>1 DEF OutcomeIsTrue, TakesNoName
  <2>4. QED
    BY <1>1, <2>1, <2>2, <2>3 DEF AnswerIsTrue
<1>8. QED
  BY <1>6, <1>7

(* A call that comes to an await with what it relies on.                   *)
LEMMA AwaitsInv ==
    ASSUME ToolsInv, NEW c \in ToolCalls, NEW k, Awaits(c, k), CallIsSound(k), flags.all
    PROVE  ToolsInv' /\ AnswerIsTrue
<1>1. /\ calls' = [d \in ToolCalls |-> calls'[d]]
      /\ \A d \in ToolCalls : calls'[d] = IF d = c THEN k ELSE calls[d]
      /\ UNCHANGED <<flags, file, answer>>
  BY DEF ToolsInv, Awaits
<1>2. \A d \in ToolCalls : CallIsSound(calls'[d])
  BY <1>1 DEF ToolsInv
<1>3. \A d \in ToolCalls : CallIsSound(calls[d])'
  BY <1>2 DEF CallIsSound
<1>4. QED
  BY <1>1, <1>3 DEF ToolsInv, AnswerIsTrue

(* The tools whose success says something of the server they name.         *)
Edits == {"mcp_enable", "mcp_disable", "mcp_uninstall removeAll", "mcp_edit",
          "mcp_install direct", "mcp_install force", "mcp_install", "mcp_update"}

(* A failure leaves the entry as it is.                                    *)
LEMMA FailsInv ==
    ASSUME ToolsInv, NEW c \in ToolCalls, NEW tool, NEW from, NEW named, NEW s \in Names, NEW shown,
           Answers(c, tool, from, named, Fails(s), shown)
    PROVE  ToolsInv' /\ AnswerIsTrue
<1>1. file[s] \in ServerEntries \cup {NoServer}
  BY DEF ToolsInv
<1>2. OutcomeIsTrue(tool, from, Fails(s))
  BY <1>1 DEF Fails, Outcome, OutcomeIsTrue
<1>3. QED
  BY <1>2, AnswersInv

(* So does a tool that only looks.                                         *)
LEMMA LeavesInv ==
    ASSUME ToolsInv, NEW c \in ToolCalls, NEW tool, NEW from, NEW named, NEW s \in Names, NEW shown,
           Answers(c, tool, from, named, Leaves(s), shown), tool \notin Edits
    PROVE  ToolsInv' /\ AnswerIsTrue
<1>1. file[s] \in ServerEntries \cup {NoServer}
  BY DEF ToolsInv
<1>2. OutcomeIsTrue(tool, from, Leaves(s))
  BY <1>1 DEF Edits, Leaves, Outcome, OutcomeIsTrue
<1>3. QED
  BY <1>2, AnswersInv

(* An entry that is written, if the file can be parsed.                    *)
LEMMA SetsIsTrue ==
    ASSUME ToolsInv, flags.all, NEW tool \in Edits \ {"mcp_uninstall removeAll"}, NEW from,
           NEW s \in Names, NEW e \in ServerEntries,
           tool = "mcp_enable" => e.on,
           tool = "mcp_disable" => ~e.on,
           tool \notin {"mcp_enable", "mcp_disable", "mcp_update"} => e.runs = "new",
           \/ tool # "mcp_install direct" /\ (tool = "mcp_edit" => s = from)
           \/ Seen(s) = NoServer
    PROVE  OutcomeIsTrue(tool, from, Sets(s, e))
<1>1. file[s] \in ServerEntries \cup {NoServer} /\ e # NoServer
  BY EntryFacts DEF ToolsInv
<1>2. CASE readable
  <2>1. /\ Sets(s, e).srv = s /\ Sets(s, e).entry = e
        /\ Sets(s, e).ok = TRUE /\ Sets(s, e).warned = FALSE
    BY <1>2 DEF Sets, Outcome
  <2>2. QED
    BY <1>1, <2>1 DEF Edits, OutcomeIsTrue
<1>3. CASE ~readable
  <2>1. Sets(s, e).srv = s /\ Sets(s, e).entry = file[s] /\ Sets(s, e).ok = FALSE
    BY <1>3 DEF Sets, Fails, Outcome
  <2>2. QED
    BY <1>1, <2>1 DEF OutcomeIsTrue
<1>4. QED
  BY <1>2, <1>3

(* What the tools that edit do to the file, done by a call at once or after*)
(* its await.                                                              *)
LEMMA EditsAreTrue ==
    ASSUME ToolsInv, flags.all, NEW s \in Names, NEW from
    PROVE  /\ \A tags \in SUBSET ToolTags :
                 /\ OutcomeIsTrue("mcp_enable", from, EnableServer(s, tags))
                 /\ OutcomeIsTrue("mcp_disable", from, DisableServer(s, tags))
                 /\ OutcomeIsTrue("mcp_install direct", from, PerformDirectPackageInstallation(s, tags, FALSE))
                 /\ OutcomeIsTrue("mcp_install force", from, PerformDirectPackageInstallation(s, tags, TRUE))
           /\ \A t \in Names, on \in BOOLEAN : OutcomeIsTrue("mcp_edit", s, UpdateServerConfig(s, t, on))
           /\ OutcomeIsTrue("mcp_install", from, InstallServer(s))
           /\ OutcomeIsTrue("mcp_uninstall removeAll", from, UninstallServer(s, TRUE))
           /\ OutcomeIsTrue("mcp_uninstall", from, UninstallServer(s, FALSE))
           /\ \A e \in ServerEntries : OutcomeIsTrue("mcp_update", from, Sets(s, e))
<1>1. \A t \in Names : file[t] \in ServerEntries \cup {NoServer}
  BY DEF ToolsInv
<1>2. ASSUME NEW t \in Names, There(t)
      PROVE  file[t] \in ServerEntries
  BY <1>1, <1>2 DEF There, Seen
<1>3. ASSUME NEW t \in Names, NEW tool
      PROVE  OutcomeIsTrue(tool, from, Fails(t))
  BY <1>1, <1>3 DEF Fails, Outcome, OutcomeIsTrue
<1>4. ASSUME NEW tags \in SUBSET ToolTags, There(s)
      PROVE  /\ OutcomeIsTrue("mcp_enable", from, EnableServer(s, tags))
             /\ OutcomeIsTrue("mcp_disable", from, DisableServer(s, tags))
  <2>1. file[s] \in ServerEntries /\ file[s].tags \in SUBSET ToolTags
        /\ file[s].runs \in {"old", "new"} /\ file[s].on \in BOOLEAN /\ file[s] # NoServer
    BY <1>2, <1>4, EntryFacts
  <2>2. file[s].on => OutcomeIsTrue("mcp_enable", from, Leaves(s))
    BY <2>1 DEF Leaves, Outcome, OutcomeIsTrue
  <2>3. ~file[s].on => OutcomeIsTrue("mcp_disable", from, Leaves(s))
    BY <2>1 DEF Leaves, Outcome, OutcomeIsTrue
  <2>4. /\ Entry(file[s].runs, TRUE, file[s].tags \cup tags) \in ServerEntries
        /\ Entry(file[s].runs, TRUE, file[s].tags \cup tags).on
        /\ Entry(file[s].runs, FALSE, file[s].tags \ tags) \in ServerEntries
        /\ ~Entry(file[s].runs, FALSE, file[s].tags \ tags).on
    BY <2>1 DEF Entry, ServerEntries
  <2>5. OutcomeIsTrue("mcp_enable", from, Sets(s, Entry(file[s].runs, TRUE, file[s].tags \cup tags)))
    BY <2>4, SetsIsTrue DEF Edits
  <2>6. OutcomeIsTrue("mcp_disable", from, Sets(s, Entry(file[s].runs, FALSE, file[s].tags \ tags)))
    BY <2>4, SetsIsTrue DEF Edits
  <2>7. QED
    BY <1>4, <2>2, <2>3, <2>5, <2>6, Zenon DEF EnableServer, DisableServer
<1>5. ASSUME NEW tags \in SUBSET ToolTags
      PROVE  /\ OutcomeIsTrue("mcp_install direct", from, PerformDirectPackageInstallation(s, tags, FALSE))
             /\ OutcomeIsTrue("mcp_install force", from, PerformDirectPackageInstallation(s, tags, TRUE))
  <2>1. Entry("new", TRUE, tags) \in ServerEntries /\ Entry("new", TRUE, tags).runs = "new"
    BY DEF Entry, ServerEntries
  <2>2. ~There(s) => OutcomeIsTrue("mcp_install direct", from, Sets(s, Entry("new", TRUE, tags)))
    BY <2>1, SetsIsTrue DEF There, Edits
  <2>3. OutcomeIsTrue("mcp_install force", from, Sets(s, Entry("new", TRUE, tags)))
    BY <2>1, SetsIsTrue DEF Edits
  <2>4. QED
    BY <1>3, <2>2, <2>3, Zenon DEF PerformDirectPackageInstallation
<1>6. ASSUME NEW t \in Names, NEW on \in BOOLEAN
      PROVE  OutcomeIsTrue("mcp_edit", s, UpdateServerConfig(s, t, on))
  <2>1. OutcomeIsTrue("mcp_edit", s, Fails(s))
    BY <1>1 DEF Fails, Outcome, OutcomeIsTrue
  <2>2. CASE There(s) /\ (t = s \/ ~There(t))
    <3>1. Entry("new", on, file[s].tags) \in ServerEntries /\ Entry("new", on, file[s].tags).runs = "new"
      BY <1>2, <2>2, EntryFacts DEF Entry, ServerEntries
    <3>2. OutcomeIsTrue("mcp_edit", s, Sets(t, Entry("new", on, file[s].tags)))
      BY <2>2, <3>1, SetsIsTrue DEF There, Edits
    <3>3. QED
      BY <2>2, <3>2, Zenon DEF UpdateServerConfig
  <2>3. QED
    BY <2>1, <2>2, Zenon DEF UpdateServerConfig
<1>7. OutcomeIsTrue("mcp_install", from, InstallServer(s))
  <2>1. Entry("new", TRUE, {}) \in ServerEntries
    BY DEF Entry, ServerEntries
  <2>2. QED
    BY <1>1, <2>1 DEF InstallServer, Entry, Sets, Fails, Outcome, OutcomeIsTrue
<1>8. /\ OutcomeIsTrue("mcp_uninstall removeAll", from, UninstallServer(s, TRUE))
      /\ OutcomeIsTrue("mcp_uninstall", from, UninstallServer(s, FALSE))
  BY <1>1 DEF UninstallServer, Leaves, Outcome, OutcomeIsTrue
<1>9. ASSUME NEW e \in ServerEntries
      PROVE  OutcomeIsTrue("mcp_update", from, Sets(s, e))
  BY SetsIsTrue DEF Edits
<1>10. ASSUME NEW tags \in SUBSET ToolTags
       PROVE  /\ OutcomeIsTrue("mcp_enable", from, EnableServer(s, tags))
              /\ OutcomeIsTrue("mcp_disable", from, DisableServer(s, tags))
  BY <1>3, <1>4, Zenon DEF EnableServer, DisableServer
<1>11. QED
  BY <1>10, <1>5, <1>6, <1>7, <1>8, <1>9

(* A call that is answered at once, or comes to an await. *)
LEMMA ExecuteInv ==
    ASSUME ToolsInv, NEW c \in ToolCalls, ExecuteTool(c)
    PROVE  ToolsInv' /\ AnswerIsTrue
<1> USE DEF Does, Reads, IsToolEnabled
<1>1. ASSUME NEW tool \in {"mcp_list", "mcp_status"}, NEW shown, Reads(c, tool, shown)
      PROVE  ToolsInv' /\ AnswerIsTrue
  BY <1>1, LeavesInv DEF Edits
<1>2. CASE McpList(c) \/ McpStatus(c)
  BY <1>1, <1>2 DEF McpList, McpStatus
<1>3. ASSUME NEW tool \in {"mcp_search", "mcp_registry_status", "mcp_info"}, Asks(c, tool)
      PROVE  ToolsInv' /\ AnswerIsTrue
  <2>1. PICK s \in Names : Answers(c, tool, s, s, Leaves(s), {}) \/ Answers(c, tool, s, s, Fails(s), {})
    BY <1>3 DEF Asks
  <2>2. QED
    BY <2>1, FailsInv, LeavesInv DEF Edits
<1>4. ASSUME NEW s \in Names, McpEnable(c, s) \/ McpDisable(c, s)
      PROVE  ToolsInv' /\ AnswerIsTrue
  <2>1. CASE flags.all
    BY <1>4, <2>1, EditsAreTrue, AnswersInv DEF McpEnable, McpDisable
  <2>2. CASE ~flags.all
    BY <1>4, <2>2, FailsInv DEF McpEnable, McpDisable
  <2>3. QED
    BY <2>1, <2>2
<1>5. ASSUME NEW s \in Names, McpReload(c, s)
      PROVE  ToolsInv' /\ AnswerIsTrue
  BY <1>5, FailsInv, LeavesInv DEF McpReload, Edits
<1>6. ASSUME NEW s \in Names, McpUninstall(c, s)
      PROVE  ToolsInv' /\ AnswerIsTrue
  <2>1. PICK removeAll \in BOOLEAN :
            Does(c, IF removeAll THEN "mcp_uninstall removeAll" ELSE "mcp_uninstall", s,
                 IF IsToolEnabled THEN UninstallServer(s, removeAll) ELSE Fails(s))
    BY <1>6 DEF McpUninstall
  <2>2. CASE flags.all /\ removeAll = TRUE
    BY <2>1, <2>2, EditsAreTrue, AnswersInv
  <2>3. CASE flags.all /\ removeAll = FALSE
    BY <2>1, <2>3, EditsAreTrue, AnswersInv
  <2>4. CASE ~flags.all
    BY <2>1, <2>4, FailsInv
  <2>5. QED
    BY <2>2, <2>3, <2>4
<1>7. ASSUME NEW s \in Names, McpUpdate(c, s)
      PROVE  ToolsInv' /\ AnswerIsTrue
  <2>1. CASE ~IsToolEnabled /\ Does(c, "mcp_update", s, Fails(s))
    BY <2>1, FailsInv
  <2>2. ASSUME NEW dryRun \in BOOLEAN, NEW latest \in BOOLEAN, IsToolEnabled,
               UpdateServer(c, s, dryRun, latest)
        PROVE  ToolsInv' /\ AnswerIsTrue
    <3>1. CASE ~dryRun /\ ~There(s)
      BY <2>2, <3>1, FailsInv DEF UpdateServer
    <3>2. CASE dryRun \/ There(s)
      <4> DEFINE k == [NoCall EXCEPT !.at = IF dryRun THEN "check" ELSE "update",
                                     !.srv = s, !.edit = Seen(s), !.keep = latest]
      <4>1. ~dryRun => Seen(s) \in ServerEntries
        BY <3>2 DEF There, Seen, ToolsInv
      <4>2. CallIsSound(k)
        BY <4>1 DEF NoCall, CallIsSound
      <4>3. Awaits(c, k)
        BY <2>2, <3>2 DEF UpdateServer
      <4>4. QED
        BY <2>2, <4>2, <4>3, AwaitsInv
    <3>3. QED
      BY <3>1, <3>2
  <2>3. QED
    BY <1>7, <2>1, <2>2 DEF McpUpdate
<1>8. ASSUME NEW s \in Names, NEW n \in Names, McpEdit(c, s, n)
      PROVE  ToolsInv' /\ AnswerIsTrue
  <2>1. PICK transport \in BOOLEAN, on \in BOOLEAN, preview \in BOOLEAN :
            IF IsToolEnabled /\ ValidateServerConfig(s, n, transport)
            THEN Awaits(c, [NoCall EXCEPT !.at = "edit", !.asked = s, !.srv = n, !.edit = on, !.keep = preview])
            ELSE Does(c, "mcp_edit", s, Fails(s))
    BY <1>8 DEF McpEdit
  <2>2. CallIsSound([NoCall EXCEPT !.at = "edit", !.asked = s, !.srv = n, !.edit = on, !.keep = preview])
    BY DEF NoCall, CallIsSound
  <2>3. QED
    BY <2>1, <2>2, AwaitsInv, FailsInv
<1>9. ASSUME NEW s \in Names, NEW id \in Names, McpInstall(c, s, id)
      PROVE  ToolsInv' /\ AnswerIsTrue
  <2>1. PICK tags \in SUBSET ToolTags, force \in BOOLEAN, package \in BOOLEAN, command \in BOOLEAN :
           IF ~IsToolEnabled
           THEN Does(c, "mcp_install", s, Fails(s))
           ELSE Awaits(c, [NoCall EXCEPT
                    !.at = IF package /\ command THEN "direct" ELSE IF package THEN "package" ELSE "registry",
                    !.asked = s, !.srv = id, !.from = id, !.edit = tags, !.keep = force])
    BY <1>9 DEF McpInstall
  <2>2. CallIsSound([NoCall EXCEPT
                    !.at = IF package /\ command THEN "direct" ELSE IF package THEN "package" ELSE "registry",
                    !.asked = s, !.srv = id, !.from = id, !.edit = tags, !.keep = force])
    BY DEF NoCall, CallIsSound
  <2>3. QED
    BY <2>1, <2>2, AwaitsInv, FailsInv
<1>10. QED
  BY <1>2, <1>3, <1>4, <1>5, <1>6, <1>7, <1>8, <1>9
     DEF ExecuteTool, McpSearch, McpRegistryStatus, McpInfo

(* A call goes on after its await.                                         *)
LEMMA GoesOnTruly ==
    ASSUME ToolsInv, NEW c \in ToolCalls,
           \/ Edited(c) \/ DirectlyInstalled(c) \/ ResolvePackageToServerName(c) \/ Installed(c)
           \/ Updated(c) \/ CheckedForUpdates(c)
    PROVE  ToolsInv' /\ AnswerIsTrue
<1> USE DEF Does
<1>1. CallIsSound(calls[c]) /\ (calls[c].at # "none" => flags.all)
  BY DEF ToolsInv
<1>2. CASE Edited(c)
  <2>1. /\ calls[c].asked \in Names /\ calls[c].srv \in Names /\ calls[c].edit \in BOOLEAN
        /\ flags.all
    BY <1>1, <1>2 DEF Edited, CallIsSound
  <2>2. OutcomeIsTrue("mcp_edit", calls[c].asked,
                      UpdateServerConfig(calls[c].asked, calls[c].srv, calls[c].edit))
    BY <2>1, EditsAreTrue
  <2>3. CASE Answers(c, "mcp_edit", calls[c].asked, calls[c].srv,
                     UpdateServerConfig(calls[c].asked, calls[c].srv, calls[c].edit), {})
    BY <2>2, <2>3, AnswersInv
  <2>4. CASE \/ Does(c, "mcp_edit", calls[c].asked, Fails(calls[c].asked))
             \/ Does(c, "mcp_edit preview", calls[c].asked, Fails(calls[c].asked))
             \/ Does(c, "mcp_edit preview", calls[c].asked, Leaves(calls[c].asked))
    BY <2>1, <2>4, FailsInv, LeavesInv DEF Edits
  <2>5. QED
    BY <1>2, <2>3, <2>4 DEF Edited
<1>3. CASE DirectlyInstalled(c)
  <2>1. calls[c].srv \in Names /\ calls[c].edit \in SUBSET ToolTags /\ calls[c].keep \in BOOLEAN
        /\ flags.all
    BY <1>1, <1>3 DEF DirectlyInstalled, CallIsSound
  <2>2. /\ OutcomeIsTrue("mcp_install force", calls[c].asked,
                         PerformDirectPackageInstallation(calls[c].srv, calls[c].edit, TRUE))
        /\ OutcomeIsTrue("mcp_install direct", calls[c].asked,
                         PerformDirectPackageInstallation(calls[c].srv, calls[c].edit, FALSE))
    BY <2>1, EditsAreTrue
  <2>3. CASE calls[c].keep = TRUE
    <3>1. Answers(c, "mcp_install force", calls[c].asked, calls[c].srv,
                  PerformDirectPackageInstallation(calls[c].srv, calls[c].edit, TRUE), {})
      BY <1>3, <2>3, Zenon DEF DirectlyInstalled
    <3>2. QED
      BY <2>2, <3>1, AnswersInv, Zenon
  <2>4. CASE calls[c].keep = FALSE
    <3>1. Answers(c, "mcp_install direct", calls[c].asked, calls[c].srv,
                  PerformDirectPackageInstallation(calls[c].srv, calls[c].edit, FALSE), {})
      BY <1>3, <2>4, Zenon DEF DirectlyInstalled
    <3>2. QED
      BY <2>2, <3>1, AnswersInv, Zenon
  <2>5. QED
    BY <2>1, <2>3, <2>4
<1>4. CASE ResolvePackageToServerName(c)
  <2>1. PICK name : Awaits(c, [calls[c] EXCEPT !.at = "registry", !.from = name])
    BY <1>4 DEF ResolvePackageToServerName
  <2>2. CallIsSound([calls[c] EXCEPT !.at = "registry", !.from = name])
    BY <1>1, <1>4 DEF ResolvePackageToServerName, CallIsSound
  <2>3. QED
    BY <1>1, <1>4, <2>1, <2>2, AwaitsInv DEF ResolvePackageToServerName
<1>5. CASE Installed(c)
  <2>1. calls[c].srv \in Names /\ flags.all
    BY <1>1, <1>5 DEF Installed, CallIsSound
  <2>2. OutcomeIsTrue("mcp_install", calls[c].asked, InstallServer(calls[c].srv))
    BY <2>1, EditsAreTrue
  <2>3. QED
    BY <1>5, <2>1, <2>2, AnswersInv, FailsInv DEF Installed
<1>6. CASE Updated(c)
  <2>1. calls[c].srv \in Names /\ calls[c].edit \in ServerEntries /\ flags.all
    BY <1>1, <1>6 DEF Updated, CallIsSound
  <2>2. OutcomeIsTrue("mcp_update", calls[c].srv, Sets(calls[c].srv, calls[c].edit))
    BY <2>1, EditsAreTrue
  <2>3. QED
    BY <1>6, <2>1, <2>2, AnswersInv, FailsInv DEF Updated
<1>7. CASE CheckedForUpdates(c)
  <2>1. calls[c].srv \in Names
    BY <1>1, <1>7 DEF CheckedForUpdates, CallIsSound
  <2>2. QED
    BY <1>7, <2>1, FailsInv, LeavesInv DEF CheckedForUpdates, Edits
<1>8. QED
  BY <1>2, <1>3, <1>4, <1>5, <1>6, <1>7

(* Others leave in the file an entry of theirs. *)
LEMMA OutsideInv == ToolsInv /\ Outside => ToolsInv' /\ AnswerIsTrue
<1> SUFFICES ASSUME ToolsInv, Outside PROVE ToolsInv' /\ AnswerIsTrue
  OBVIOUS
<1>1. Entry("old", TRUE, {}) \in ServerEntries
  BY DEF Entry, ServerEntries
<1>2. file' \in [Names -> ServerEntries \cup {NoServer}]
  BY <1>1 DEF Outside, ToolsInv
<1>3. UNCHANGED <<flags, calls, answer>>
  BY DEF Outside
<1>4. QED
  BY <1>2, <1>3 DEF ToolsInv, CallIsSound, AnswerIsTrue

(* No tool has been called.                                                *)
LEMMA ToolsInitInv == ToolsInit => ToolsInv
<1> SUFFICES ASSUME ToolsInit PROVE ToolsInv
  OBVIOUS
<1>1. Entry("old", FALSE, ToolTags) \in ServerEntries
  BY DEF Entry, ServerEntries
<1>2. CallIsSound(NoCall) /\ NoCall.at = "none"
  BY DEF CallIsSound, NoCall
<1>3. \A c \in ToolCalls : CallIsSound(calls[c]) /\ calls[c].at = "none"
  BY <1>2 DEF ToolsInit
<1>4. file \in [Names -> ServerEntries \cup {NoServer}]
  BY <1>1 DEF ToolsInit
<1>5. calls = [c \in ToolCalls |-> calls[c]] /\ flags.all \in BOOLEAN
  BY DEF ToolsInit
<1>6. QED
  BY <1>3, <1>4, <1>5 DEF ToolsInv

(* Every step keeps the invariant and gives a true answer, if any.         *)
LEMMA ToolsNextInv ==
    ToolsInv /\ [ToolsNext]_toolVars => ToolsInv' /\ (AnswerIsTrue \/ UNCHANGED toolVars)
<1> SUFFICES ASSUME ToolsInv, [ToolsNext]_toolVars
             PROVE  ToolsInv' /\ (AnswerIsTrue \/ UNCHANGED toolVars)
  OBVIOUS
<1>1. CASE UNCHANGED toolVars
  BY <1>1 DEF toolVars, ToolsInv, CallIsSound
<1>2. QED
  BY <1>1, ExecuteInv, GoesOnTruly, OutsideInv DEF ToolsNext

(* What a call goes on with after its await fits its tool, in every state. *)
THEOREM ToolsInvariant == ToolsSpec => []ToolsInv
<1>1. ToolsInv /\ [ToolsNext]_toolVars => ToolsInv'
  BY ToolsNextInv
<1>2. QED
  BY <1>1, ToolsInitInv, PTL DEF ToolsSpec

(* For any servers, tags and calls in flight: what a tool answers is true  *)
(* of the file when it answers, whoever else has edited it meanwhile.      *)
THEOREM AnswersStayTrue == ToolsSpec => AnswersAreTrue
<1>1. ToolsInv /\ [ToolsNext]_toolVars => [AnswerIsTrue]_toolVars
  BY ToolsNextInv
<1>2. QED
  BY <1>1, ToolsInvariant, PTL DEF ToolsSpec, AnswersAreTrue
=============================================================================
