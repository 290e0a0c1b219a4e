----------------------------- MODULE SessionStore -----------------------------
(***************************************************************************)
(* How a session outlives the process: StreamableSessionRepository         *)
(* (transport/http/storage/streamableSessionRepository.ts) over            *)
(* FileStorageService (auth/storage/fileStorageService.ts), as             *)
(* SessionService and the shutdown of commands/serve/serve.ts call them.   *)
(* InboundSessions has the requests that overlap; here it is the store,    *)
(* its clock, its flush and its failures.                                  *)
(*                                                                         *)
(* Of a session's data only the time it expires matters.  A file is written*)
(* under another name and renamed: it is written or it is not.  The clock  *)
(* counts flushes: the timer of the flush fires once per unit.             *)
(***************************************************************************)
EXTENDS Integers, FiniteSets

CONSTANTS
    Ids,             \* session ids
    Foreign,         \* those not of the store's form: their file has no path
    TTL,             \* time to live
    PersistRequests, \* requests after which an access is written,
    PersistInterval, \* and the time after which it is
    MaxTime,         \* bound: the clock
    MaxFaults        \* bound: writes and removals that fail

ASSUME StoreConstants ==
    /\ Foreign \subseteq Ids
    /\ PersistRequests \in Nat \ {0}
    /\ PersistInterval \in Nat \ {0}
    /\ TTL \in Nat /\ TTL > PersistInterval

VARIABLES
    clock,      \* the time
    inMemory,   \* inMemorySessions: id -> when it expires
    tracked,    \* lastAccessTimes, requestCounts, lastPersistTimes
    dirty,      \* dirtySessionIds
    files,      \* id -> when it expires
    connected,  \* sessions with a transport
    restoring,  \* those whose restoration awaits connectTransport
    faults,     \* failures so far
    used,       \* id -> when a request was last answered by a session the store knows
    gone        \* sessions that were deleted, with their file

processVars == <<inMemory, tracked, dirty, connected, restoring>>
storeVars == <<clock, processVars, files, faults, used, gone>>

Missing == -1
Untracked == [accessed |-> Missing, count |-> 0, written |-> -PersistInterval]

StoreInit ==
    /\ clock = 1
    /\ inMemory = [s \in Ids |-> Missing]
    /\ tracked = [s \in Ids |-> Untracked]
    /\ dirty = {}
    /\ files = [s \in Ids |-> Missing]
    /\ connected = {}
    /\ restoring = {}
    /\ faults = 0
    /\ used = [s \in Ids |-> Missing]
    /\ gone = {}

(* readData: an expired file is as good as none, and is removed.           *)
Readable(s) == files[s] >= clock

(* Whether a file is written: never a foreign id's; a disk may fail.       *)
Writes(s, ok) ==
    /\ ok => s \notin Foreign
    /\ s \in Foreign \/ ok \/ faults < MaxFaults
    /\ faults' = IF ok \/ s \in Foreign THEN faults ELSE faults + 1

-----------------------------------------------------------------------------
(* createSession, its transport connected: the session is in memory, and a *)
(* write that fails is only logged.                                        *)
Create(s, ok) ==
    /\ s \notin connected
    /\ inMemory[s] = Missing
    /\ ~Readable(s)
    /\ Writes(s, ok)
    /\ connected' = connected \cup {s}
    /\ inMemory' = [inMemory EXCEPT ![s] = clock + TTL]
    /\ files' = [files EXCEPT ![s] = IF ok THEN clock + TTL ELSE Missing]
    /\ used' = IF ok THEN [used EXCEPT ![s] = clock] ELSE used
    /\ gone' = gone \ {s}
    /\ UNCHANGED <<clock, tracked, dirty, restoring>>

(* Mutant of Due: only requests count. *)
DueByRequests(t) == t.count >= PersistRequests

(* The two triggers. *)
Due(t) == t.count >= PersistRequests \/ clock - t.written >= PersistInterval

(* updateAccess; the count ends where it triggers.  With no data in memory *)
(* or on the disk nothing is written; a write that fails is thrown to the  *)
(* caller.                                                                 *)
UpdateAccess(s, ok) ==
    LET t      == [tracked[s] EXCEPT !.accessed = clock,
                                    !.count = IF @ < PersistRequests THEN @ + 1 ELSE @]
        known  == inMemory[s] # Missing
        write  == Due(t) /\ (known \/ Readable(s))
    IN  /\ IF write THEN Writes(s, ok) ELSE ok /\ UNCHANGED faults
        /\ inMemory' = IF known THEN [inMemory EXCEPT ![s] = clock + TTL] ELSE inMemory
        /\ IF write /\ ok
           THEN /\ files' = [files EXCEPT ![s] = clock + TTL]
                /\ tracked' = [tracked EXCEPT ![s] = [t EXCEPT !.written = clock, !.count = 0]]
                /\ dirty' = dirty \ {s}
           ELSE /\ files' = IF Due(t) /\ ~known /\ ~Readable(s)
                            THEN [files EXCEPT ![s] = Missing] ELSE files
                /\ tracked' = [tracked EXCEPT ![s] = t]
                /\ dirty' = dirty \cup {s}
        /\ used' = IF known /\ ok THEN [used EXCEPT ![s] = clock] ELSE used

(* getSession of a connected session.                                      *)
Use(s, ok) ==
    /\ s \in connected
    /\ UpdateAccess(s, ok)
    /\ UNCHANGED <<clock, connected, restoring, gone>>

(* restoreSession: get, from memory or else from the disk, ...             *)
BeginRestore(s) ==
    /\ s \notin connected
    /\ inMemory[s] # Missing \/ Readable(s)
    /\ restoring' = restoring \cup {s}
    /\ inMemory' = [inMemory EXCEPT ![s] = IF @ = Missing THEN files[s] ELSE @]
    /\ UNCHANGED <<clock, tracked, dirty, files, connected, faults, used, gone>>

(* ... and updateAccess once it is connected.  (What it throws is answered *)
(* as a failure; the session is connected all the same.)                   *)
FinishRestore(s, ok) ==
    /\ s \in restoring
    /\ restoring' = restoring \ {s}
    /\ connected' = connected \cup {s}
    /\ UpdateAccess(s, ok)
    /\ UNCHANGED <<clock, gone>>

(* A stream that breaks off disconnects the session and leaves it stored.  *)
Disconnect(s) ==
    /\ s \in connected
    /\ connected' = connected \ {s}
    /\ UNCHANGED <<clock, inMemory, tracked, dirty, restoring, files, faults, used, gone>>

(* Mutant of Forget: what is in memory stays. *)
ForgetTracking(S) ==
    /\ tracked' = [s \in Ids |-> IF s \in S THEN Untracked ELSE tracked[s]]
    /\ UNCHANGED <<dirty, inMemory>>

Forget(S) ==
    /\ tracked' = [s \in Ids |-> IF s \in S THEN Untracked ELSE tracked[s]]
    /\ dirty' = dirty \ S
    /\ inMemory' = [s \in Ids |-> IF s \in S THEN Missing ELSE inMemory[s]]

(* delete: a file that cannot be removed stays, and the caller is told     *)
(* nothing.                                                                *)
DeleteStored(s, ok) ==
    /\ s \in connected
    /\ connected' = connected \ {s}
    /\ Forget({s})
    /\ ok \/ faults < MaxFaults
    /\ faults' = IF ok THEN faults ELSE faults + 1
    /\ files' = IF ok THEN [files EXCEPT ![s] = Missing] ELSE files
    /\ used' = [used EXCEPT ![s] = Missing]
    /\ gone' = IF ok THEN gone \cup {s} ELSE gone
    /\ UNCHANGED <<clock, restoring>>

-----------------------------------------------------------------------------
(* The process ends without a word.                                        *)
ProcessEnds ==
    /\ inMemory' = [s \in Ids |-> Missing]
    /\ tracked' = [s \in Ids |-> Untracked]
    /\ dirty' = {}
    /\ connected' = {}
    /\ restoring' = {}

(* flushDirtySessions: those with data, each at its last access.           *)
ToFlush(time) == {s \in dirty : inMemory[s] # Missing \/ files[s] >= time}
Lapsed(time) == dirty \ ToFlush(time)
Expiry(S, of) == [s \in Ids |-> IF s \in S THEN tracked[s].accessed + TTL ELSE of[s]]
Flushed(S, time) == [s \in Ids |-> IF s \in Lapsed(time) THEN Missing ELSE Expiry(S, files)[s]]

(* The timer of the flush.  A write that fails is thrown out of the timer, *)
(* which nothing catches; sessions ahead of it in the set are written.     *)
Tick ==
    /\ clock < MaxTime
    /\ clock' = clock + 1
    /\ UNCHANGED <<used, gone>>
    /\ LET due == ToFlush(clock')
       IN  \/ /\ due \cap Foreign = {}
              /\ files' = Flushed(due, clock')
              /\ tracked' = [s \in Ids |->
                     IF s \in due THEN [tracked[s] EXCEPT !.written = tracked[s].accessed, !.count = 0]
                     ELSE tracked[s]]
              /\ inMemory' = Expiry({s \in due : inMemory[s] # Missing}, inMemory)
              /\ dirty' = dirty \ due
              /\ UNCHANGED <<connected, restoring, faults>>
           \/ \E failed \in due : \E S \in SUBSET (due \ (Foreign \cup {failed})) :
                 /\ Writes(failed, FALSE)
                 /\ files' = Flushed(S, clock')
                 /\ ProcessEnds

(* cleanupExpiredData *)
Cleanup ==
    /\ \E s \in Ids : files[s] # Missing /\ ~Readable(s)
    /\ files' = [s \in Ids |-> IF Readable(s) THEN files[s] ELSE Missing]
    /\ UNCHANGED <<clock, processVars, faults, used, gone>>

Crash == ProcessEnds /\ UNCHANGED <<clock, files, faults, used, gone>>

(* setupGracefulShutdown: dirty sessions are flushed, up to one that fails *)
(* (which is caught here), then the transports are closed, whose onclose   *)
(* handlers delete their sessions.                                         *)
Shutdown ==
    LET due == ToFlush(clock)
    IN  /\ connected # {}
        /\ \E S \in IF due \cap Foreign = {} THEN {due} ELSE SUBSET (due \ Foreign) :
              files' = [s \in Ids |-> IF s \in connected THEN Missing ELSE Flushed(S, clock)[s]]
        /\ used' = [s \in Ids |-> IF s \in connected THEN Missing ELSE used[s]]
        /\ gone' = gone \cup connected
        /\ ProcessEnds
        /\ UNCHANGED <<clock, faults>>

StoreNext ==
    \/ \E s \in Ids :
          \/ \E ok \in BOOLEAN : Create(s, ok) \/ Use(s, ok) \/ FinishRestore(s, ok) \/ DeleteStored(s, ok)
          \/ BeginRestore(s)
          \/ Disconnect(s)
    \/ Tick
    \/ Cleanup
    \/ Crash
    \/ Shutdown

StoreSpec == StoreInit /\ [][StoreNext]_storeVars

-----------------------------------------------------------------------------
(* A session that answered a request can be restored after the process     *)
(* ends at any moment: its file is there and lives as long as the session  *)
(* would have, less the time between two writes of its accesses - whatever *)
(* was written or lost before, and whichever writes failed.                *)
UsedIsStored ==
    \A s \in Ids : used[s] # Missing =>
        LET until == used[s] + TTL - (PersistInterval - 1)
        IN  files[s] >= until \/ clock > until

(* A session whose DELETE removed its file is in the store no more, and no *)
(* flush, late access or restoration under way brings it back; only a new  *)
(* session of its id does.                                                 *)
DeletedStaysGone == \A s \in gone : files[s] = Missing /\ inMemory[s] = Missing

(* What the runs check of the store. *)
StoreIsFaithful == UsedIsStored /\ DeletedStaysGone

(* Sessions are kept across server restarts (docs, configuration.md:425);  *)
(* refuted, a graceful shutdown deletes those that are connected.          *)
ShutdownKeepsSessions ==
    [][Shutdown /\ (\A s \in Ids : ~DeleteStored(s, TRUE)) =>
          \A s \in connected : Readable(s) => files'[s] # Missing]_storeVars

(* A file that cannot be written is logged and the session goes on (as in  *)
(* createSession); refuted, the timer of the flush ends the process.       *)
FaultsAreContained == [][Tick => connected' = connected]_storeVars
=============================================================================
