-------------------------- MODULE InboundSessions --------------------------
(***************************************************************************)
(* Streamable HTTP sessions: the routes of /mcp                            *)
(* (transport/http/routes/streamableHttpRoutes.ts), SessionService, the    *)
(* session repository it persists to, ServerManager.connectTransport,      *)
(* ConnectionManager and the clients of PresetNotificationService.         *)
(*                                                                         *)
(* A request that finds no connected transport for its session makes a new *)
(* one and connects it: an attempt, which is known by its number, as its   *)
(* transport is.  An attempt suspends where ServerManager.connectTransport *)
(* loads the configuration and creates the template servers.  What follows *)
(* (ConnectionManager.connectTransport to the handlers SessionService      *)
(* installs) waits for nothing but resolved promises and is one step, so   *)
(* connectionSemaphore and the 30 s timeout never come into play.          *)
(*                                                                         *)
(* sessionPersistence is enabled.  The repository keeps a session in memory*)
(* as long as the process runs, past its time to live and whether or not   *)
(* its file could be written; a restart loses what is in memory, and the   *)
(* sessions whose file has expired or was not written.                     *)
(***************************************************************************)
EXTENDS Integers, Sequences, FiniteSets

CONSTANTS
    Sessions,      \* session ids
    PresetSessions,\* those whose configuration names a preset
    MaxAttempts,   \* bound: transports made
    MaxOverlap     \* bound: attempts suspended for one session

ASSUME SessionConstants ==
    /\ PresetSessions \subseteq Sessions
    /\ MaxAttempts \in Nat \ {0}
    /\ MaxOverlap \in Nat \ {0}

VARIABLES
    persisted,      \* sessions in the repository
    attempts,       \* the attempts so far
    inboundConns,   \* session -> the transport connected for it
    streams,        \* transports with an open GET stream
    clientsById,    \* PresetNotificationService: session -> its client
    clientsByPreset \* PresetNotificationService: the clients to notify

presetVars == <<clientsById, clientsByPreset>>
vars == <<persisted, attempts, inboundConns, streams, presetVars>>

None == 0
Attempt == [session : Sessions,
            kind    : {"create", "restore"},
            method  : {"POST", "GET", "DELETE"},
            at      : {"preparing", "returned", "failed", "closed", "lost"}]

Session(a) == attempts[a].session

Preparing(s) ==
    {a \in DOMAIN attempts : Session(a) = s /\ attempts[a].at = "preparing"}

Init ==
    /\ persisted = {}
    /\ attempts = <<>>
    /\ inboundConns = [s \in Sessions |-> None]
    /\ streams = {}
    /\ clientsById = [s \in Sessions |-> None]
    /\ clientsByPreset = {}

-----------------------------------------------------------------------------
(* Mutant of DisconnectTransport: the client is not untracked.             *)
DisconnectStaysTracked(s) ==
    /\ inboundConns' = [inboundConns EXCEPT ![s] = None]
    /\ UNCHANGED presetVars

(* ConnectionManager.disconnectTransport, with untrackClient.  Nothing is  *)
(* done for a session that is not connected.                               *)
DisconnectTransport(s) ==
    IF inboundConns[s] = None THEN UNCHANGED <<inboundConns, presetVars>>
    ELSE /\ inboundConns' = [inboundConns EXCEPT ![s] = None]
         /\ clientsById' = [clientsById EXCEPT ![s] = None]
         /\ clientsByPreset' = clientsByPreset \ {clientsById[s]}

(* ConnectionManager.connectTransport of a's transport: a session that is  *)
(* connected keeps the transport it has, and the call returns as if a's    *)
(* were connected.                                                         *)
ConnectTransport(a) ==
    LET s == Session(a)
    IN  IF inboundConns[s] # None THEN UNCHANGED <<inboundConns, presetVars>>
        ELSE /\ inboundConns' = [inboundConns EXCEPT ![s] = a]
             /\ IF s \in PresetSessions
                THEN /\ clientsById' = [clientsById EXCEPT ![s] = a]
                     /\ clientsByPreset' = clientsByPreset \cup {a}
                ELSE UNCHANGED presetVars

(* Mutant of Delete: nothing is disconnected.                              *)
DeleteStaysConnected(s, a) ==
    /\ persisted' = persisted \ {s}
    /\ streams' = streams \ {a}
    /\ UNCHANGED <<inboundConns, presetVars>>

(* A DELETE has its transport: close() runs its onclose handler, which     *)
(* disconnects the session and deletes it from the repository, and the     *)
(* route deletes it once more.  The streams of the transport end normally. *)
Delete(s, a) ==
    /\ DisconnectTransport(s)
    /\ persisted' = persisted \ {s}
    /\ streams' = streams \ {a}

Begin(s, kind, method) ==
    /\ Len(attempts) < MaxAttempts
    /\ Cardinality(Preparing(s)) < MaxOverlap
    /\ attempts' = Append(attempts, [session |-> s, kind |-> kind,
                                     method |-> method, at |-> "preparing"])

-----------------------------------------------------------------------------
(* A POST without a session id: the new session gets an id of its own.     *)
PostNew(s) ==
    /\ s \notin persisted
    /\ \A a \in DOMAIN attempts : Session(a) # s
    /\ Begin(s, "create", "POST")
    /\ UNCHANGED <<persisted, inboundConns, streams, presetVars>>

(* getSession for a session that is not connected: restoreSession when the *)
(* repository knows it; otherwise a POST creates it under the id it names, *)
(* and GET and DELETE are answered 404.                                    *)
Request(s, method) ==
    /\ inboundConns[s] = None
    /\ s \in persisted \/ method = "POST"
    /\ Begin(s, IF s \in persisted THEN "restore" ELSE "create", method)
    /\ UNCHANGED <<persisted, inboundConns, streams, presetVars>>

(* getSession finds the session connected.  (A POST changes nothing.)      *)
GetStream(s) ==
    /\ inboundConns[s] # None
    /\ streams' = streams \cup {inboundConns[s]}
    /\ UNCHANGED <<persisted, attempts, inboundConns, presetVars>>

DeleteConnected(s) ==
    /\ inboundConns[s] # None
    /\ attempts' = [attempts EXCEPT ![inboundConns[s]].at = "closed"]
    /\ Delete(s, inboundConns[s])

(* connectTransport goes on and returns; createSession stores the session; *)
(* the route goes on with the transport of the attempt.                    *)
Connected(a) ==
    LET s == Session(a)
        method == attempts[a].method
    IN  /\ attempts[a].at = "preparing"
        /\ method # "DELETE"
        /\ attempts' = [attempts EXCEPT ![a].at = "returned"]
        /\ ConnectTransport(a)
        /\ persisted' = IF attempts[a].kind = "create" THEN persisted \cup {s}
                        ELSE persisted
        /\ streams' = IF method = "GET" THEN streams \cup {a} ELSE streams

(* The same for a DELETE: whatever was connected is disconnected again.    *)
ConnectedToDelete(a) ==
    /\ attempts[a].at = "preparing"
    /\ attempts[a].method = "DELETE"
    /\ attempts' = [attempts EXCEPT ![a].at = "closed"]
    /\ Delete(Session(a), a)

(* connectTransport throws before it enters the session.  A POST that      *)
(* could not restore its session creates it; all else ends in an error.    *)
Fails(a) ==
    /\ attempts[a].at = "preparing"
    /\ IF attempts[a].kind = "restore" /\ attempts[a].method = "POST"
       THEN attempts' = [attempts EXCEPT ![a].kind = "create"]
       ELSE attempts' = [attempts EXCEPT ![a].at = "failed"]
    /\ UNCHANGED <<persisted, inboundConns, streams, presetVars>>

(* The client goes away: the response of the stream closes before its end. *)
StreamDrops(a) ==
    /\ a \in streams
    /\ streams' = streams \ {a}
    /\ DisconnectTransport(Session(a))
    /\ UNCHANGED <<persisted, attempts>>

(* notifyPresetChange fails to reach a client whose connection is closed.  *)
NotificationFails(s) ==
    /\ clientsById[s] # None
    /\ clientsById' = [clientsById EXCEPT ![s] = None]
    /\ clientsByPreset' = clientsByPreset \ {clientsById[s]}
    /\ UNCHANGED <<persisted, attempts, inboundConns, streams>>

Restart ==
    /\ persisted' \in SUBSET persisted
    /\ attempts' = [a \in DOMAIN attempts |-> [attempts[a] EXCEPT !.at = "lost"]]
    /\ inboundConns' = [s \in Sessions |-> None]
    /\ streams' = {}
    /\ clientsById' = [s \in Sessions |-> None]
    /\ clientsByPreset' = {}

Next ==
    \/ \E s \in Sessions :
          \/ PostNew(s)
          \/ \E method \in {"POST", "GET", "DELETE"} : Request(s, method)
          \/ GetStream(s)
          \/ DeleteConnected(s)
          \/ NotificationFails(s)
    \/ \E a \in DOMAIN attempts :
          \/ Connected(a)
          \/ ConnectedToDelete(a)
          \/ Fails(a)
          \/ StreamDrops(a)
    \/ Restart

Spec == Init /\ [][Next]_vars

-----------------------------------------------------------------------------
SessionsTypeOK ==
    /\ persisted \subseteq Sessions
    /\ attempts \in Seq(Attempt)
    /\ inboundConns \in [Sessions -> 0 .. Len(attempts)]
    /\ streams \subseteq DOMAIN attempts
    /\ clientsById \in [Sessions -> 0 .. Len(attempts)]
    /\ clientsByPreset \subseteq DOMAIN attempts

(* A request is never routed to a transport that was closed or is another  *)
(* session's, however requests of one session overlap                      *)
(* (connectionManager.ts:33-103, getTransport).                            *)
RoutedIsOpen ==
    \A s \in Sessions : inboundConns[s] # None =>
        /\ Session(inboundConns[s]) = s
        /\ attempts[inboundConns[s]].at = "returned"

(* Notifications of a preset go to connected sessions, and no client       *)
(* outlives its session in the two maps of PresetNotificationService       *)
(* (trackClient, untrackClient).                                           *)
PresetClientsAreConnected ==
    /\ \A s \in Sessions : clientsById[s] \in {None, inboundConns[s]}
    /\ clientsByPreset = {clientsById[s] : s \in Sessions} \ {None}

(* What requests and preset notices are sent over is an open connection of *)
(* the session they are meant for.                                         *)
SessionsAreConnected == RoutedIsOpen /\ PresetClientsAreConnected

(* A session that is connected since it was created can be restored: the   *)
(* repository knows it, however deletions and other attempts for the       *)
(* session overlap with its creation (createSession, deleteSession, the    *)
(* onclose handler).                                                       *)
CreatedIsPersisted ==
    \A s \in Sessions :
        (inboundConns[s] # None /\ attempts[inboundConns[s]].kind = "create")
        => s \in persisted

-----------------------------------------------------------------------------
(* Claims of the comments.                                                 *)

(* transport/http/utils/sessionService.ts:58, "The transport if found or   *)
(* restored successfully": the transport a request is handed is the one    *)
(* that is connected for its session.                                      *)
ReturnedIsConnected ==
    [][\A a \in DOMAIN attempts :
          (attempts[a].at = "preparing" /\ attempts'[a].at = "returned")
          => inboundConns'[Session(a)] = a]_vars

(* transport/http/routes/streamableHttpRoutes.ts:47, "Cleans up the        *)
(* transport when the client disconnects": a stream that breaks off takes  *)
(* with it the connection it belongs to, and no other.                     *)
DropsOwnConnection ==
    [][\A a \in streams \ streams' :
          inboundConns'[Session(a)] # inboundConns[Session(a)]
          => inboundConns[Session(a)] = a]_vars
=============================================================================
