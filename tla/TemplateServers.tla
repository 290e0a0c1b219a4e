--------------------------- MODULE TemplateServers ---------------------------
(***************************************************************************)
(* core/server/templateServerManager.ts: the template servers of inbound   *)
(* sessions, composed of the client instance pool (ClientInstancePool) and *)
(* the client-template tracker (ClientTemplateTracker), as driven by       *)
(* ServerManager.connectTransport and disconnectTransport.                 *)
(*                                                                         *)
(* A connect is a task: it walks the matching templates in configuration   *)
(* order, awaiting the pool for each, and then connects the session; tasks *)
(* of different sessions, and of one session asked for twice, overlap.     *)
(* The code after an await that finds its instance ready is taken together *)
(* with the pool's own step.  cleanupTemplateServers has no await.         *)
(*                                                                         *)
(* The two idle-cleanup timers are left out here: no instance is ever idle *)
(* in this composition (see InstanceGoesIdle); PoolClients has the pool's. *)
(***************************************************************************)
EXTENDS ClientInstancePool, Sequences

CONSTANTS
    TemplateOrder,  \* the matching templates in configuration order
    RendersTo       \* session -> the hashes its context may be rendered to

ASSUME TemplateConstants ==
    /\ TemplateOrder \in Seq(Templates)
    /\ RendersTo \in [Clients -> SUBSET Hashes]
    /\ Clients \cap Hashes = {}
    /\ Ids \cap Hashes = {}

VARIABLES
    templateInstances, clientRelationships,   \* the tracker's maps
    outboundConns,          \* Map: outbound key -> id of the instance connected
    transports,             \* ids with an entry in the shared transports object
    sessionToRenderedHash,  \* session -> (template -> hash)
    tasks,                  \* connects in progress: request -> its task
    connected               \* sessions whose transport is up

trackerVars == <<templateInstances, clientRelationships>>
serverVars == <<outboundConns, transports, sessionToRenderedHash>>
vars == <<poolVars, trackerVars, serverVars, tasks, connected>>

Tracker == INSTANCE ClientTemplateTracker WITH InstanceIds <- Ids

OutboundKeys == [template : Templates, scope : Hashes \cup Clients]

Task == [session : Clients, hash : Hashes, next : 1 .. Len(TemplateOrder) + 1]

-----------------------------------------------------------------------------
(* The key of a session's template server among the outbound connections:  *)
(* rendered hash for a shareable template, session id otherwise.           *)
OutboundKey(t, h, s) ==
    [template |-> t, scope |-> IF t \in Shareable THEN h ELSE s]

Put(f, key, value) ==
    [k \in DOMAIN f \cup {key} |-> IF k = key THEN value ELSE f[k]]

Without(f, S) == [k \in DOMAIN f \ S |-> f[k]]

(* What createTemplateBasedServers does with the instance it is given. *)
Register(s, t, h, id) ==
    /\ outboundConns' = Put(outboundConns, OutboundKey(t, h, s), id)
    /\ sessionToRenderedHash' =
         [sessionToRenderedHash EXCEPT ![s] = Put(@, t, h)]
    /\ transports' = transports \cup {id}
    /\ Tracker!AddClientTemplate(s, <<t, id>>)

InLoop(r) == r \in DOMAIN tasks /\ tasks[r].next <= Len(TemplateOrder)

Template(r) == TemplateOrder[tasks[r].next]

Advance(r) == tasks' = [tasks EXCEPT ![r].next = @ + 1]

Suspended(r) == \E call \in creating : call.req = r

-----------------------------------------------------------------------------
(* ServerManager.connectTransport is called for a session. *)
Connect(r, s, h) ==
    /\ r \notin DOMAIN tasks
    /\ s \notin connected
    /\ tasks' = Put(tasks, r, [session |-> s, hash |-> h, next |-> 1])
    /\ UNCHANGED <<poolVars, trackerVars, serverVars, connected>>

(* Mutant of UseExisting: the pool is not told of the client.              *)
UseExistingUncounted(r) ==
    /\ InLoop(r)
    /\ ~Suspended(r)
    /\ LET s == tasks[r].session
           t == Template(r)
           h == tasks[r].hash
       IN  /\ Reusable(s, t, h)
           /\ Register(s, t, h, instances[Key(t, h, s)])
    /\ Advance(r)
    /\ UNCHANGED <<poolVars, connected>>

UseExisting(r) ==
    /\ InLoop(r)
    /\ ~Suspended(r)
    /\ LET s == tasks[r].session
           t == Template(r)
           h == tasks[r].hash
       IN  /\ GetExisting(s, t, h)
           /\ Register(s, t, h, instances[Key(t, h, s)])
    /\ Advance(r)
    /\ UNCHANGED connected

StartCreate(r) ==
    /\ InLoop(r)
    /\ BeginCreate(r, tasks[r].session, Template(r), tasks[r].hash)
    /\ UNCHANGED <<trackerVars, serverVars, tasks, connected>>

CreateSucceeds(call) ==
    /\ FinishCreate(call)
    /\ Register(call.client, call.template, call.hash, instanceCounter')
    /\ Advance(call.req)
    /\ UNCHANGED connected

(* An error is logged and the loop goes on with the next template. *)
CreateFails(call) ==
    /\ FailCreate(call)
    /\ Advance(call.req)
    /\ UNCHANGED <<trackerVars, serverVars, connected>>

Refused(r) ==
    /\ InLoop(r)
    /\ ~Suspended(r)
    /\ LimitReached(tasks[r].session, Template(r), tasks[r].hash)
    /\ Advance(r)
    /\ UNCHANGED <<trackerVars, serverVars, connected>>

(* connectionManager.connectTransport completes, or throws: then no        *)
(* transport is attached and nothing is undone.                            *)
ConnectEnds(r, ok) ==
    /\ r \in DOMAIN tasks
    /\ tasks[r].next > Len(TemplateOrder)
    /\ connected' = IF ok THEN connected \cup {tasks[r].session} ELSE connected
    /\ tasks' = Without(tasks, {r})
    /\ UNCHANGED <<poolVars, trackerVars, serverVars>>

-----------------------------------------------------------------------------
(* cleanupTemplateServers. *)

(* The outbound key looked up for one instance of the session: the hash    *)
(* key when a hash is recorded and that key is present, else the session   *)
(* key.                                                                    *)
CleanupKey(s, t) ==
    LET hashKey(h) == [template |-> t, scope |-> h]
        hashes == sessionToRenderedHash[s]
    IN  IF t \in DOMAIN hashes /\ hashKey(hashes[t]) \in DOMAIN outboundConns
        THEN hashKey(hashes[t])
        ELSE [template |-> t, scope |-> s]

(* Mutant of RemainingClients: the session that leaves is counted.         *)
RemainingWithLeaver(s, key) == Cardinality(templateInstances[key].clientIds)

RemainingClients(s, key) == Cardinality(templateInstances[key].clientIds \ {s})

(* Mutant of RemovedOutbound: the last client but one is waited for.       *)
RemovedOutboundTooEarly(s, cleaned) ==
    {CleanupKey(s, key[1]) :
        key \in {k \in cleaned :
                    RemainingClients(s, k) = 1 \/ CleanupKey(s, k[1]).scope = s}}

(* The outbound entries removed: a hash key only when no client remains, a *)
(* session key always.                                                     *)
RemovedOutbound(s, cleaned) ==
    {CleanupKey(s, key[1]) :
        key \in {k \in cleaned :
                    RemainingClients(s, k) = 0 \/ CleanupKey(s, k[1]).scope = s}}

(* Each instance is released in the pool under the tracker's key,          *)
(* `${template}:${instanceId}`; the pool looks it up among its own keys,   *)
(* `${template}:${hash}`.                                                  *)
PoolKeyUsed(key) == [template |-> key[1], hash |-> key[2], owner |-> SharedOwner]

ReleaseInPool(s, cleaned) ==
    /\ pooled' = [i \in DOMAIN pooled |->
                    IF \E key \in cleaned :
                          /\ PoolKeyUsed(key) \in DOMAIN instances
                          /\ instances[PoolKeyUsed(key)] = i
                    THEN DropClient(pooled[i], s)
                    ELSE pooled[i]]
    /\ UNCHANGED <<instances, templateToInstances, instanceCounter, creating,
                   closing>>

(* disconnectTransport: clean up and disconnect. *)
Disconnect(s) ==
    /\ s \in connected
    /\ connected' = connected \ {s}
    /\ LET cleaned == Tracker!InstancesToCleanup(s)
       IN  /\ ReleaseInPool(s, cleaned)
           /\ outboundConns' = Without(outboundConns, RemovedOutbound(s, cleaned))
           /\ transports' = transports \
                {key[2] : key \in {k \in cleaned : RemainingClients(s, k) = 0}}
           /\ sessionToRenderedHash' =
                [sessionToRenderedHash EXCEPT ![s] =
                   Without(@, {key[1] : key \in cleaned})]
    /\ Tracker!RemoveClient(s)
    /\ UNCHANGED tasks

Init ==
    /\ PoolInit
    /\ Tracker!TrackerInit
    /\ outboundConns = [k \in {} |-> 0]
    /\ transports = {}
    /\ sessionToRenderedHash = [s \in Clients |-> [t \in {} |-> 0]]
    /\ tasks = [r \in {} |-> 0]
    /\ connected = {}

Next ==
    \/ \E r \in Requests :
          \/ \E s \in Clients : \E h \in RendersTo[s] : Connect(r, s, h)
          \/ UseExisting(r)
          \/ StartCreate(r)
          \/ Refused(r)
          \/ \E ok \in BOOLEAN : ConnectEnds(r, ok)
    \/ \E call \in creating : CreateSucceeds(call) \/ CreateFails(call)
    \/ \E s \in connected : Disconnect(s)

Spec == Init /\ [][Next]_vars

-----------------------------------------------------------------------------
(* Type invariant of the composition: the pool's state, the tracker's and  *)
(* the manager's own.                                                      *)
ServersTypeOK ==
    /\ PoolTypeOK
    /\ Tracker!TrackerTypeOK
    /\ DOMAIN outboundConns \subseteq OutboundKeys
    /\ \A k \in DOMAIN outboundConns : outboundConns[k] \in DOMAIN pooled
    /\ transports \subseteq DOMAIN pooled
    /\ \A s \in Clients :
          /\ DOMAIN sessionToRenderedHash[s] \subseteq Templates
          /\ \A t \in DOMAIN sessionToRenderedHash[s] :
                sessionToRenderedHash[s][t] \in Hashes
    /\ DOMAIN tasks \subseteq Requests
    /\ \A r \in DOMAIN tasks : tasks[r] \in Task
    /\ connected \subseteq Clients

(* session s uses instance id of template t, as the tracker has it. *)
Tracked(s, t, id) == <<t, id>> \in clientRelationships[s]

(* What a session is tracked on, the pool agrees with: the instance exists,*)
(* belongs to that template, counts the session among its clients and has  *)
(* not been closed (createTemplateBasedServers 93-141 writes both).        *)
TrackedIsPooled ==
    \A s \in Clients, t \in Templates, id \in Ids :
        Tracked(s, t, id) =>
            /\ id \in DOMAIN pooled
            /\ pooled[id].template = t
            /\ s \in pooled[id].clientIds
            /\ ~pooled[id].closed

(* No session is routed to a server rendered for another context: the      *)
(* entry under a hash key was rendered to that hash, and the entry under a *)
(* session key belongs to that session (lines 104-116).                    *)
OutboundFitsKey ==
    \A key \in DOMAIN outboundConns :
        LET inst == pooled[outboundConns[key]]
        IN  /\ inst.template = key.template
            /\ key.scope \in Hashes => inst.hash = key.scope
            /\ key.scope \in Clients => key.scope \in inst.clientIds

(* A session is tracked on, and routed to, what was made for its context.  *)
SessionsFitInstances == TrackedIsPooled /\ OutboundFitsKey

(* An outbound template server is there only while some session uses it:   *)
(* the last session's departure takes it away (242-263).  This holds as    *)
(* long as every connect of a session renders its templates the same way.  *)
OutboundIsUsed ==
    \A key \in DOMAIN outboundConns :
        \E s \in Clients, id \in DOMAIN pooled :
            /\ Tracked(s, key.template, id)
            /\ OutboundKey(key.template, pooled[id].hash, s) = key

(* The transports object has an entry for exactly the instances some       *)
(* session uses, through reuse and departure (lines 131 and 265-269).      *)
TransportsAreUsed ==
    transports = {id \in Ids : \E s \in Clients, t \in Templates : Tracked(s, t, id)}

(* The two tables of running servers hold what some session uses, and the  *)
(* last departure empties both, in whatever order sessions come and go.    *)
EntriesAreUsed == OutboundIsUsed /\ TransportsAreUsed

-----------------------------------------------------------------------------
(* Claims of the source's comments. *)

(* templateServerManager.ts:244, "For shareable servers, only remove the   *)
(* outbound connection if no more clients": a tracked session's server has *)
(* its outbound entry.                                                     *)
UsedServerIsConnected ==
    \A s \in Clients, t \in Templates, id \in Ids :
        Tracked(s, t, id) =>
            OutboundKey(t, pooled[id].hash, s) \in DOMAIN outboundConns

(* templateServerManager.ts:272, "No more clients, instance becomes idle". *)
InstanceGoesIdle ==
    \A id \in DOMAIN pooled :
        (\A s \in Clients, t \in Templates : ~Tracked(s, t, id))
        => pooled[id].status # "active"

(* templateServerManager.ts:220, "Clean up session-to-renderedHash         *)
(* mapping": a session that uses no instance has no recorded hash.         *)
HashesCleanedUp ==
    \A s \in Clients :
        clientRelationships[s] = {} => DOMAIN sessionToRenderedHash[s] = {}

(* core/types/transport.ts:114, "Force per-client instances (overrides     *)
(* shareable)": a session of a perClient template is routed to an instance *)
(* of its own.                                                             *)
PerClientIsOwn ==
    \A s \in Clients, t \in PerClient :
        t \in DOMAIN sessionToRenderedHash[s] =>
            LET key == OutboundKey(t, sessionToRenderedHash[s][t], s)
            IN  key \in DOMAIN outboundConns =>
                    s \in pooled[outboundConns[key]].clientIds

(* clientTemplateTracker.ts:30, "This prevents orphaned template instances *)
(* and enables proper cleanup": a session that is neither connected nor    *)
(* connecting is tracked nowhere.                                          *)
NoOrphanedUse ==
    \A s \in Clients :
        (s \notin connected /\ \A r \in DOMAIN tasks : tasks[r].session # s)
        => clientRelationships[s] = {}
=============================================================================
