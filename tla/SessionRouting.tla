--------------------------- MODULE SessionRouting ---------------------------
(***************************************************************************)
(* What a session is served from the shared map of outbound connections:   *)
(* setupCapabilities (core/capabilities/capabilityManager.ts), the request *)
(* handlers (core/protocol/requestHandlers.ts), the notification handlers  *)
(* (core/protocol/notificationHandlers.ts) and the filters before a listing*)
(* (core/filtering/clientFiltering.ts, filteringService.ts).               *)
(*                                                                         *)
(* The map is iterated in the order its keys were first set.  A connection *)
(* of the map is a record that is replaced whenever its server is connected*)
(* anew: what setupCapabilities wrote into the old one is gone with it.    *)
(***************************************************************************)
EXTENDS Naturals, Sequences, FiniteSets

CONSTANTS
    Keys,        \* keys of the outbound map
    Templates,   \* those of template servers, which hold a colon
    Sessions,
    VisibleTo,   \* template key -> sessions that use its instance
    Selects,     \* session -> keys its tags, expression or preset selects
    Kinds,       \* tools, resources, prompts
    Offers       \* key -> kinds the server declares and has items of

ASSUME RoutingConstants ==
    /\ Templates \subseteq Keys
    /\ VisibleTo \in [Templates -> SUBSET Sessions]
    /\ Selects \in [Sessions -> SUBSET Keys]
    /\ Offers \in [Keys -> SUBSET Kinds]

VARIABLES
    order,      \* the keys of the outbound map, in its order
    status,     \* key -> status of its connection
    collected,  \* keys whose connection has its capabilities
    configured, \* keys whose connection has its server's configuration
    sessions,   \* connected sessions
    handler,    \* key -> session its notifications and pings are sent to
    target      \* session -> key its notifications are sent to

connVars == <<order, status, collected, configured>>
sessionVars == <<sessions, handler, target>>
routingVars == <<connVars, sessionVars>>

NoSession == "no session"
NoKey == "no key"
InMap == {order[i] : i \in DOMAIN order}

RoutingInit ==
    /\ order = <<>>
    /\ status = [k \in Keys |-> "absent"]
    /\ collected = {}
    /\ configured = {}
    /\ sessions = {}
    /\ handler = [k \in Keys |-> NoSession]
    /\ target = [s \in Sessions |-> NoKey]

-----------------------------------------------------------------------------
(* What a session sees.                                                    *)

(* filterConnectionsForSession: static servers, and the template servers   *)
(* of the session.                                                         *)
SessionConns(s) ==
    {k \in InMap : k \in Templates => s \in VisibleTo[k]}

(* Without its capabilities a connection has none. *)
byCapabilities(kind, keys) == {k \in keys \cap collected : kind \in Offers[k]}

(* FilteringService.getFilteredConnections. *)
Listed(s, kind) ==
    {k \in byCapabilities(kind, SessionConns(s)) : status[k] = "connected" /\ k \in Selects[s]}

-----------------------------------------------------------------------------
(* The outbound map, as the code around it changes it.                     *)

SetEntry(k, st) ==
    /\ order' = IF k \in InMap THEN order ELSE Append(order, k)
    /\ status' = [status EXCEPT ![k] = st]
    /\ collected' = collected \ {k}
    /\ configured' = configured \ {k}
    /\ handler' = [handler EXCEPT ![k] = NoSession]
    /\ UNCHANGED <<sessions, target>>

(* createSingleClientInternal and handleSingleClientError set the entry.   *)
ServerConnects(k) == status[k] # "connected" /\ SetEntry(k, "connected")
ServerFails(k) == status[k] \in {"absent", "error"} /\ SetEntry(k, "error")

(* onclose of a connected client.                                          *)
ServerDrops(k) ==
    /\ status[k] = "connected"
    /\ status' = [status EXCEPT ![k] = "disconnected"]
    /\ UNCHANGED <<order, collected, configured, sessionVars>>

(* startServer of McpServerLifecycleManager: createClients clears the map, *)
(* and only then is the configuration stored on the one connection left.   *)
HotStart(k, st) ==
    /\ order' = <<k>>
    /\ status' = [j \in Keys |-> IF j = k THEN st ELSE "absent"]
    /\ collected' = {}
    /\ configured' = {k}
    /\ handler' = [j \in Keys |-> NoSession]
    /\ UNCHANGED <<sessions, target>>

-----------------------------------------------------------------------------
(* setupCapabilities: the capabilities of every connection are collected.  *)
(* Each connection's handlers are installed anew, for this session only;   *)
(* each also takes the session's own notification handlers, so that the    *)
(* last of the map has them.                                               *)
SessionConnects(s) ==
    /\ s \notin sessions
    /\ sessions' = sessions \cup {s}
    /\ collected' = InMap
    /\ handler' = [k \in Keys |-> IF k \in InMap THEN s ELSE handler[k]]
    /\ target' = [target EXCEPT ![s] = IF order = <<>> THEN NoKey ELSE order[Len(order)]]
    /\ UNCHANGED <<order, status, configured>>

SessionEnds(s) ==
    /\ s \in sessions
    /\ sessions' = sessions \ {s}
    /\ UNCHANGED <<connVars, handler, target>>
=============================================================================
