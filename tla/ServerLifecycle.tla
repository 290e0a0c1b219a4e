-------------------------- MODULE ServerLifecycle --------------------------
(***************************************************************************)
(* Hot reload of the statically configured servers.                        *)
(*                                                                         *)
(* A saved configuration file is compared with the one before               *)
(* (config/configChangeDetector.ts); ConfigChangeHandler walks through the *)
(* changes, one await after the other, with the configuration it read when *)
(* it began; MCPServerLifecycleManager starts, stops and restarts servers  *)
(* and keeps its own table of them; ClientManager.createClients makes the  *)
(* connection.  The map of outbound connections is one object, shared by   *)
(* all of them and by the request handlers.  Nothing awaits a handler, so  *)
(* a second save starts a second one beside it.                            *)
(*                                                                         *)
(* A transport is known by the order of its creation.  It is live from the *)
(* moment its connection succeeds until it is closed or dies.  Besides the *)
(* handlers, transports are made at boot, by a retry of a connection over  *)
(* HTTP, and by those who reconnect a server of the map on their own: an   *)
(* OAuth flow, and the reload of serverManagementHandler.ts, which is there*)
(* but wired to no tool yet.                                               *)
(***************************************************************************)
EXTENDS Integers, Sequences, FiniteSets

CONSTANTS
    ServerNames, \* names of servers
    BootOrder,   \* the enabled servers of the first configuration, in order
    Remote,      \* the servers reached over HTTP
    MaxBatch,    \* bound: changes in one save of the file
    MaxEdits,    \* bound: saves
    MaxHandlers, \* bound: handlers at work at the same time
    MaxRejoins   \* bound: connections made by others than the handlers

ASSUME LifecycleConstants ==
    /\ IsFiniteSet(ServerNames)
    /\ BootOrder \in Seq(ServerNames)
    /\ Remote \subseteq ServerNames
    /\ MaxBatch \in Nat \ {0}
    /\ MaxEdits \in Nat
    /\ MaxHandlers \in Nat \ {0}
    /\ MaxRejoins \in Nat

VARIABLES
    config,      \* server -> its entry in the file, counted by revisions
    handlers,    \* the handleConfigChanges calls so far
    made,        \* the transports created so far
    live,        \* transports that are connected
    mcpServers,  \* server -> its transport in the lifecycle manager's table
    outbound,    \* server -> its entry in outboundConns
    rejoining,   \* transports others have made and not yet connected
    contested,   \* history: servers changed while a change of them was handled
    missed       \* history: servers changed in a way no handler acts on

lifecycleVars == <<config, handlers, made, live, mcpServers, outbound,
                   rejoining, contested, missed>>

Modes == {"absent", "disabled", "enabled"}
Untracked == 0
NoRoute == [transport |-> 0, status |-> "none"]

Boot == {BootOrder[i] : i \in DOMAIN BootOrder}
Connected(s) == outbound[s].status = "connected"
Busy == {j \in DOMAIN handlers : handlers[j].todo # <<>>}

(* A change of s is left to handle. *)
Pending(s) == \E j \in DOMAIN handlers : \E i \in DOMAIN handlers[j].todo :
                 handlers[j].todo[i].server = s

(* A handler between two awaits runs on: nothing else happens until it     *)
(* awaits a close() or a connection, or is done.                           *)
AllAwaiting == \A j \in Busy : handlers[j].at # "next"

(* A transport for s made of its entry in the file, and by whom.           *)
TransportOf(s, entry, by) ==
    [server |-> s, rev |-> entry.rev, tags |-> entry.tags, by |-> by]

LifecycleInit ==
    /\ config = [s \in ServerNames |-> [mode |-> IF s \in Boot THEN "enabled" ELSE "absent",
                                        rev  |-> 0,
                                        tags |-> 0]]
    /\ handlers = <<>>
    /\ made = [i \in DOMAIN BootOrder |->
                 TransportOf(BootOrder[i], [rev |-> 0, tags |-> 0], "boot")]
    /\ live = DOMAIN BootOrder
    /\ mcpServers = [s \in ServerNames |-> Untracked]
    /\ outbound = [s \in ServerNames |->
                     IF s \in Boot
                     THEN [transport |-> CHOOSE i \in DOMAIN BootOrder : BootOrder[i] = s,
                           status    |-> "connected"]
                     ELSE NoRoute]
    /\ rejoining = {}
    /\ contested = {}
    /\ missed = {}

-----------------------------------------------------------------------------
(* What a save can make of the entry of s, and the change detectChanges    *)
(* reports of it.  "fields" is all the handler asks of fieldsChanged: does *)
(* it hold "disabled", does it hold tags only.  The list has the keys of   *)
(* the new entry that differ, so a key taken out is in no list: a server   *)
(* is enabled without "disabled" in it, and "tags" alone may hide another  *)
(* change; an empty list counts as functional.  "disabled" may also be     *)
(* listed for an enabled server that is given the field as false.          *)
Edits(s) ==
    LET old == config[s]
        New(mode) == [old EXCEPT !.mode = mode, !.rev = @ + 1]
        Tagged(entry) == [entry EXCEPT !.mode = "enabled", !.tags = @ + 1]
        Is(entry, type, fields) ==
            [entry  |-> entry,
             change |-> [server |-> s, type |-> type, fields |-> fields]]
    IN  IF old.mode = "absent"
        THEN {Is(New(mode), "added", "functional") : mode \in {"disabled", "enabled"}}
        ELSE {Is(New("absent"), "removed", "functional"),
              Is(New("enabled"), "modified", "functional"),
              Is(Tagged(old), "modified", "tags"),
              Is(Tagged(New("enabled")), "modified", "tags"),
              Is(New("disabled"), "modified", "disabled"),
              Is(New("enabled"), "modified", "disabled"),
              Is([old EXCEPT !.mode = "enabled"], "modified", "disabled")}

Rank(change) == CASE change.type = "added" -> 1
                  [] change.type = "removed" -> 2
                  [] change.type = "modified" -> 3

(* The lists detectChanges can return of a change per server: additions,   *)
(* then removals, then modifications.                                      *)
Lists(S, edits) ==
    {order \in [1 .. Cardinality(S) -> S] :
        \A i, k \in 1 .. Cardinality(S) :
            /\ i < k => Rank(edits[order[i]].change) <= Rank(edits[order[k]].change)
            /\ i # k => order[i] # order[k]}

(* The edit of an enabled server that is not told as functional; and the   *)
(* edits after which a server is made anew, or ended.                      *)
Unseen(s, edit) ==
    /\ config[s].mode = "enabled"
    /\ edit.change.type = "modified"
    /\ edit.change.fields # "functional"
    /\ edit.entry.rev # config[s].rev

Renews(edit) == edit.change.type # "modified" \/ edit.change.fields = "functional"

(* The file is saved: a handler starts on the changes, with the            *)
(* configuration as it is now.                                             *)
Save(S) ==
    /\ Len(handlers) < MaxEdits
    /\ Cardinality(Busy) < MaxHandlers
    /\ AllAwaiting
    /\ \E edits \in [S -> UNION {Edits(s) : s \in S}] :
          /\ \A s \in S : edits[s] \in Edits(s)
          /\ config' = [s \in ServerNames |-> IF s \in S THEN edits[s].entry ELSE config[s]]
          /\ \E order \in Lists(S, edits) :
                handlers' = Append(handlers,
                                   [todo      |-> [i \in 1 .. Cardinality(S) |->
                                                     edits[order[i]].change],
                                    at        |-> "next",
                                    config    |-> config',
                                    transport |-> 0])
          /\ missed' = (missed \ {s \in S : Renews(edits[s])})
                         \cup {s \in S : Unseen(s, edits[s])}
    /\ contested' = contested \cup {s \in S : Pending(s)}
    /\ UNCHANGED <<made, live, mcpServers, outbound, rejoining>>

-----------------------------------------------------------------------------
(* Steps of handler j, which is at the first of its changes left.          *)
At(j, place) == handlers[j].todo # <<>> /\ handlers[j].at = place

Server(j) == Head(handlers[j].todo).server

(* The server's entry, and whether newConfig has it: getTransportConfig    *)
(* leaves the disabled ones out.                                           *)
Wanted(j) == handlers[j].config[Server(j)]
InNewConfig(j) == Wanted(j).mode = "enabled"

(* To the next change: handler j is done with this one, whatever came of it. *)
Advance(j) ==
    /\ handlers' = [handlers EXCEPT ![j].todo = Tail(@), ![j].at = "next",
                                    ![j].transport = 0]
    /\ UNCHANGED <<config, contested, missed>>

(* ... and to wait in the middle of this one. *)
Await(j, place, id) ==
    /\ handlers' = [handlers EXCEPT ![j].at = place, ![j].transport = id]
    /\ UNCHANGED <<config, contested, missed>>

(* Mutant of Decision: a removal is taken as a change of fields, which     *)
(* restarts the server.                                                    *)
DecisionRestarts(j) ==
    LET change == Head(handlers[j].todo)
    IN  IF change.type = "added" THEN "start"
        ELSE IF change.type = "modified" /\ ~InNewConfig(j) THEN "throws"
        ELSE CASE change.fields = "disabled"   -> "start"
               [] change.fields = "functional" -> "restart"
               [] OTHER                        -> "metadata"

(* processChange and handleServerModified, which reads config.disabled of  *)
(* an entry newConfig may not have.                                        *)
Decision(j) ==
    LET change == Head(handlers[j].todo)
    IN  IF change.type = "added" THEN "start"
        ELSE IF change.type = "removed" THEN "stop"
        ELSE IF ~InNewConfig(j) THEN "throws"
        ELSE CASE change.fields = "disabled"   -> "start"
               [] change.fields = "functional" -> "restart"
               [] OTHER                        -> "metadata"

(* Nothing comes of the change: what throws is logged by                   *)
(* handleConfigChanges, and startServer, given no entry, throws as well.   *)
HandleSkip(j) ==
    /\ At(j, "next")
    /\ \/ Decision(j) = "throws"
       \/ Decision(j) = "stop" /\ mcpServers[Server(j)] = Untracked
       \/ Decision(j) = "start" /\ mcpServers[Server(j)] # Untracked
       \/ Decision(j) = "start" /\ ~InNewConfig(j)
    /\ Advance(j)
    /\ UNCHANGED <<made, live, mcpServers, outbound, rejoining>>

(* Mutant of HandleMetadata: the table's transport is not updated.         *)
HandleMetadataOfRouted(j) ==
    /\ At(j, "next")
    /\ Decision(j) = "metadata"
    /\ made' = [i \in DOMAIN made |->
                  IF i = outbound[Server(j)].transport
                  THEN [made[i] EXCEPT !.tags = Wanted(j).tags] ELSE made[i]]
    /\ Advance(j)
    /\ UNCHANGED <<live, mcpServers, outbound, rejoining>>

(* Only tags differ: the transports the table and the map know get them.   *)
HandleMetadata(j) ==
    /\ At(j, "next")
    /\ Decision(j) = "metadata"
    /\ made' = [i \in DOMAIN made |->
                  IF i \in {mcpServers[Server(j)], outbound[Server(j)].transport}
                  THEN [made[i] EXCEPT !.tags = Wanted(j).tags] ELSE made[i]]
    /\ Advance(j)
    /\ UNCHANGED <<live, mcpServers, outbound, rejoining>>

(* startServer from the transport's creation to its await of the           *)
(* connection: the server enters the table, createClients clears the       *)
(* shared map.                                                             *)
Start(j) ==
    /\ made' = Append(made, TransportOf(Server(j), Wanted(j), "start"))
    /\ mcpServers' = [mcpServers EXCEPT ![Server(j)] = Len(made')]
    /\ outbound' = [t \in ServerNames |-> NoRoute]
    /\ Await(j, "connecting", Len(made'))

(* createServerTransport throws; the handler logs it and goes on.          *)
StartFails(j, conns) ==
    /\ mcpServers' = [mcpServers EXCEPT ![Server(j)] = Untracked]
    /\ outbound' = conns
    /\ Advance(j)
    /\ UNCHANGED made

(* Mutant of HandleStart: a restart does not stop the server first.        *)
HandleStartAnyway(j) ==
    /\ At(j, "next")
    /\ Decision(j) \in {"start", "restart"}
    /\ InNewConfig(j)
    /\ Start(j) \/ StartFails(j, outbound)
    /\ UNCHANGED <<live, rejoining>>

HandleStart(j) ==
    /\ At(j, "next")
    /\ Decision(j) \in {"start", "restart"}
    /\ InNewConfig(j)
    /\ mcpServers[Server(j)] = Untracked
    /\ Start(j) \/ StartFails(j, outbound)
    /\ UNCHANGED <<live, rejoining>>

(* Mutants of HandleStop: the entry stays; it is marked and not removed.   *)
HandleStopKeepsRoute(j) ==
    /\ At(j, "next")
    /\ Decision(j) \in {"stop", "restart"}
    /\ mcpServers[Server(j)] # Untracked
    /\ Await(j, "closing", mcpServers[Server(j)])
    /\ UNCHANGED <<made, live, mcpServers, outbound, rejoining>>

HandleStopMarks(j) ==
    /\ At(j, "next")
    /\ Decision(j) \in {"stop", "restart"}
    /\ mcpServers[Server(j)] # Untracked
    /\ outbound' = IF outbound[Server(j)] = NoRoute THEN outbound
                   ELSE [outbound EXCEPT ![Server(j)].status = "disconnected"]
    /\ Await(j, "closing", mcpServers[Server(j)])
    /\ UNCHANGED <<made, live, mcpServers, rejoining>>

(* disconnectFromServer; stopServer awaits close() of the tracked transport. *)
HandleStop(j) ==
    /\ At(j, "next")
    /\ Decision(j) \in {"stop", "restart"}
    /\ mcpServers[Server(j)] # Untracked
    /\ outbound' = [outbound EXCEPT ![Server(j)] = NoRoute]
    /\ Await(j, "closing", mcpServers[Server(j)])
    /\ UNCHANGED <<made, live, mcpServers, rejoining>>

(* The end of a live transport: its client's onclose marks the entry the   *)
(* map has under the server's name by then.                                *)
Marked(id) ==
    LET s == made[id].server
    IN  IF id \in live /\ outbound[s] # NoRoute
        THEN [outbound EXCEPT ![s].status = "disconnected"] ELSE outbound

(* close() returns: stopServer is over; a restart goes on to startServer.  *)
FinishStop(j) ==
    LET id == handlers[j].transport
    IN  /\ At(j, "closing")
        /\ AllAwaiting
        /\ live' = live \ {id}
        /\ \/ /\ Decision(j) = "stop"
              /\ mcpServers' = [mcpServers EXCEPT ![Server(j)] = Untracked]
              /\ outbound' = Marked(id)
              /\ Advance(j)
              /\ UNCHANGED made
           \/ /\ Decision(j) = "restart"
              /\ Start(j) \/ StartFails(j, Marked(id))
        /\ UNCHANGED rejoining

(* connectWithRetry is over.  createClient never throws: what came of it   *)
(* is the status of the entry.                                             *)
ConnectEnds(j, status) ==
    LET id == handlers[j].transport
    IN  /\ At(j, "connecting")
        /\ AllAwaiting
        /\ outbound' = [outbound EXCEPT ![Server(j)] =
                          [transport |-> id, status |-> status]]
        /\ live' = IF status = "connected" THEN live \cup {id} ELSE live
        /\ Advance(j)
        /\ UNCHANGED <<made, mcpServers, rejoining>>

(* The same after a failed attempt over HTTP: what is connected is a       *)
(* transport made for the retry, which the entry and the table do not name. *)
ConnectsByRetry(j) ==
    /\ At(j, "connecting")
    /\ AllAwaiting
    /\ Server(j) \in Remote
    /\ made' = Append(made, TransportOf(Server(j), Wanted(j), "retry"))
    /\ outbound' = [outbound EXCEPT ![Server(j)] =
                      [transport |-> handlers[j].transport, status |-> "connected"]]
    /\ live' = live \cup {Len(made')}
    /\ Advance(j)
    /\ UNCHANGED <<mcpServers, rejoining>>

HandlerSteps(j) ==
    \/ HandleSkip(j)
    \/ HandleMetadata(j)
    \/ HandleStart(j)
    \/ HandleStop(j)
    \/ FinishStop(j)
    \/ \E status \in {"connected", "error", "awaiting_oauth"} : ConnectEnds(j, status)
    \/ ConnectsByRetry(j)

-----------------------------------------------------------------------------
(* A live transport dies by itself. *)
TransportDies(id) ==
    /\ AllAwaiting
    /\ outbound' = Marked(id)
    /\ live' = live \ {id}
    /\ UNCHANGED <<config, handlers, made, mcpServers, rejoining, contested, missed>>

(* Others take up the server of an entry: they close its transport, the    *)
(* reload also removes the entry, and await a connection over one of their *)
(* own, for the same server.                                               *)
OthersBegin(s) ==
    LET id == outbound[s].transport
    IN  /\ AllAwaiting
        /\ outbound[s] # NoRoute
        /\ Cardinality({i \in DOMAIN made : made[i].by = "other"}) < MaxRejoins
        /\ made' = Append(made, [made[id] EXCEPT !.by = "other"])
        /\ rejoining' = rejoining \cup {Len(made')}
        /\ live' = live \ {id}
        /\ outbound' \in {Marked(id), [outbound EXCEPT ![s] = NoRoute]}
        /\ UNCHANGED <<config, handlers, mcpServers, contested, missed>>

(* Their connection is over: the map has an entry for it, unless they gave *)
(* up without one.                                                         *)
OthersEnd(id, status) ==
    /\ AllAwaiting
    /\ rejoining' = rejoining \ {id}
    /\ outbound' = IF status = "none" THEN outbound
                   ELSE [outbound EXCEPT ![made[id].server] =
                           [transport |-> id, status |-> status]]
    /\ live' = IF status = "connected" THEN live \cup {id} ELSE live
    /\ UNCHANGED <<config, handlers, made, mcpServers, contested, missed>>

LifecycleNext ==
    \/ \E S \in SUBSET ServerNames :
          Cardinality(S) \in 1 .. MaxBatch /\ Save(S)
    \/ \E j \in DOMAIN handlers : HandlerSteps(j)
    \/ \E id \in live : TransportDies(id)
    \/ \E s \in ServerNames : OthersBegin(s)
    \/ \E id \in rejoining :
          \E status \in {"none", "connected", "error", "awaiting_oauth"} : OthersEnd(id, status)

LifecycleSpec == LifecycleInit /\ [][LifecycleNext]_lifecycleVars

-----------------------------------------------------------------------------
LifecycleTypeOK ==
    /\ config \in [ServerNames -> [mode : Modes, rev : 0 .. MaxEdits, tags : 0 .. MaxEdits]]
    /\ \A j \in DOMAIN handlers :
          /\ handlers[j].at \in {"next", "closing", "connecting"}
          /\ handlers[j].transport \in 0 .. Len(made)
          /\ handlers[j].at = "next" <=> handlers[j].transport = 0
    /\ live \subseteq DOMAIN made
    /\ rejoining \subseteq DOMAIN made
    /\ contested \subseteq ServerNames
    /\ missed \subseteq ServerNames
    /\ mcpServers \in [ServerNames -> 0 .. Len(made)]
    /\ \A s \in ServerNames :
          /\ outbound[s].transport \in 0 .. Len(made)
          /\ outbound[s].status \in {"none", "connected", "error",
                                     "awaiting_oauth", "disconnected"}

Tracked == {s \in ServerNames : mcpServers[s] # Untracked}

(* Nothing is left to do for s, and its changes were handled one by one.   *)
Handled(s) == ~Pending(s) /\ s \notin contested

(* Once its changes have been handled, whatever order of starts, stops,    *)
(* restarts and metadata updates led there and whichever of them failed, a *)
(* server is in the lifecycle table only if the file enables it, and runs  *)
(* on a transport made from, or updated to, its entry (handleServerRemoved *)
(* and handleServerModified).  Left out are the servers with a change no   *)
(* handler acts on.                                                        *)
TableFitsFile ==
    \A s \in Tracked :
        Handled(s) /\ s \notin missed
        => /\ config[s].mode = "enabled"
           /\ made[mcpServers[s]].rev = config[s].rev
           /\ made[mcpServers[s]].tags = config[s].tags

(* No transport of a handler is left behind connected: the one that is     *)
(* live is the one the table can close (restartServer, lines 133-138,      *)
(* stopServer).                                                            *)
LiveIsTracked ==
    \A id \in live : LET s == made[id].server
                     IN  Handled(s) /\ made[id].by = "start" => mcpServers[s] = id

(* What requests are routed to is what stopServer would close, unless it   *)
(* was made at boot or by others.                                          *)
RoutedIsTracked ==
    \A s \in ServerNames \ contested :
        outbound[s] # NoRoute /\ made[outbound[s].transport].by = "start"
        => outbound[s].transport = mcpServers[s]

(* An entry shown as disconnected is one whose own transport has ended     *)
(* (client.onclose, clientManager.ts:104-112), for a server only handlers  *)
(* make transports for.                                                    *)
DisconnectedHasEnded ==
    \A s \in ServerNames \ contested :
        (\A id \in DOMAIN made : made[id].server = s => made[id].by = "start")
        => (outbound[s].status = "disconnected" => outbound[s].transport \notin live)

(* Neither a connection nor a route escapes the table that can end it, and *)
(* none is given up as ended that still runs.                              *)
ConnectionsAreTracked == LiveIsTracked /\ RoutedIsTracked /\ DisconnectedHasEnded

(* Once a server's changes are handled, file, table, transports and routes *)
(* agree on it, with other handlers at work beside, connections that die,  *)
(* maps that are cleared and transports others make.                       *)
ServersFollowFile == TableFitsFile /\ ConnectionsAreTracked

(* core/configChangeHandler.test.ts:104, "should stop removed servers": no *)
(* request is routed to a server that is gone from the file, over a        *)
(* transport its handlers made.                                            *)
RemovedServersStop ==
    \A s \in ServerNames :
        config[s].mode = "absent" /\ Handled(s) /\ outbound[s] # NoRoute
        => made[outbound[s].transport].by \in {"boot", "other"}

-----------------------------------------------------------------------------
(* Claims of the documentation, the comments and the tests, which TLC      *)
(* refutes.                                                                *)
Settled == Busy = {}

(* docs/en/guide/development.md:227, "Hot-reload configuration without     *)
(* stopping active connections": an entry leaves the map only when its own *)
(* server is stopped, or by others.                                        *)
KeepsActiveConnections ==
    [][\A s \in ServerNames :
          (Connected(s) /\ outbound'[s] = NoRoute /\ rejoining' = rejoining)
          => \E j \in Busy : Server(j) = s /\ Decision(j) \in {"stop", "restart"}]_lifecycleVars

(* core/server/mcpServerLifecycleManager.ts:133, "Check if server is       *)
(* currently running and stop it": once the changes have been handled a    *)
(* server runs on one transport, a restart has ended the one before.       *)
RestartReplaces ==
    Settled => \A i, k \in live : made[i].server = made[k].server => i = k

(* core/configChangeHandler.test.ts:370, "should stop servers when         *)
(* disabled field changes to true".                                        *)
DisabledServersStop ==
    \A s \in Tracked : Handled(s) => config[s].mode # "disabled"

(* core/configChangeHandler.ts:165, "Only tags changed - update metadata   *)
(* without restart": a server that is not restarted has the entry of the   *)
(* file but for its tags.                                                  *)
FunctionalChangesRestart ==
    \A s \in Tracked :
        Handled(s) /\ config[s].mode = "enabled" => made[mcpServers[s]].rev = config[s].rev

(* core/configChangeHandler.test.ts:104 again, of all servers and routes.  *)
RemovedLoseRoute ==
    Settled => \A s \in ServerNames : config[s].mode = "absent" => outbound[s] = NoRoute

(* ... and of connections: nothing runs for a server that is gone.         *)
RemovedLoseConnection ==
    Settled => \A id \in live : made[id].by # "other" => config[made[id].server].mode # "absent"
=============================================================================
