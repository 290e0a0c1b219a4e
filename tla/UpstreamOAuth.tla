--------------------------- MODULE UpstreamOAuth ---------------------------
(***************************************************************************)
(* One upstream server that wants OAuth, and the dashboard where the user  *)
(* authorizes 1MCP with it.  Source: transport/http/routes/oauthRoutes.ts  *)
(* (authorize, restart, callback), core/client/clientManager.ts            *)
(* (createSingleClient, completeOAuthAndReconnect, keepalive ping),        *)
(* connectionHandler.ts, oauthFlowHandler.ts, transportRecreator.ts and    *)
(* auth/sdkOAuthClientProvider.ts.                                         *)
(*                                                                         *)
(* A flow is one authorization begun with the upstream server: a URL and   *)
(* the verifier that its code can be exchanged with.  The library begins   *)
(* one when a request is answered 401: it saves the verifier, then the     *)
(* URL, in the provider of the server, which all of its transports share,  *)
(* and throws.  With tokens it refreshes them first, which is the token    *)
(* being good for longer; when the refresh is refused it throws that       *)
(* (InvalidGrant) and begins none.  Grants carry the number of their flow. *)
(*                                                                         *)
(* Closing an HTTP transport is over within microtasks, so that a handler  *)
(* reaches its first request to the upstream server in one step.  The      *)
(* provider persists itself with every change except that of the URL.      *)
(***************************************************************************)
EXTENDS Integers, FiniteSets

CONSTANTS Visits,       \* HTTP requests of the dashboard's users
          Loader,       \* the one loading at the start of the process
          Transports,   \* transport objects, numbers; the least free is next
          MaxTries,     \* CONNECTION_RETRY.MAX_ATTEMPTS
          MaxFlows,     \* bound: flows begun
          MaxFaults     \* bound: failed connects, revocations and restarts

ASSUME ConstantsAssumption ==
    /\ Transports \subseteq Nat \ {0}
    /\ MaxTries \in Nat \ {0}
    /\ MaxFlows \in Nat /\ MaxFaults \in Nat

None == 0

VARIABLES provider,   \* tokens (the grant), verifier and URL (their flows)
          entry,      \* the server's entry in outboundConns
          semaphore,  \* the connection in connectionSemaphore
          live,       \* transports that carry a connected client
          pinger,     \* transport whose client the keepalive interval pings
          pings,      \* pings under way: transport and the grant they carry
          visit,      \* what each request of the dashboard is doing
          flows,      \* flows begun so far
          consented,  \* flows whose code the user has and has not brought yet
          good,       \* grants the upstream server accepts
          alone,      \* requests that nothing has interfered with since
          faults

clientVars == <<entry, semaphore, live, pinger, pings>>
worldVars == <<consented, good, faults>>
upstreamVars == <<provider, visit, flows, alone, clientVars, worldVars>>

Actors == Visits \cup {Loader}

Idle == [at |-> "idle", op |-> "none", old |-> None, new |-> None, grant |-> None, flow |-> None]
Beginning(op) == [Idle EXCEPT !.at = "connecting", !.op = op]
NoAttempt == [transport |-> None, conn |-> None, grant |-> None, tries |-> 0]
Absent == [status |-> "absent", url |-> None, transport |-> None]

Busy(v) == visit[v].at \notin {"idle", "ok", "failed"}
Joined == {v \in Actors : visit[v].at = "connecting"}

(* Transports something still refers to; a new object is the least other.  *)
Used == {entry.transport, semaphore.transport, semaphore.conn, pinger}
        \cup live \cup {p.conn : p \in pings}
        \cup {visit[v].old : v \in Actors} \cup {visit[v].new : v \in Actors}
Fresh == CHOOSE t \in Transports \ Used : \A u \in Transports \ Used : t <= u

(* Bounds: every activity under way may begin one flow and no other begins *)
(* unless there is room for its flow as well.                              *)
Room == /\ flows + Cardinality({v \in Actors : Busy(v)}) + Cardinality(pings) < MaxFlows
        /\ Cardinality(Transports \ Used) >= 2
Fault == faults < MaxFaults /\ faults' = faults + 1

-----------------------------------------------------------------------------
(* Pieces of the code that several operations share.                       *)

(* Mutant of BeginFlow: a verifier that is there is kept.                  *)
BeginFlowKeeping(p) ==
    [p EXCEPT !.verifier = IF @ = None THEN flows + 1 ELSE @, !.url = flows + 1]

(* The library's answer to a 401.                                          *)
BeginFlow(p) == [p EXCEPT !.verifier = flows + 1, !.url = flows + 1]

(* Mutant of InvalidateTokens: what a flow just begun needs goes as well.  *)
InvalidateAll(p) == [tokens |-> None, verifier |-> None, url |-> None]

InvalidateTokens(p) == [p EXCEPT !.tokens = None]

Keeps == UNCHANGED <<provider, flows>>

(* onclose of the client, when its transport is closed: it goes by name,   *)
(* whatever entry the name stands for by then.                             *)
EntryAfterClose(t, e) ==
    IF t \in live THEN [e EXCEPT !.status = "disconnected"] ELSE e

(* What closing a transport ends: the client it carries, the pings of that *)
(* client, or the connect it was used for, which fails.                    *)
CloseTransport(t) ==
    /\ live' = live \ {t}
    /\ pinger' = IF t \in live THEN None ELSE pinger
    /\ pings' = {p \in pings : p.conn # t}
AttemptAfterClose(t) ==
    IF semaphore.conn = t THEN [semaphore EXCEPT !.conn = None] ELSE semaphore

(* createSingleClient: the connection under way is joined, whatever the    *)
(* transport it was begun with; else one is begun with this transport.     *)
Connect(a, t) ==
    semaphore' = IF a = NoAttempt
               THEN [transport |-> t, conn |-> t, grant |-> provider.tokens, tries |-> 1]
               ELSE a

(* initiateOAuth: close the entry's transport, put a fresh one in its place*)
(* and connect.                                                            *)
InitiateOAuth(v, op, e) ==
    /\ CloseTransport(e.transport)
    /\ entry' = [EntryAfterClose(e.transport, e) EXCEPT !.transport = Fresh]
    /\ Connect(AttemptAfterClose(e.transport), Fresh)
    /\ visit' = [visit EXCEPT ![v] = Beginning(op)]
    /\ Keeps /\ UNCHANGED worldVars

(* A request begins: it is alone if nothing else is under way, and nothing *)
(* else is alone any more.                                                 *)
Arrives(v) ==
    /\ ~Busy(v)
    /\ Room
    /\ alone' = IF (\A w \in Actors : ~Busy(w)) /\ pings = {} THEN {v} ELSE {}

Answer(vs, how) ==
    visit' = [v \in Actors |->
                IF v \in vs THEN [Idle EXCEPT !.at = how, !.op = visit[v].op, !.flow = visit[v].flow]
                ELSE visit[v]]

-----------------------------------------------------------------------------

UpstreamInit ==
    /\ provider = [tokens |-> None, verifier |-> None, url |-> None]
    /\ entry = Absent
    /\ semaphore = NoAttempt
    /\ live = {} /\ pings = {} /\ pinger = None
    /\ visit = [v \in Actors |-> Idle]
    /\ flows = 0
    /\ consented = {}
    /\ good = {}
    /\ alone = {}
    /\ faults = 0

(* The server is loaded for the first time in this process.                *)
Load ==
    /\ entry = Absent
    /\ Arrives(Loader)
    /\ Connect(semaphore, Fresh)
    /\ visit' = [visit EXCEPT ![Loader] = Beginning("load")]
    /\ Keeps /\ UNCHANGED <<entry, live, pinger, pings, worldVars>>

(* GET /authorize, where the entry has no URL to send the browser to.      *)
AuthorizeHandler(v) ==
    /\ entry # Absent /\ entry.url = None
    /\ Arrives(v)
    /\ InitiateOAuth(v, "authorize", entry)

(* POST /restart: what the entry says of OAuth is cleared first.           *)
RestartHandler(v) ==
    /\ entry # Absent
    /\ Arrives(v)
    /\ InitiateOAuth(v, "restart", [entry EXCEPT !.url = None, !.status = "disconnected"])

(* connectWithRetry returned.  The entry gets the transport the connection *)
(* was begun with, also when a later try was made with another one.        *)
Connected ==
    /\ semaphore.conn # None
    /\ semaphore.grant \in good
    /\ entry' = [status |-> "connected", url |-> None, transport |-> semaphore.transport]
    /\ live' = live \cup {semaphore.conn}
    /\ pinger' = semaphore.conn
    /\ semaphore' = NoAttempt
    /\ Answer(Joined, "ok")
    /\ Keeps /\ UNCHANGED <<pings, alone, worldVars>>

(* The library on a 401: a flow, or the refusal of a refresh.              *)
Rejects ==
    \/ provider' = InvalidateTokens(BeginFlow(provider)) /\ flows' = flows + 1
    \/ /\ provider.tokens # None
       /\ provider' = InvalidateTokens(provider) /\ UNCHANGED flows

(* The connect was answered 401: the tokens are dropped, everybody who     *)
(* joined is answered, and the entry gets the URL the provider has.        *)
Unauthorized ==
    /\ semaphore.conn # None
    /\ semaphore.grant \notin good
    /\ Rejects
    /\ entry' = [status |-> "awaitingOAuth", url |-> provider'.url, transport |-> semaphore.transport]
    /\ semaphore' = NoAttempt
    /\ Answer(Joined, "ok")
    /\ UNCHANGED <<live, pinger, pings, alone, worldVars>>

(* A try fails, always if its transport was closed meanwhile: the next one *)
(* is made with a transport of its own, or the entry is put down as failed.*)
TryFails ==
    /\ semaphore # NoAttempt
    /\ IF semaphore.conn = None THEN UNCHANGED faults ELSE Fault
    /\ alone' = {}
    /\ \/ /\ semaphore.tries < MaxTries
          /\ semaphore' = [semaphore EXCEPT !.conn = Fresh, !.grant = provider.tokens, !.tries = @ + 1]
          /\ UNCHANGED <<entry, visit>>
       \/ /\ semaphore.tries = MaxTries
          /\ semaphore' = NoAttempt
          /\ entry' = [status |-> "error", url |-> None, transport |-> semaphore.transport]
          /\ Answer(Joined, "failed")
    /\ Keeps /\ UNCHANGED <<live, pinger, pings, consented, good>>

-----------------------------------------------------------------------------
(* The user gives consent at the URL shown; the browser brings the code.   *)

Consent(f) ==
    /\ f # None /\ f = entry.url
    /\ consented' = consented \cup {f}
    /\ Keeps /\ UNCHANGED <<visit, alone, clientVars, good, faults>>

(* GET /callback: the code is to be exchanged with the transport the entry *)
(* has now, and a new one is ready to reconnect with.                      *)
CallbackHandler(v, f) ==
    /\ f \in consented
    /\ Arrives(v)
    /\ consented' = consented \ {f}
    /\ visit' = [visit EXCEPT ![v] =
                    IF entry = Absent THEN [Idle EXCEPT !.at = "failed", !.op = "callback", !.flow = f]
                    ELSE [Idle EXCEPT !.at = "exchanging", !.op = "callback", !.flow = f,
                                      !.old = entry.transport, !.new = Fresh]]
    /\ Keeps /\ UNCHANGED <<clientVars, good, faults>>

(* The token request carries the verifier the provider has when it is sent.*)
(* Its tokens are saved, the old transport is closed, the new one connects.*)
Exchanged(v) ==
    /\ visit[v].at = "exchanging"
    /\ provider.verifier = visit[v].flow
    /\ good' = good \cup {visit[v].flow}
    /\ provider' = [provider EXCEPT !.tokens = visit[v].flow]
    /\ CloseTransport(visit[v].old)
    /\ entry' = EntryAfterClose(visit[v].old, entry)
    /\ semaphore' = AttemptAfterClose(visit[v].old)
    /\ visit' = [visit EXCEPT ![v].at = "reconnecting", ![v].old = None,
                              ![v].grant = provider'.tokens]
    /\ UNCHANGED <<flows, alone, consented, faults>>

Refused(v) ==
    /\ visit[v].at = "exchanging"
    /\ \/ provider.verifier # visit[v].flow /\ UNCHANGED <<faults, alone>>
       \/ Fault /\ alone' = {}
    /\ Answer({v}, "failed")
    /\ Keeps /\ UNCHANGED <<clientVars, consented, good>>

Reconnected(v) ==
    /\ visit[v].at = "reconnecting"
    /\ visit[v].grant \in good
    /\ entry' = [status |-> "connected", url |-> None, transport |-> visit[v].new]
    /\ live' = live \cup {visit[v].new}
    /\ pinger' = visit[v].new
    /\ Answer({v}, "ok")
    /\ Keeps /\ UNCHANGED <<semaphore, pings, alone, worldVars>>

(* Reconnecting fails: when it is answered 401 the library begins a flow   *)
(* that the entry is told nothing of, or refuses to refresh.               *)
NotReconnected(v) ==
    /\ visit[v].at = "reconnecting"
    /\ \/ /\ visit[v].grant \notin good
          /\ \/ provider' = BeginFlow(provider) /\ flows' = flows + 1
             \/ Keeps
          /\ UNCHANGED <<faults, alone>>
       \/ Fault /\ alone' = {} /\ Keeps
    /\ Answer({v}, "failed")
    /\ UNCHANGED <<clientVars, consented, good>>

-----------------------------------------------------------------------------
(* The keepalive ping, at once after a connect and at every interval.      *)

Ping ==
    /\ pinger \in live
    /\ \A p \in pings : p.conn # pinger
    /\ Room
    /\ pings' = pings \cup {[conn |-> pinger, grant |-> provider.tokens]}
    /\ alone' = {}
    /\ Keeps /\ UNCHANGED <<visit, entry, semaphore, live, pinger, worldVars>>

(* A ping is answered 401: if there are tokens they are dropped and the    *)
(* entry, which no URL is put into, waits.                                 *)
PingAnswered(p) ==
    /\ pings' = pings \ {p}
    /\ alone' = {}
    /\ \/ p.grant \in good /\ Keeps /\ UNCHANGED <<entry, pinger>>
       \/ /\ p.grant \notin good
          /\ Rejects
          /\ IF provider.tokens = None THEN UNCHANGED <<entry, pinger>>
             ELSE /\ entry' = [entry EXCEPT !.status = "awaitingOAuth", !.url = None]
                  /\ pinger' = None
    /\ UNCHANGED <<visit, semaphore, live, worldVars>>

-----------------------------------------------------------------------------
(* The upstream server takes a grant back; the process ends and starts.    *)

Revoke(g) ==
    /\ g \in good /\ Fault
    /\ good' = good \ {g}
    /\ alone' = {}
    /\ Keeps /\ UNCHANGED <<visit, clientVars, consented>>

(* loadPersistedData: tokens and verifier are read back, the URL is not.   *)
ProcessRestart ==
    /\ Fault
    /\ provider' = [provider EXCEPT !.url = None]
    /\ entry' = Absent
    /\ semaphore' = NoAttempt
    /\ live' = {} /\ pings' = {} /\ pinger' = None
    /\ visit' = [v \in Actors |-> Idle]
    /\ alone' = {}
    /\ UNCHANGED <<flows, consented, good>>

UpstreamNext ==
    \/ Load
    \/ Connected \/ Unauthorized \/ TryFails
    \/ \E v \in Visits :
          \/ AuthorizeHandler(v) \/ RestartHandler(v)
          \/ \E f \in consented : CallbackHandler(v, f)
          \/ Exchanged(v) \/ Refused(v) \/ Reconnected(v) \/ NotReconnected(v)
    \/ \E f \in 1 .. MaxFlows : Consent(f)
    \/ Ping \/ \E p \in pings : PingAnswered(p)
    \/ \E g \in good : Revoke(g)
    \/ ProcessRestart

UpstreamSpec == UpstreamInit /\ [][UpstreamNext]_upstreamVars

-----------------------------------------------------------------------------

Served == entry.status = "connected"
LinkFits == entry.status = "awaitingOAuth" /\ entry.url # None /\ entry.url = provider.verifier

(* The visit was refused the grant the server had, no flow was begun, and  *)
(* the entry waits without a link.                                         *)
GrantIsGone ==
    /\ provider.tokens # None /\ provider'.tokens = None
    /\ entry'.status = "awaitingOAuth" /\ entry'.url = None

(* A visit that had the server to itself ends with the server connected, or*)
(* with a link whose code can be exchanged: the way out of any state that  *)
(* overlapping visits, late pings, failed connects and restarts have left. *)
(* One that brought a grant which is refused may end without a link, but   *)
(* then the grant is gone, and the next such visit brings none.            *)
RestartHeals ==
    [][\A v \in Visits \cap alone \cap alone' :
          (visit[v].at = "connecting" /\ ~Busy(v)') => (Served \/ LinkFits)' \/ GrantIsGone]_upstreamVars

(* Refuted: every such visit ends so.                                      *)
FirstRestartHeals ==
    [][\A v \in Visits \cap alone \cap alone' :
          (visit[v].at = "connecting" /\ ~Busy(v)') => (Served \/ LinkFits)']_upstreamVars

(* The code of the flow begun last connects the server, if nothing comes   *)
(* in between and the upstream server accepts it: whatever flows were begun*)
(* and given up before, and whatever was connected meanwhile.              *)
LastLinkConnects ==
    [][\A v \in Visits \cap alone \cap alone' :
          (visit[v].op = "callback" /\ visit[v].flow = flows /\ Busy(v) /\ ~Busy(v)')
             => (Served' /\ visit'[v].at = "ok")]_upstreamVars

(* What the runs check of attempts to connect. *)
AttemptsConnect == RestartHeals /\ LastLinkConnects

(* What the dashboard seems to promise: the link it shows for a server that*)
(* waits for authorization is one whose code can be exchanged.             *)
ShownLinkWorks ==
    (entry.status = "awaitingOAuth" /\ entry.url # None) => LinkFits
=============================================================================
