--------------------------- MODULE ProxyForwarding ---------------------------
(***************************************************************************)
(* A stdio proxy and its session of the server: StdioProxyTransport        *)
(* (transport/stdioProxyTransport.ts) forwards what a stdio client sends,  *)
(* with the context of its directory added and, once seen, the client's    *)
(* name (utils/client/clientInfoExtractor.ts); the server takes the context*)
(* of a session from the message that makes it                             *)
(* (transport/http/utils/contextExtractor.ts, routes/                      *)
(* streamableHttpRoutes.ts, utils/sessionService.ts).                      *)
(*                                                                         *)
(* The proxy chooses the session id, so any message may make the session,  *)
(* and a stored one is restored by any message.  Messages of the client are*)
(* posted concurrently: they arrive in any order, or not at all.           *)
(***************************************************************************)
EXTENDS Integers, FiniteSets

CONSTANTS
    MaxMessages,    \* bound: messages of the client
    MaxMishaps,   \* bound: lost posts, restarts of the server, broken streams
    EnvNames,       \* names of environment variables of the proxy,
    BaseNames,      \* those the context always has,
    Prefixed,       \* and those the project's prefixes select
    NoSession

ASSUME ProxyConstants ==
    /\ MaxMessages \in Nat /\ MaxMishaps \in Nat
    /\ BaseNames \subseteq EnvNames /\ Prefixed \subseteq EnvNames

VARIABLES
    query,      \* the parameter of the URL that selects servers
    context,    \* the proxy's context
    client,     \* clientInfo: whether it was extracted
    bridge,     \* "new", "open" or "closed": isConnected, from start on
    sent,       \* messages read from the client, in order of their number
    posted,     \* those on their way, as they were enhanced
    session,    \* the server's transport of the session
    stored,     \* the session's record: NoSession, or its context
    answered,   \* messages whose answer was forwarded to the client
    failed,     \* those whose post failed, of which the proxy logs the error
    mishaps

proxyVars == <<query, context, client, bridge, sent, posted, session, stored,
               answered, failed, mishaps>>

(* What a client sends: initialize, with or without a proper clientInfo, a *)
(* request without params (ping), and one with.                            *)
Kinds == {"initialize", "bare", "ping", "call"}
HasParams(kind) == kind # "ping"

NoContext_ == [project |-> FALSE, variables |-> {}, client |-> FALSE]

-----------------------------------------------------------------------------
(* The proxy. *)

(* Constructor: preset before filter before tags, one at most. *)
Selected(preset, filter, tags) ==
    IF preset THEN "preset" ELSE IF filter THEN "filter" ELSE IF tags THEN "tags" ELSE "none"

(* detectProxyContext; enrichContextWithProjectConfig adds the variables   *)
(* with a prefix of the project's configuration and a value.               *)
Detected(valued, configured) ==
    [project |-> TRUE,
     variables |-> BaseNames \cup (IF configured THEN Prefixed \cap valued ELSE {}),
     client |-> FALSE]

ProxyInit ==
    /\ query = "none"
    /\ context = NoContext_
    /\ client = FALSE
    /\ bridge = "new"
    /\ sent = [n \in 1 .. MaxMessages |-> "unsent"]
    /\ posted = {}
    /\ session = [state |-> "none", context |-> NoContext_]
    /\ stored = NoSession
    /\ answered = {}
    /\ failed = {}
    /\ mishaps = 0

(* The constructor, and start: the handlers are in place before either     *)
(* transport runs.                                                         *)
StartBridge ==
    /\ bridge = "new"
    /\ bridge' = "open"
    /\ \E preset, filter, tags \in BOOLEAN : query' = Selected(preset, filter, tags)
    /\ \E valued \in SUBSET EnvNames, configured \in BOOLEAN :
          context' = Detected(valued, configured)
    /\ UNCHANGED <<client, sent, posted, session, stored, answered, failed, mishaps>>

(* Mutant of AddContextMeta: the client's name is forgotten. *)
AddContextOnly(kind, named) == IF HasParams(kind) THEN context ELSE NoContext_

(* addContextMeta: a message without params goes as it is. *)
AddContextMeta(kind, named) ==
    IF HasParams(kind) THEN [context EXCEPT !.client = named] ELSE NoContext_

(* onmessage of the stdio side: the first proper initialize names the      *)
(* client, for itself already.  The client waits with calls until it is    *)
(* initialized; a ping may come before.                                    *)
Read(n, kind) ==
    LET named == client \/ kind = "initialize"
    IN  /\ bridge = "open"
        /\ sent[n] = "unsent" /\ \A m \in 1 .. n - 1 : sent[m] # "unsent"
        /\ kind \in {"initialize", "bare"} =>
              \A m \in 1 .. n - 1 : sent[m] \notin {"initialize", "bare"}
        /\ kind = "call" => \E m \in answered : sent[m] \in {"initialize", "bare"}
        /\ sent' = [sent EXCEPT ![n] = kind]
        /\ client' = named
        /\ posted' = posted \cup {[number |-> n, meta |-> AddContextMeta(kind, named)]}
        /\ UNCHANGED <<query, context, bridge, session, stored, answered, failed, mishaps>>

(* close(), of either side or of a signal: once.  Answers on their way are *)
(* lost.                                                                   *)
CloseBridge ==
    /\ bridge = "open"
    /\ bridge' = "closed"
    /\ UNCHANGED <<query, context, client, sent, posted, session, stored, answered, failed, mishaps>>

-----------------------------------------------------------------------------
(* The server's POST handler. *)

(* extractContextFromMeta and createSession: a context is whole or none. *)
Extracted(m) == IF m.meta.project THEN m.meta ELSE NoContext_

(* Mutant of Restored: the record's context is not passed on. *)
RestoredBare == [state |-> "ready", context |-> NoContext_]

(* restoreSession: the context of the record; the transport is marked as   *)
(* initialized, whether it was or not.                                     *)
Restored == [state |-> "ready", context |-> stored]

(* getSession of the id: the connected one, or the stored one, or a new one*)
(* with this id, which is not initialized.                                 *)
SessionFor(m) ==
    IF session.state # "none" THEN session
    ELSE IF stored # NoSession THEN Restored
    ELSE [state |-> "blank", context |-> Extracted(m)]

(* handleRequest of the transport: initialize once and first, anything else*)
(* after it.  (A session that cannot be written is connected all the same.)*)
Accepted(state, kind) ==
    IF kind \in {"initialize", "bare"} THEN state = "blank" ELSE state = "ready"

Handle(m, written) ==
    LET s    == SessionFor(m)
        kind == sent[m.number]
        ok   == Accepted(s.state, kind)
        made == session.state = "none" /\ stored = NoSession
    IN  /\ m \in posted
        /\ written \/ made
        /\ posted' = posted \ {m}
        /\ session' = IF ok THEN [s EXCEPT !.state = "ready"] ELSE s
        /\ stored' = IF made /\ written THEN s.context ELSE stored
        /\ answered' = IF ok /\ bridge = "open" THEN answered \cup {m.number} ELSE answered
        /\ failed' = IF ok THEN failed ELSE failed \cup {m.number}
        /\ UNCHANGED <<query, context, client, bridge, sent, mishaps>>

(* A post that does not arrive. *)
Lost(m) ==
    /\ m \in posted
    /\ mishaps < MaxMishaps
    /\ mishaps' = mishaps + 1
    /\ posted' = posted \ {m}
    /\ failed' = failed \cup {m.number}
    /\ UNCHANGED <<query, context, client, bridge, sent, session, stored, answered>>

(* The server restarts, or the stream breaks off: the transport is gone and*)
(* the record stays, or its time has come.                                 *)
Vanish(expired) ==
    /\ session.state # "none"
    /\ mishaps < MaxMishaps
    /\ mishaps' = mishaps + 1
    /\ session' = [state |-> "none", context |-> NoContext_]
    /\ stored' = IF expired THEN NoSession ELSE stored
    /\ UNCHANGED <<query, context, client, bridge, sent, posted, answered, failed>>

ProxyNext ==
    \/ StartBridge \/ CloseBridge
    \/ \E n \in 1 .. MaxMessages, kind \in Kinds : Read(n, kind)
    \/ \E m \in posted : Lost(m) \/ \E written \in BOOLEAN : Handle(m, written)
    \/ \E expired \in BOOLEAN : Vanish(expired)

ProxySpec == ProxyInit /\ [][ProxyNext]_proxyVars

-----------------------------------------------------------------------------
(* Properties *)

(* A session has the context of the proxy, and the client's name unless the*)
(* client gave none (stdioProxyTransport.ts:338-369), whichever message    *)
(* made it and however often it was restored; it has none only if the      *)
(* client sent a message without params, which may have made it.           *)
ContextIsProxys ==
    session.state # "none" =>
        \/ session.context = [context EXCEPT !.client = client]
        \/ /\ session.context = NoContext_
           /\ \E n \in 1 .. MaxMessages : sent[n] = "ping"

(* Refuted: a session of the proxy has its context.  A ping before the     *)
(* initialize makes the session without.                                   *)
SessionsHaveContext == session.state = "ready" => session.context # NoContext_

(* Refuted: while a client that initialized is connected, its session      *)
(* exists (streamableHttpRoutes.ts:122: "handles proxy use case").  The    *)
(* session that is made as a fallback is not initialized: every later call *)
(* fails, and the client is never told.                                    *)
InitializedIsServed ==
    (\E n \in answered : sent[n] \in {"initialize", "bare"}) => session.state # "blank"

(* Refuted: a session that answers calls was initialized.  One that a ping *)
(* made and that breaks off is restored as if it had been.                 *)
ReadyWasInitialized ==
    session.state = "ready" => \E n \in answered : sent[n] \in {"initialize", "bare"}
=============================================================================
