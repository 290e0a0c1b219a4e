---------------------------- MODULE SessionSetup ----------------------------
(***************************************************************************)
(* What a session is given when it connects: ServerManager.connectTransport*)
(* (core/server/serverManager.ts), the templates ConfigManager renders for *)
(* its context (config/configManager.ts, with the renderer of              *)
(* template/handlebarsTemplateRenderer.ts), and the instructions that      *)
(* InstructionAggregator collects from the servers' connections            *)
(* (core/instructions/instructionAggregator.ts, core/client/               *)
(* clientManager.ts).                                                      *)
(*                                                                         *)
(* Two fields are shared by all sessions over awaits: the templates of the *)
(* configuration data and the manager's cache of rendered ones.  A rendered*)
(* template is the version it was written in and the context it was        *)
(* rendered for; a server's text is the number of the connection it came   *)
(* from.                                                                   *)
(***************************************************************************)
EXTENDS Integers, FiniteSets

CONSTANTS
    Guests,        \* sessions
    Contexts,
    ContextOf,     \* session -> the context of its proxy
    NoContext,     \* when it comes without one
    FileTemplates,
    Wanted,        \* session -> templates its filter lets through
    Described,     \* static servers
    MaxEdits,      \* bound: changes of the file
    MaxLinks       \* bound: connections of a static server

ASSUME SetupConstants ==
    /\ NoContext \notin Contexts
    /\ ContextOf \in [Guests -> Contexts]
    /\ Wanted \in [Guests -> SUBSET FileTemplates]
    /\ MaxEdits \in Nat /\ MaxLinks \in Nat

VARIABLES
    written,   \* templates of the file -> version; 0 when it has no such
    readable,  \* whether the file is valid
    caching,   \* templateSettings.cacheContext
    edits,
    cache,     \* lastContextHash and processedTemplates
    loaded,    \* whether serverConfigData exists,
    shared,    \* and its mcpTemplates
    came,      \* the context a session came with
    stage,     \* where connectTransport of a session is
    result,    \* what loadConfigWithTemplates has for the session
    given,     \* the templates its instances are made from
    told,      \* the instructions of its server
    entry,     \* "connected", "down", "failed", or "absent" from outboundConns
    link,      \* the connection of that entry; 0 when it has none
    links,     \* connections so far
    open,      \* those whose client has not closed
    speaks,    \* connections whose server has instructions
    text       \* serverInstructions

sharedVars == <<written, readable, caching, edits, cache, loaded, shared>>
guestVars == <<came, stage, result, given, told>>
textVars == <<entry, link, links, open, speaks, text>>
setupVars == <<sharedVars, guestVars, textVars>>

Nothing == [t \in FileTemplates |-> [version |-> 0, context |-> NoContext]]
Silent == [s \in Described |-> 0]

SetupInit ==
    /\ written = [t \in FileTemplates |-> 1]
    /\ readable = TRUE
    /\ caching = TRUE
    /\ edits = 0
    /\ cache = [context |-> NoContext, templates |-> Nothing]
    /\ loaded = FALSE
    /\ shared = Nothing
    /\ came = [c \in Guests |-> NoContext]
    /\ stage = [c \in Guests |-> "away"]
    /\ result = [c \in Guests |-> Nothing]
    /\ given = [c \in Guests |-> Nothing]
    /\ told = [c \in Guests |-> Silent]
    /\ entry = [s \in Described |-> "absent"]
    /\ link = Silent
    /\ links = Silent
    /\ open = [s \in Described |-> {}]
    /\ speaks = [s \in Described |-> {}]
    /\ text = Silent

-----------------------------------------------------------------------------
(* Rendering. *)

(* renderTemplate: command, args, env, cwd, url and disabled of a copy, for *)
(* a context.                                                              *)
RenderTemplate(t, x) == [version |-> written[t], context |-> x]

(* processTemplates *)
Rendered(x) ==
    [t \in FileTemplates |-> IF written[t] = 0 THEN Nothing[t] ELSE RenderTemplate(t, x)]

(* Mutant of CacheHit: any context will do. *)
CacheFilled(x) == caching /\ cache.templates # Nothing

(* hashContext is one for one. *)
CacheHit(x) ==
    caching /\ cache.context = x /\ cache.templates # Nothing

(* loadConfigWithTemplates of a session's context, up to its first await: a*)
(* file that does not parse has no templates, nor has one without any.     *)
Reads(c, x) ==
    LET empty == ~readable \/ \A t \in FileTemplates : written[t] = 0
        hit   == ~empty /\ CacheHit(x)
    IN  /\ result' = [result EXCEPT ![c] = IF empty THEN Nothing
                                           ELSE IF hit THEN cache.templates ELSE Rendered(x)]
        /\ stage' = [stage EXCEPT ![c] = IF empty \/ hit THEN "read" ELSE "rendered"]

(* Without a context nothing is rendered, and no template server is made.  *)
Goes(c, x) ==
    IF x = NoContext
    THEN stage' = [stage EXCEPT ![c] = "connecting"] /\ UNCHANGED result
    ELSE Reads(c, x)

-----------------------------------------------------------------------------
(* Instructions. *)

(* generateTemplateVariables: the text of every server there is one of.    *)
Variables(servers) == [s \in Described |-> IF s \in servers THEN text[s] ELSE 0]

(* getFilteredInstructions: of connected servers (those the session's tags *)
(* match are taken to be all).  A template server's text is never stored.  *)
Instructions == Variables({s \in Described : entry[s] = "connected"})

(* Mutant of SetInstructions: a server without text leaves the old one. *)
SetSomeInstructions(s, i, some) ==
    text' = IF some THEN [text EXCEPT ![s] = i] ELSE text

(* setInstructions, after extractAndCacheInstructions. *)
SetInstructions(s, i, some) == text' = [text EXCEPT ![s] = IF some THEN i ELSE 0]

RemoveServer(s) == text' = [text EXCEPT ![s] = 0]

(* createClient, createSingleClient and completeOAuthAndReconnect: whatever*)
(* entry there was is replaced, its client is not closed.                  *)
Connects(s, some) ==
    LET i == links[s] + 1
    IN  /\ links[s] < MaxLinks
        /\ links' = [links EXCEPT ![s] = i]
        /\ link' = [link EXCEPT ![s] = i]
        /\ entry' = [entry EXCEPT ![s] = "connected"]
        /\ open' = [open EXCEPT ![s] = @ \cup {i}]
        /\ speaks' = [speaks EXCEPT ![s] = IF some THEN @ \cup {i} ELSE @]
        /\ SetInstructions(s, i, some)
        /\ UNCHANGED <<sharedVars, guestVars>>

(* Their failures, whether an authorization is missing or not: the entry is*)
(* replaced as well, the text of the one before stays.                     *)
ConnectFails(s) ==
    /\ entry' = [entry EXCEPT ![s] = "failed"]
    /\ link' = [link EXCEPT ![s] = 0]
    /\ UNCHANGED <<sharedVars, guestVars, links, open, speaks, text>>

(* createClients forgets every entry, before it connects the servers it is *)
(* given; texts and clients stay.                                          *)
Clears ==
    /\ entry' = [s \in Described |-> "absent"]
    /\ link' = Silent
    /\ UNCHANGED <<sharedVars, guestVars, links, open, speaks, text>>

(* stopServer forgets one, and closes its transport afterwards.            *)
Stops(s) ==
    /\ entry[s] # "absent"
    /\ entry' = [entry EXCEPT ![s] = "absent"]
    /\ link' = [link EXCEPT ![s] = 0]
    /\ UNCHANGED <<sharedVars, guestVars, links, open, speaks, text>>

(* restartOAuthFlow marks the entry, and closes its transport afterwards.  *)
RestartsOAuth(s) ==
    /\ entry[s] # "absent"
    /\ entry' = [entry EXCEPT ![s] = "down"]
    /\ UNCHANGED <<sharedVars, guestVars, link, links, open, speaks, text>>

(* What is known of a client that closes or is refused is the server's     *)
(* name; whatever entry has it is marked.                                  *)
MarksDown(s) ==
    /\ entry' = [entry EXCEPT ![s] = IF @ = "absent" THEN @ ELSE "down"]
    /\ RemoveServer(s)

(* onclose of a client. *)
Closes(s, i) ==
    /\ i \in open[s]
    /\ open' = [open EXCEPT ![s] = @ \ {i}]
    /\ MarksDown(s)
    /\ UNCHANGED <<sharedVars, guestVars, link, links, speaks>>

(* markAwaitingOAuth: a ping of some client was refused.                   *)
AwaitsOAuth(s) ==
    /\ open[s] # {}
    /\ MarksDown(s)
    /\ UNCHANGED <<sharedVars, guestVars, link, links, open, speaks>>

(* removeClient; a close that fails leaves the client open. *)
Removes(s, closed) ==
    /\ entry[s] # "absent"
    /\ entry' = [entry EXCEPT ![s] = "absent"]
    /\ link' = [link EXCEPT ![s] = 0]
    /\ open' = IF closed THEN [open EXCEPT ![s] = @ \ {link[s]}] ELSE open
    /\ RemoveServer(s)
    /\ UNCHANGED <<sharedVars, guestVars, links, speaks>>

-----------------------------------------------------------------------------
(* A session connects. *)

(* connectTransport up to its first await. *)
Arrives(c, x) ==
    /\ stage[c] = "away"
    /\ came' = [came EXCEPT ![c] = x]
    /\ told' = [told EXCEPT ![c] = Instructions]
    /\ IF loaded THEN Goes(c, x)
       ELSE stage' = [stage EXCEPT ![c] = "first"] /\ UNCHANGED result
    /\ UNCHANGED <<sharedVars, given, textVars>>

(* The first load is there, a second time for a session that came meanwhile*)
FirstLoad(c) ==
    /\ stage[c] = "first"
    /\ loaded' = TRUE
    /\ shared' = Nothing
    /\ Goes(c, came[c])
    /\ UNCHANGED <<written, readable, caching, edits, cache, came, given, told, textVars>>

(* processTemplates is awaited, and then stored. *)
Processed(c) ==
    /\ stage[c] = "rendered"
    /\ cache' = IF caching THEN [context |-> came[c], templates |-> result[c]] ELSE cache
    /\ stage' = [stage EXCEPT ![c] = "read"]
    /\ UNCHANGED <<written, readable, caching, edits, loaded, shared, came, result, given, told,
                   textVars>>

(* The session's templates become everybody's, and those that match are    *)
(* taken at once.                                                          *)
Takes(c) ==
    /\ stage[c] = "read"
    /\ shared' = result[c]
    /\ given' = [given EXCEPT ![c] = [t \in FileTemplates |->
                    IF t \in Wanted[c] THEN shared'[t] ELSE Nothing[t]]]
    /\ stage' = [stage EXCEPT ![c] = "connecting"]
    /\ UNCHANGED <<written, readable, caching, edits, cache, loaded, came, result, told, textVars>>

(* createTemplateBasedServers and the connection manager are done. *)
Served(c) ==
    /\ stage[c] = "connecting"
    /\ stage' = [stage EXCEPT ![c] = "served"]
    /\ UNCHANGED <<sharedVars, came, result, given, told, textVars>>

Leaves(c) ==
    /\ stage[c] = "served"
    /\ stage' = [stage EXCEPT ![c] = "away"]
    /\ came' = [came EXCEPT ![c] = NoContext]
    /\ result' = [result EXCEPT ![c] = Nothing]
    /\ given' = [given EXCEPT ![c] = Nothing]
    /\ told' = [told EXCEPT ![c] = Silent]
    /\ UNCHANGED <<sharedVars, textVars>>

(* The file: a template is changed, added or taken out, caching is set or  *)
(* not, a save is not valid, or is valid again.                            *)
Edits(t, version) ==
    /\ edits < MaxEdits
    /\ version \in {0, edits + 2}
    /\ edits' = edits + 1
    /\ written' = [written EXCEPT ![t] = version]
    /\ UNCHANGED <<readable, caching, cache, loaded, shared, guestVars, textVars>>

Uncaches ==
    /\ edits < MaxEdits
    /\ edits' = edits + 1
    /\ caching' = ~caching
    /\ UNCHANGED <<written, readable, cache, loaded, shared, guestVars, textVars>>

Breaks ==
    /\ edits < MaxEdits
    /\ edits' = edits + 1
    /\ readable' = ~readable
    /\ UNCHANGED <<written, caching, cache, loaded, shared, guestVars, textVars>>

GuestNext == \E c \in Guests :
    \/ \E x \in {ContextOf[c], NoContext} : Arrives(c, x)
    \/ FirstLoad(c) \/ Processed(c) \/ Takes(c) \/ Served(c) \/ Leaves(c)

FileNext == Breaks \/ Uncaches \/ \E t \in FileTemplates, v \in 0 .. MaxEdits + 1 : Edits(t, v)

TextNext == Clears \/ \E s \in Described :
    \/ \E b \in BOOLEAN : Connects(s, b) \/ Removes(s, b)
    \/ ConnectFails(s) \/ Stops(s) \/ RestartsOAuth(s) \/ AwaitsOAuth(s)
    \/ \E i \in open[s] : Closes(s, i)

SetupNext == GuestNext \/ FileNext \/ TextNext

SetupSpec == SetupInit /\ [][SetupNext]_setupVars

-----------------------------------------------------------------------------
(* Properties *)

(* Whatever other sessions connect meanwhile, and whatever is cached, the  *)
(* template servers of a session are rendered for its own context, and only*)
(* those its filter lets through (serverManager.ts:213-233).               *)
OwnRendering ==
    \A c \in Guests, t \in FileTemplates : given[c][t].version # 0 =>
        given[c][t].context = came[c] /\ t \in Wanted[c]

(* A cached rendering is the one of the context it is filed under.         *)
CacheIsOfItsContext ==
    \A t \in FileTemplates : cache.templates[t].version # 0 =>
        cache.templates[t].context = cache.context

(* However connections replace, fail and outlive each other, and whatever  *)
(* is forgotten, removed or refused in between: the text kept for a server *)
(* is that of the latest connection it had, whose client is still open, and*)
(* a connected server has no other connection's                            *)
(* (instructionAggregator.ts:60-95, clientManager.ts:103-112).             *)
TextIsOfLatest ==
    \A s \in Described : text[s] # 0 =>
        /\ text[s] = links[s] /\ text[s] \in speaks[s] \cap open[s]
        /\ entry[s] = "connected" => text[s] = link[s]

(* What the runs check of connecting sessions. *)
SetupIsOwn == OwnRendering /\ CacheIsOfItsContext /\ TextIsOfLatest

(* Refuted: a client that closes after its connection was replaced leaves  *)
(* the new one alone.  It removes the new one's text and marks it          *)
(* disconnected.                                                           *)
ReplacedClosesQuietly ==
    [][\A s \in Described, i \in 1 .. MaxLinks :
         i \in open[s] \ open'[s] /\ i # link[s]
            => text'[s] = text[s] /\ entry'[s] = entry[s]]_setupVars

(* Refuted: sessions learn of changed instructions.  The listener of       *)
(* instructions-changed only logs.                                         *)
InstructionsFollow ==
    \A c \in Guests : stage[c] = "served" => told[c] = Instructions

(* Refuted: a session that connects is given the templates of the file.    *)
(* With cacheContext the cache outlives edits.                             *)
TemplatesAreCurrent ==
    [][\A c \in Guests : (stage[c] = "away" /\ stage'[c] = "read" /\ readable) =>
        \A t \in FileTemplates : result'[c][t].version = written[t]]_setupVars
=============================================================================
