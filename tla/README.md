# 1mcp in TLA+

1mcp is an aggregating proxy for the Model Context Protocol: AI clients open
sessions with it, and it multiplexes them onto many upstream MCP servers. This
directory holds TLA+ modules translated from its TypeScript source
(`src/src/...`, paths below are relative to that), TLC configurations that check
them on small instances, and proofs checked by TLAPS.

Everything runs in one Node process. "Concurrency" here is therefore always the
same thing: callbacks run one at a time and to completion, and another callback
can run wherever a function awaits. In every module **one action is the code
from one await to the next**, and what a call keeps over an await (its
arguments, a configuration it read, an instance it found) is in a variable.

Contents: 1 inventory, 2 modules and code, 3 runs, 4 proofs, 5 where the code
disagrees with its documentation, 6 what is left out, 7 plan.

## 1. Inventory

### Modelled

| Component | State it keeps | Operations | What is hard | What makes it correct |
|---|---|---|---|---|
| Client-template tracker, `core/filtering/clientTemplateTracker.ts` | two maps for one relation, and a reference count per instance | addClientTemplate, removeClient, removeClientFromInstance, cleanupInstance; all synchronous | each method updates both maps; counts move on their own and one decrement is unguarded | the maps agree, the counts are exact, a departure reports exactly the instances it leaves vacant |
| Client instance pool, `core/server/clientInstancePool.ts` | instances by key, an index per template, a status and a count per instance, a timer | getOrCreateClientInstance, removeClientFromInstance, removeInstance, cleanupIdleInstances | check, await, store; mark, await, delete by key | limits, sharing only where it is allowed, nothing closed is handed out, idle instances are reclaimed |
| Template server manager, `core/server/templateServerManager.ts`, `serverManager.ts` | outbound connections and transports of template servers, the rendered hash per session; uses tracker and pool | createTemplateBasedServers, cleanupTemplateServers | four tables with four kinds of key must agree while connects of several sessions overlap | a session is routed to a server rendered for its context; tables hold what some session uses |
| Asynchronous loading, `core/loading/*`, `ClientManager.createSingleClient` | a state per server, a loader per server, abort controllers, connections in flight, retry intervals | load in batches, time out, retry with backoff, cancel, retry in the background, shut down | a timeout wins a race but does not end the connection; several loaders share a connection; closes, pings, reloads and OAuth flows change it behind the tracker's back | what is shown agrees with what is connected, as far as nobody else has touched it; loading comes to an end |
| Hot reload, `config/configChangeDetector.ts`, `core/configChangeHandler.ts`, `core/server/mcpServerLifecycleManager.ts`, `ClientManager.createClients` | the configuration, a table of servers, the shared map of outbound connections | detect changes; start, stop, restart, update metadata | a handler works over many awaits with an old configuration, beside other handlers; connections die, are retried or are made by others meanwhile; the map is cleared for one server | table, map and file agree on a server once its changes are handled; no connection of a handler is left behind |
| Streamable HTTP sessions, `transport/http/routes/streamableHttpRoutes.ts`, `utils/sessionService.ts`, `core/server/connectionManager.ts`, `domains/preset/services/presetNotificationService.ts` | connected transports by session, open streams, the session repository, preset clients in two maps | POST, GET, DELETE; create, restore, delete; a stream breaks off; restart of the process | requests of one session overlap in restore, create and delete | a session is routed to an open transport of its own; created sessions can be restored |
| Capabilities and notifications, `core/capabilities/*`, `core/notifications/notificationManager.ts` | the snapshot of all lists, a pending batch with its timer, what was collected of each connection | a server gets ready, fails, drops, is hot-reloaded; lists arrive; the timer fires; shutdown | an update asks one server after another over a map that changes, updates overlap, batches are re-armed | whatever a server brings is told; nothing is left pending |
| Listings, `core/protocol/requestHandlers.ts`, `utils/ui/pagination.ts` | none but the cursor the client holds | one page per request | cursors name servers of an earlier map | a walk sees all that was there all along, and ends |
| Configuration file, `config/configManager.ts`, `config/configLoader.ts`, `commands/mcp/*`, the editing tools of `core/tools/internal`, `commands/shared/baseConfigUtils.ts` | `mcp.json`, what the server runs with | read, suspend, read, write all of it; reload | other processes see a file half written and write back what they read | a server nobody named stays served; the file is followed |
| Applications, `commands/app/*`, `domains/backup/backupManager.ts`, `domains/discovery/*` | applications' files, backups as copy and metadata, a lock file | discover, consolidate, restore, list, verify and clean up backups | a kill or failure between any two steps; several files and formats; names by the second | what the application had is in its file or a backup; nothing is restored that was not there |
| Tag queries and presets, `domains/preset/*`, `commands/preset/*`, `utils/ui/interactiveSelector.ts` | `presets.json`, a copy of it per process, a selection | type a filter, create, edit, delete; watch and reload | four notations of one query; processes that save all they hold; reloads that overlap | a filter means what it says; clients are told; the file is followed |
| OAuth as a server, `auth/sdkOAuthServerProvider.ts`, `auth/storage/*` | requests, codes, tokens and registrations as files with expiry | authorize, approve, deny, exchange, clean up | exchanges overlap, files are written one by one, everything expires | one token per consent, none after a denial |
| Requests by name, `core/protocol/requestHandlers.ts`, `utils/core/parsing.ts` | none | call, read, prompt, complete | a name is taken apart at a separator that may occur in it; instances come and go | what is listed can be called and reaches who listed it |
| Filters of a request, `transport/http/middlewares/*`, `core/filtering/*` | an index over the templates | read a request's filter, select servers, select templates | three evaluators of one filter, with scopes and spellings | they agree |
| Built-in tools, `core/tools/internal/*`, `core/capabilities/internalCapabilitiesProvider.ts`, `domains/server-management/*` | none; they edit `mcp.json` | fourteen tools | await the registry, then edit what others edit too | an answer is true of the file |
| Registry client, `domains/registry/*` | a cache by question | look up, page, evict, clean up | answers overtake each other | nobody is told what is older than its time to live |
| Session store, `transport/http/storage/*`, `auth/storage/fileStorageService.ts` | sessions in memory, counters, a dirty set, files | create, use, restore, flush, clean up, delete, shut down | memory and files expire apart; writes fail; the process ends | what is used can be restored, what was deleted cannot |
| Availability and health, `transport/http/middlewares/mcpAvailabilityMiddleware.ts`, `application/services/healthService.ts`, `transport/http/routes/healthRoutes.ts` | none | admit a request, answer for health | three views of servers that load | what is let through is served |
| Session setup, `core/server/serverManager.ts`, `config/configManager.ts`, `template/*`, `core/instructions/*` | rendered templates, their cache, the texts of servers | connect, render, describe | two fields shared by all sessions over awaits | a session gets what is rendered for its own context |
| Restartable stdio, `transport/restartableStdioTransport.ts`, `core/client/connectionHandler.ts` | one process, flags, a counter, a timer | start, exit, restart, close | callers start and close one transport again and again; closing takes a while | a process that exits is restarted, within the limit |
| Server discovery, `core/server/pidFileManager.ts`, `utils/validation/urlDetection.ts`, `commands/proxy/proxy.ts`, `commands/serve/serve.ts` | a pid file per directory | start, stop, kill; read, probe, scan | processes race for a file and a port | only a kill leaves a stale file; a server that is there is found |
| Proxy, `transport/stdioProxyTransport.ts`, `transport/http/utils/contextExtractor.ts` | the proxy's context and its client's name | forward, enrich, make or restore a session | messages arrive in any order or not at all | a session has its proxy's context |
| Child environments, `config/envProcessor.ts`, `config/configLoader.ts`, `transport/transportFactory.ts` | none | substitute, filter, merge; make a transport | three ways to start a server, one of which computes twice | a process has the documented environment |
| OAuth as a client, `transport/http/routes/oauthRoutes.ts`, `auth/sdkOAuthClientProvider.ts`, `core/client/*` | tokens, verifier and URL of the provider; the entry and transport of the server; pings | authorize, restart, callback, connect with retries, ping | a 401 begins a flow or is a refresh that was refused; visits, pings and retries share one transport and one provider | a restart heals; the last link connects |
| Installation wizard, `commands/mcp/install.ts`, `commands/mcp/utils/installWizard.ts`, `commands/mcp/wizard/*`, `domains/server-management/serverInstallationService.ts` | the answers so far, the names taken when a round began | ask, go back, cancel, come round again; back up, remove, ask the registry, write | minutes pass between the look at the file and the write; what was agreed to for one name meets another | an entry is lost only if the user agreed to that very name |

How they interact: a request reaches the session routes; a session without a
transport is created or restored, which calls `ServerManager.connectTransport`;
that creates the session's template servers (template server manager, tracker,
pool) and then enters the transport (`ConnectionManager`). A closed session runs
the same chain backwards. Statically configured servers are connected at boot
(`ClientManager` directly, or the loading manager when asynchronous loading is
on), and from then on started and stopped by hot reload. All parts share one map
of outbound connections, by which the request handlers route. Sessions are
listed what that map holds, through the capabilities collected when they
connected and the filter or preset they came with, and call it by the listed
name; changes of the map lead to snapshots and list-changed notifications. The
configuration file, the preset file and the application files are edited by
other processes, which the server learns of by watching them only. A stdio
client reaches a server through a proxy, a process of its own, which finds it by
pid file or port.

### Not modelled

| Component | Why |
|---|---|
| SSE, `transport/http/routes/sseRoutes.ts` | deprecated; its connect and disconnect are those of InboundSessions without restoration |
| Template configuration manager, `core/server/templateConfigurationManager.ts` | it runs when the global context changes, and nothing in the program calls `updateContext` |
| Filter cache, `core/filtering/filterCache.ts` | no decision of the program depends on what it holds: statistics and tests read it |
| `core/tools/handlers/serverManagementHandler.ts` | only its tests import it |
| HTTP wiring and rate limits, argument parsing, read-only commands and their output, context holders, logging, validation, utilities | text processing, one-shot input and output or wiring, without state whose order of changes matters |

`PROJECT.json` lists the hazards of this code, each at its line, with the
properties aimed at it.

## 2. Modules and the code they model

`PROJECT.json`, "map", gives the lines of every definition. Operators named
`Mutant of X` in their comment are variants of `X` with a plausible bug; they
are used by no specification, and each property is violated when one takes the
place of the original.

**ClientRegistry** is the abstract specification of the tracker: the set of
known instances and one relation `uses`.

**ClientTemplateTracker** has one action per method, as none awaits. `templateInstances`
and `clientRelationships` are the two maps; an empty set stands for a missing
entry of the second. `InstancesToCleanup` is what `removeClient` returns.

**ClientInstancePool** has the pool's state and one action per stretch between
awaits: `GetExisting`, `LimitReached` and `BeginCreate` are the three ways
`getOrCreateClientInstance` begins, `FinishCreate` and `FailCreate` its
continuations; `CleanupIdleInstances` is a tick of the timer, which marks every
instance it removes before its first await, and `FinishRemove` what follows
`close()`. Calls suspended in between are in `creating` and `closing`. A
rendered configuration is its hash, an instance id the counter that makes the
real id unique, and time the flag `expired`.

**PoolClients** composes the pool with callers that use it as its interface
intends: ask, keep the instance, give it back once under the key it was given for.

**TemplateServers** composes the pool and an instance of the tracker with the
tables of the template server manager, as sessions drive them. A connect is a
task that walks the matching templates (`tasks[r].next`), suspended while its
call is in `creating`; `Register` is what `createTemplateBasedServers` records
for each; `Disconnect` is `cleanupTemplateServers`, which has no await. Its
release calls the pool under the key the code really passes (`PoolKeyUsed`).

**McpLoading** has the state a server is shown in (`state`), where its loader
stands (`loader`: waiting for its batch, in an attempt, rejected, in backoff,
done), and the connection itself (`connection`: the semaphore's entry and its
abort signal). `ConnectSucceeds` and `ConnectFails` act on a connection with or
without a loader that awaits it: losing the race with the timeout leaves it
running. `HandleRejection` is the catch block; it runs as a microtask, so no
other action is enabled while it is (`MicrotasksDone`). Every state update that
leaves the loading complete starts one more retry interval, as the event handler
does. `Others` is everybody else who uses the map: `Writes` covers `onclose`, a
refused ping, a cleared map, a removal and the end of a restarted flow, with any
status at any time; `Begins` is a connection of theirs, which loaders may join;
`OAuthCallback` is the one that tells the tracker. `touched` is for the properties:
the servers whose entry was last written by others.

**ServerLifecycle** has a list of `handlers`, each with the changes it has left,
the configuration it read and the place it awaits at. `Save` is a saved file
with the changes the detector can report for it (`Edits`: the fields of the
old entry that were taken out are in no list); it may come while handlers are at
work. The configuration a handler reads has no disabled servers (`InNewConfig`), so
that a change of one that was disabled throws and is skipped (`Decision`,
`HandleSkip`). `HandleMetadata`, `HandleStart`, `HandleStop`, `FinishStop`,
`ConnectEnds` and `ConnectsByRetry` are the stretches of a handler; `TransportDies`
is a connection lost at any time, with the `onclose` that marks the map's entry by
name; `OthersBegin` and `OthersEnd` are an OAuth flow or a reload of one server
that connects it on its own. `outbound` is the one map all parts share: `Start`
clears it as `createClients` does. `contested` and `missed` are for the properties:
servers changed again while a change of them was handled, and changes no handler
acts on.

**InboundSessions** has one *attempt* per transport made. `PostNew`, `Request`,
`GetStream` and `DeleteConnected` are the ways a request begins; `Connected`,
`ConnectedToDelete` and `Fails` continue it after the await in
`ServerManager.connectTransport`. `StreamDrops` is the close event of a GET
response, `NotificationFails` the failure path of `notifyPresetChange`,
`Restart` the end of the process and its next start: memory is lost, and so are
the sessions whose file expired or was never written.

**SessionRouting** is what sessions and the outbound map make of each other: the
map in its order (`order`, `status`), what `setupCapabilities` wrote into its
records (`collected`), whose notification handlers a connection has (`handler`,
`target`), and what a session is listed (`Listed`: template servers of its own,
capabilities, connected, selected by its filter). `HotStart` is a server started
by hot reload, which clears the map.

**CapabilityUpdates** extends it with the orchestrator, the aggregator and the
notification managers. `updates` holds the suspended walks over the map: each
knows the snapshot it started from, the position it has reached and what it has
seen; `Lists` is the answer of one server and the walk on to the next. `owed` is
for the properties: the kinds of which something new was brought, and not told.

**Pagination** extends SessionRouting with one walk per session: the cursor in
the client's hand, then the names and the server a request holds over its await.
`stable` is for the properties: servers listed all along, ahead of any template
server.

**ConfigFile** has `mcp.json` (whole, empty or garbled), what the server serves
(`served`), and one editing process each in `procs`. A command begins by looking
at the file (`Begins`, one action per command or tool, each with its own
condition and effect), suspends (`Fetched`, `Abandon`), and then runs
`setServer` or `removeServer`: `Load`, `Truncate`, `Write`. `Reload` is the
debounced watcher.

**AppConsolidation** extends it with the app commands: `Consolidate` to `Unlock`
are `consolidateApp` from its backup to the release of the lock, `Restore` and
its two steps `restoreSpecificApp`. `Kill` ends any process at any step.

**TagQueries** is the filter's text as tokens, the recursive descent
(`ParseOr` ... `ParseAtom`), the expression tree, the JSON query and its
evaluator, and the three states per tag of the selection. `Readings` is the
reference definition: all values a filter has, symbol by symbol as it was typed, by
the documented operators, independently of tokenizer and parser. A dash is NOT in
it; `WithExclusions` writes out the documented dash after a tag or a group. It has
RECURSIVE operators, so nothing is proved about it.

**PresetFiles** has the processes of preset commands and the server. What a query is
made from and whom it selects are parameters of it (`QueryOfText`, `ServersOf`, ...),
for which the run has the operators of TagQueries. `Type` composes the filter of the
first `preset create`, `Edit`, `Press`, `Enter`, `Back` and `Quit` are the selector,
`Truncate` and `Write` a save. `Watch` sets the server's debounce timer and stops
the one it has a reference to (`held`); the end of a reload drops that reference,
so that two may be set and fire one after the other. `Fire`, `Read` and `Reload` are
a reload in its three stretches, of which several may be under way; `Reconfigure`
changes the servers a preset selects from. `told` are the lists clients were last
told; `moved` and `behind` are for the properties: the presets whose list has
changed under a reload, and those of them whose clients were not told since.

**RequestFilters** extends both with what a request asks for: `TagsRequest`,
`PresetRequest`, `ExpressionRequest` and `DefaultRequest` are what the middlewares
make of it, `ServerSelected` the filter of connected servers, `TemplateFilter` that
of templates, `FoundByIndex` the index over the templates.

**RequestDispatch** has names as sequences of symbols, in which the separator can
occur: `SplitAtLast` and `SplitAt` are the two ways the code takes a name apart,
`ForSession` and `ResolveByHash` the connections a name can stand for, `CallTool`
and its siblings the handlers.

**InternalTools** has one action per tool; those that await the registry or the
check of a URL have a second one (`Edited`, `Installed`, `Updated`, ...), up to
which others may edit the file (`Outside`). `answer` is what was last answered.

**RegistryClient** reduces an answer to the time at which the registry was as it
says (`asOf`), so that age can be stated. `AnswerPage` and `Arrive` answer, `NextPage`
is the next of several requests, `Set` the store with its eviction.

**SessionStore** has a clock that counts flushes, what is in memory and in files
as the time it expires, the dirty set, and failures of single writes. `Tick` is the
flush, `Crash` and `Shutdown` the two ways the process ends.

**ServerStatus** extends McpLoading with three readers of its states: `Verdict` is
the availability middleware, `OverallHealth` and the codes are the health routes.

**SessionSetup** has the configuration's templates by version (`written`), the cache
and the field shared by all sessions, and per session where `connectTransport`
stands. A server's text is the number of the connection it came from, as that is
what a late `onclose` confuses; `entry` and `link` are what the outbound map has of
the server, which `Connects`, `ConnectFails`, `Clears`, `Stops`, `RestartsOAuth`,
`MarksDown`, `Closes`, `AwaitsOAuth` and `Removes` change, each as its caller does.

**RestartableStdio** has the child processes one by one; `caller` is
`connectWithRetry` and then the user of its client. `Close` and `Start` are the
transport's own, `Exits`, `Spawned` and `SpawnFails` the process's events.

**ServerDiscovery** has servers and proxies as processes of an operating system, a
pid file per directory, a listener per port. `Check` and `Scan` are stretches of a
proxy's search; `steady` is for the properties: the servers it could find all along.

**ProxyForwarding** follows the messages of one client: read and enhanced (`Read`),
posted in any order or lost, handled by a server whose session may have vanished
(`Handle`, with what the route makes, restores or refuses).

**ChildEnvironment** computes a process's environment from the parent's, the entry
and the filter, for the three ways a server is started (`Starts`);
`ProcessServerConfig` is the second computation a reload makes, `AtSpawn` what the
SDK's transport (1.25.2) adds when it starts the process: its default variables,
under those it is given. `Documented` is the reference definition.

**AppBackups** has applications with files in several places and formats, and one
command at a time in steps between which it may be killed; a backup is two files,
its copy and its metadata. AppConsolidation has the overlapping commands.

**OAuthServer** has the files there are and those expired, and for the properties
what each was made from (`owner`, `origin`, `grantOf`) and which requests were
denied. A handler of the token endpoint suspends once (`exchanging`). `Kill` may
come between the two file operations of an approval or of an exchange.

**UpstreamOAuth** has one upstream server: the provider, the entry of the outbound
map, the connection under way (`semaphore`, which later callers join), live
clients, the pinger and pings in flight, and the dashboard's requests (`visit`).
`Rejects` is a 401 as the SDK takes it: it begins a flow, or, with tokens there, is
refused their refresh and begins none. A flow is a number; `alone` is for the
properties: the request that had the server to itself all along.

**InstallWizard** has one action per prompt (`AskName`, `ConflictAction`, `Confirm`,
...), each with its ways back, and then `Install` and `Installed`, the stretches
before and after the registry is asked; `BackupFails` and `InstallFails` are
their error paths. `OthersWrite` is another command, at any prompt. `agreed` and
`since` are for the properties: the name the user last chose to override, and
what others wrote while the registry was asked.

The modules named `MC...` give the constants their values together with the
`.cfg` files; PoolClients is checked as it is. `MCOAuth`, `MCSessions`, `MCConfig`, `MCCalls` and `MCProcesses` join
modules that share no state as a choice made once (`side`): a run is then the
union of the runs of its modules.
Every constant whose comment says "bound" exists for the models only.

## 3. Runs

Sizes are distinct states. Deadlock is not checked in runs that may end because a
bound is reached or everything has been shut down. State graphs of the liveness
runs are complete.

| Run | States | Instance, and why it is large enough |
|---|---|---|
| `pool` | 227,091 | 2 clients, 2 concurrent requests, 2 hashes; three templates: shareable, shareable and perClient, not shareable; limits 1 per template and 2 in all; 3 creations. Two requests suffice for check-await-store to overlap, three creations for an instance to displace another and a third to come after it. |
| `templates` | 457,260 | 3 sessions, 2 in one context and 1 in another, one shareable and one unshareable template, 2 requests (so that one session may also connect twice at once), 2 instances per template, 3 creations. Requests are interchangeable (symmetry). |
| `loading` | 147,504 | 2 servers in 2 batches of one, 1 retry, 1 interval, background retries, cancellation, shutdown and others' writes, connects and callbacks at any time. One server has both tags, the other one of them, a template server the other. One interval is enough for background retries to meet loaders, a second one only repeats it. |
| `lifecycle` | 3,083,192 | 2 servers, one of them connected at boot, the other reached over HTTP; 2 saves of up to 2 changes, whose 2 handlers overlap at every await; 1 connection made by others; connections that die at any time. Two servers are the one that changes and the one that should not notice, two handlers the older and the newer. |
| `sessions` | 1,376,250 | requests: 2 sessions, one with a preset, 4 transports, 2 overlapping attempts per session, restarts; overlap of two is where a check made before the await goes stale. store: 2 ids, one of which has no path, 8 flushes, a time to live of 4, 2 faults: long enough to lapse, come back and lapse again. tracker: 3 clients, 3 instances: a first, a middle and a last departure, an instance to keep, one to lose, one never used. setup: 2 sessions of different contexts or of none, 1 template, 1 static server with 2 connections, which fail, are cleared, stopped, marked down, closed and removed in any order, 1 edit. |
| `updates` | 274,126 | 2 servers with a tool of the same name and a prompt of one, so that deduplication, disabled items and a kind of its own occur; 1 session that comes and goes, 1 hot reload. Two servers suffice for updates to overlap and for the map to change under one. |
| `listing` | 239,956 | 2 static servers, one of two pages, and the template server of one session; a second session that comes and goes; 4 changes or failures during the walks. |
| `calls` | 1,134,806 | server: names of up to 4 symbols in all, out of a letter, `_`, `1mcp` and a space: enough for a separator in the server's or the item's name and for parts of one at the seam; every set of keys the name can have. own: 2 servers, 2 calls at once, 2 answers, 1 edit by others. registry: 2 callers, 3 questions for 2 places in the cache, one of them of two pages, 5 units of time. |
| `config` | 214,371 | file: 2 servers, 2 processes, 2 commands, 1 application, 2 kills or failures, 1 second; one server is never named, one is edited; two processes overlap at every access. backups: 2 applications in 2 installations (one where they share a file, one without), 2 files, 3 contents, 2 changes, 3 commands, 2 seconds, 1 kill: consolidate, again or of the other, restore. |
| `presets` | 375,563 | 2 tags, servers with either and both, 2 presets, 2 editing processes, every filter of up to 5 symbols, 1 key pressed, 2 timers, 2 reloads at once, one change of the configuration; 5 symbols give both operators, a negation and a pair of parentheses. Of the typed filters `preset create` saves one (`Followed`), a negation, which a first preset with two selected tags differs from in everything the selector can change. Every request and every set of scopes is evaluated in each state. |
| `oauth` | 1,492,648 | server side: 1 app, 2 requests, 2 codes, 2 tokens, 2 handlers. Client side: 2 visits, 3 flows, 5 transports, 2 tries, 2 faults (failed connect, revocation, restart of the process). A second request or flow is what a first can be confused with. Wizard: 2 servers of the registry, the id of one within that of the other, 2 names, 2 rounds, 1 write by others: a second name, or a second round, is what an agreement can be carried over to. |
| `processes` | 708,151 | discovery: 3 servers in 2 directories on 2 ports, so that two share a directory and two a port, 2 proxies, 1 request a live server does not answer. restart: 2 restarts, 3 attempts, 9 processes. forwarding: 3 messages, 2 mishaps. environment: 2 variables, one a default of the SDK; filters of up to 2 patterns; every value of parent and entry. |

What the passing runs show:

- `pool`: `BookkeepingExact` (the index the limits count, the counts and the status
  survive overwrites and late removals), `InstancesAreRight` (nothing closed or
  rendered for another key is stored, nothing is shared against the template),
  `OverrunBounded` (overlapping requests are the only way past the limit and exceed it
  by less than their number), and `IdleIsReclaimed` (liveness: an idle instance is
  closed, used or displaced).
- `templates`: `SessionsFitInstances` (tracker and pool agree on who uses what; no
  session is routed to another context's server), `EntriesAreUsed` (the last
  departure takes outbound entries and transports away; its part about outbound
  entries needs a session to render alike in all its connects).
- `loading`: `StatusIsTrue` (what is shown ready is connected, whatever stale attempts
  do later, until others write to its entry; who is let through is served; no more
  loaders are at work than configured),
  `AdmittedStaysAdmitted` (what was let pass once is never refused later, if the
  loaders of the servers it is let through to are done), and
  `LoadingSettles` (liveness: every server leaves pending and loading even if
  nothing ever answers).
- `lifecycle`: `ServersFollowFile` (once a server's changes have been handled it is in
  the table only if the file enables it, on a transport of its present entry; what
  the handlers have made live or routed is what `stopServer` would close; an entry
  shown disconnected has ended), and `RemovedServersStop` (a server that is gone
  from the file has no route over a transport a handler made), with another handler
  at work beside. Section 5 has what they leave out: what was connected at boot or by
  others, disabled servers, and changes the detector tells wrongly.
- `sessions`: `SessionsAreConnected` (routed transports and the targets of preset
  notices are open and of their session), `CreatedIsPersisted`; `StoreIsFaithful` (a
  session that was just used survives every crash, fault and cleanup that is not
  allowed to lose it; a deleted one never comes back); `RelationIsCounted`,
  `ReportExact` (a departure reports exactly the instances that lose their last
  client) and `ImplementsRegistry` (refinement) of the tracker; `SetupIsOwn` (a
  session starts what was rendered for its own context, though the renderings go
  through fields shared over awaits; a server's text is that of its connection, or of
  none, however connects, failures and closes follow each other).
- `updates`: `BroughtIsTold` (liveness: a kind of which a server brought something
  new is told, though the update that saw it may report against an old snapshot)
  and `QuietOwesNothing` (no batch without a timer, nothing owed at rest).
- `listing`: `WalkComplete` (a walk misses nothing that was there all along) and
  `WalkEnds` (liveness: the fallback to the first server cannot go on for ever).
- `calls`: `ListedIsCallable` (a listed name reaches the server that listed it, or
  fails because that is gone; plain server names are exactly those for which names
  are taken apart rightly), `AnswersAreTrue` (a tool's success has happened, its
  failure has changed nothing, no server was overwritten that it was not to
  touch), `AnswersAreRecent` (no answer is older than its time to live and its
  requests allow, however requests overtake each other; the cache keeps its size).
- `config`: `UntouchedStaysServed` (torn files, lost updates and kills never take
  away a server no command named), `ServesTheFile` (liveness), `AppsAreSafe` (what
  an application had is in its file or a backup; the lock excludes),
  `BackupsAreSound` (a restore puts into a file only what was once backed up from
  it; `app restore` undoes the last consolidation unless a backup was overwritten in
  the same second, cleaned up, or made since).
- `presets`: `QueriesKeepMeaning` (tokenizer, parser, tree and JSON query against the
  reference definition, for filters whose dashes are at the beginning or after an
  operator or an opening parenthesis; the selector's round trip), `FiltersAgree` (the
  filters of servers and of templates and the index make the same of every request),
  `ToldIsCurrent` (clients were told the list their preset has, unless it changed
  behind the back of a reload) and `ServerFollowsFile` (liveness).
- `oauth`: `ConsentIsKept` (one token per consent, none after a denial),
  `AttemptsConnect` (whatever overlapping visits, late pings and failures left behind,
  a visit alone with the server ends with a connection, with a link that works, or
  without the grant that was refused to it; the code of the newest flow connects) and `WizardAsksFirst` (an entry is lost to the
  wizard only if the user agreed to override that very name, a copy of it was made
  and it was no dry run, or others wrote it after the last look at the file).
- `processes`: `DiscoveryIsSound` (a stale pid file is left by a kill only; a proxy
  that gives up missed no server that was there all along and answered),
  `RestartsAreSound` (a process that exits is restarted unless closed or at the
  limit; the one before has ended), `ContextIsProxys` (a session has its proxy's
  context whichever message made it, unless one without params did),
  `EnvironmentIsRight` (every way to start a server spawns it with the documented
  environment, and with the SDK's defaults that the filter denies).

**Fairness.** `pool`: an idle timeout elapses, the interval timer ticks, `close()`
returns; nothing is assumed of clients or of connects. Weak fairness is enough,
as only the awaited event itself, or the reuse the property allows, disables
these. `loading`: the catch block runs (weak); the executor's next item, an
attempt's timeout and the end of a backoff run when due. These three are
disabled for a moment whenever a microtask is pending, so the event loop's
promise to run a due callback is strong fairness. A connection need never answer.
`updates`: batch timers fire and a request to a server is answered, or timed out
by the SDK (weak). `listing`: servers answer and the client asks for the next page.
`config` and `presets`: events of a file arrive, the debounce timer fires and the
read comes back (weak; nothing disables these for good, and no editor is obliged to
finish). A `side` of a joined run has only its own fairness. The other modules state safety only: nothing in the code promises that a client
comes back or that a file is saved.

## 4. Proofs

`TLAPS` checks the theorems for every value of the constants. Each proof module
holds several parts, one per model, with the inductive invariant at its head, a
lemma per action, and the theorems at its end; the one short proof about presets is
in its model.

**Assumptions.** Those in `ASSUME` of the models, which TLC evaluates in the runs:
clients and requests of the pool and tracker, applications, and the servers of a
configuration file are finite sets (`FiniteClients`, `PoolConstants`,
`BackupConstants`, `LifecycleConstants`); limits are numbers, positive
where the code divides by them or counts up to them; the order of the servers
numbers them from 1
(`LoadingConstants`); the ids of apps, requests, codes and tokens differ, as the
code's prefixes make them (`IssuerConstants`); templates are servers
(`ConfigConstants`); the words for a reload and for no batch or key are no keys or
kinds (`UpdateConstants`, `PaginationConstants`); no server is named by the empty
name, since an emptied answer means the derived one (`WizardConstants`); a preset
that is not there selects nothing, and the server is none of the processes that
edit presets (`PresetConstants`). The
bounds of the runs are parameters, so the theorems hold for all of them. One theorem
has a hypothesis, `EntriesStayUsed`, see below.

**`Pools_proofs`: pool and template servers.** Each operation of the pool, whoever
calls it, keeps `PoolInv`.
`StoredInstanceFits` needs more than itself, since `FinishRemove` closes the
instance it was started for but deletes whatever its key names by then:
`KeyIsUnique` says that no other key names the closed instance, `ClosingFits`
that the index edited is the right one. `NoUnwantedSharing` needs `OwnersOnly`:
under a client's own key is an instance of that client. `SameStoreInv` covers at
once every operation that neither stores nor removes; `FinishCreate` and
`FinishRemove` have lemmas of their own, and `AddKeeps`, `DropKeeps` and
`MarkKeeps` say what an update does to one instance. `BookkeepingStaysExact` and
`InstancesStayRight` are what the run checks. `OverrunStaysBounded` is an argument
about sizes: the limit check sees every open instance, because one stored as
terminating is being closed (`OverrunInv`); what it lets pass leaves room for this
call and one of every other request, and no more calls are suspended than there
are requests (`CallsBounded`); from there on an instance becomes open only where
a call was on its way (`FinishKeepsBound`).

The template server manager changes pool, tracker, hash table and outbound map
each at another await. `ServersInv` relates them through the call under way (`CallsOK`):
until it returns, its session may be in the pool and not yet in the tracker
(`UseIsRight`). `SessionsStayFit` and `TransportsStayUsed` need nothing more. That
an outbound entry is used as well is false of a session that renders a template anew
(section 5); `EntriesStayUsed` proves all of `EntriesAreUsed` under
`RendersSteadily`, which every session fulfils whose context does not change, as in
the run.

**`Sessions_proofs`: tracker, sessions, store, setup.**

- Tracker: `TrackerInv` is types, `RelationSymmetric` and `RefCountExact`, none
  inductive alone. `RemoveClient` decrements the count of every key in the
  client's own list without a look at the client set, so exactness needs
  symmetry; `CleanupInstance` walks the client set to edit the other map, so symmetry
  needs the types. `RelationStaysCounted`, the action property
  `RemovalReportsExactly` and the refinement `TrackerImplementsRegistry` follow:
  each step is one of the registry, or a stutter, under `Usage`.
- Sessions: `SessionsInv` joins the types with three invariants that depend on each
  other: `DisconnectTransport` keeps `clientsByPreset` right only because a client
  belongs to one session (`RoutedIsOpen`) and because a session that is not
  connected has none (`PresetClientsAreConnected`). `SessionsStayConnected`,
  `CreatedStaysPersisted`.
- Store: `StoreInv` says what memory holds of a session (`MemoryHolds`), that the
  access times of file, dirty set and tracking follow each other
  (`AccessesFollow`), and that what is neither dirty nor being flushed is written
  (`WrittenIsStored`). A crash takes memory away, and what is left is still
  recent enough for the session to be restored: `StoreStaysFaithful`.
- Setup: `SetupInv` says whose rendering a session holds at each stage
  (`ResultIsOwn`), which survives the awaits because nothing a session reads
  after one is shared. A text is set by a connection that succeeds, and only the
  latest one can be shown connected (`ConnectedIsLatest`): `SetupStaysOwn`.

**`Connections_proofs`: loading, restarts, forwarding, OAuth, built-in tools.**

- Loading: `StatusIsTrue` is not inductive: a stale attempt could undo what is shown.
  `LoadingInv` adds that, of the servers others have left alone, only who is done is
  shown as an outcome (`ShownIsSettled`), that a loader refused for want of an
  authorization has ended its connection (`RejectedByOAuth`), and that the
  loaders of a batch start when those of the batches before are done
  (`EarlierAreDone`; `BatchNumbers` is the arithmetic of division it takes). What
  others do is one lemma (`OthersInv`): they touch what they write, and the callback
  alone changes what is shown.
  `StatusStaysTrue`, and the action property `AdmittedStayAdmitted`.
- Restarts: `OneProcess` says which processes may be alive at all, `RestartsCounted`
  that the handle is that of the one timer and that every process but the first
  is one of the counted restarts: `RestartsStaySound`.
- Forwarding: the context can come from the first message or from the store, so
  `ForwardingInv` says of every message on its way, every session and every
  stored record that its context is the proxy's (`ContextsAreProxys`), and that
  the client introduces itself first (`StartedFirst`, `InOrder`): `ContextStaysProxys`.
- Consent: who knows a code shows that its request is closed (`KnownIsFinal`), a token that
  its code is gone (`GrantIsFinal`), a denial that no code can come
  (`DenialIsFinal`). `FilesGoInv` covers expiry, cleanup and crash at once, as
  they only take files away: `ConsentStaysKept`.
- OAuth as a client: in `UpstreamInv` the verifier is that of the flow begun last,
  whoever began it (`ProviderFits`), also after a refresh that was refused, the URL
  is of that flow if there is one, and a callback that had the server to
  itself reconnects with a grant that is still good. A step after which nobody is
  alone promises nothing (`NobodyAloneInv`), which covers most of the interference;
  what is left are the steps of the lone visit itself: `AttemptsStayConnecting`.
- Built-in tools: `ToolsInv` says what a call goes on with after its await, by the
  tool it is in (`CallIsSound`), and that a tool switched off never comes to one.
  `OutcomeIsTrue` relates what an edit does to the file, as it is by then, and what
  the tool may answer; it is shown of each edit once and cited by every handler
  that makes it: `AnswersStayTrue`.

**`Lookups_proofs`: updates, listings, discovery, environment, registry, names.**

- Updates: `OwedIsComing` says where an item owed is: in the pending batch, or ahead
  of the update under way, which the loading of its server started. That
  update asks the server now, has it before it in the map, or has its lists
  already (`Brings`); `WalkInv` says what a walk over the map may rely on while
  other handlers change it. At rest neither is the case: `QuietStaysOwingNothing`.
- Listings: of the servers that were there all along, those before the cursor have
  been seen, and of the cursor's own server the pages before its page
  (`SeenSoFar`). The names a request holds over an await keep their places, as the
  map only grows (`HoldsPlaces`); where a hot start empties it, nothing
  was there all along any more. `NextFacts` and `GoesTo` say which server and page
  the next cursor names: `WalksStayComplete`.
- Discovery: `SteadyIsAhead` is the loop invariant of the port scan: a server that
  was there all along listens on a port yet to be tried. `NamedIsOwn` says a pid
  file names a server of its directory: `DiscoveryStaysSound`.
- Environment: `FilterIsDocumented` and `ComputedIsDocumented` are lemmas about the
  operators: filter, defaults, inheritance and substitution in the code's order
  give the documented value of each variable, for any patterns. A reload computes the
  environment twice, so a second computation must change nothing; the spawning adds
  only defaults that are not in it: `EnvironmentStaysRight`.
- Registry: an answer can be as old as its requests took, a cached one as old as its
  time to live on top (`LookupsInTime`, `EntriesKept`); `CacheIsSmall` counts what
  eviction leaves: `AnswersStayRecent`.
- Names: what a listing puts together with `buildUri` comes apart in `parseUri` as it
  was exactly if the first separator in it is the one put in. `PlainNames` shows
  that this is so if and only if `Plain` holds of the server's name, whatever the item
  is called and however long both are: a separator that begins before the one put
  in begins in the server's name or overlaps it from there. `CutFacts`, `MinMaxFacts`
  and `TrimFacts` say where `SplitAt` cuts and what trimming takes away.
  `DispatchInv` adds that what was listed stands for the one server and item, under
  any of the three keys its connection may have, and that a call is of what was
  listed over the connections there are; connections come and go between a listing and
  a call. `ListingsAreCallable`.

**`Commands_proofs`: edits of mcp.json and the servers that follow it, consolidation,
the wizard, backups.** An edit that
overlaps others writes a copy read before, so `UntouchedInv` says of each copy,
too, that it has what no command was given; a read in the middle of a write is
torn and fails: `UntouchedStayServed`. `AppInv` adds locks, jobs and backups:
until an application's first backup nothing has touched its file
(`OwnIsSafe`), a restore has a backup to restore (`BackupIsThere`), imported
servers were named (`ImportsAreNamed`). `NewestFacts` finds the newest backup as
the least element of a well-founded order: `AppsStaySafe`. Of the wizard,
`WizardInv` says that what the user agreed to override is the name at hand until
the entry is written (`AgreedIsAtHand`), and that no entry of the name to be
written is there while the registry is asked, unless others wrote it
(`FetchIsFree`): `WizardAsks`.

Of backups, `BackupInv` says that metadata are only ever of a file that was backed up
with the content of their checksum (`MetaIsOfSaved`), so that an intact backup is
right even if its copy or metadata was overwritten; that the file is as it was copied
until it is replaced (`CopyIsCurrent`); and that no backup is of a time to come
(`NoneIsLater`), so that the one just made is the newest. `UndoableKept` covers
every step that leaves what is listed of a program alone, a kill that tears the
metadata included: `BackupsStaySound`.

`ReloadInv` is about the handlers of saved files, between any two of their awaits.
Of a server that was never changed while a change of it was handled (`contested`), at
most one change is left among all handlers, it fits the file, and what its handler
will not make right is right already (`ChangesFit`); what a handler awaits is the
transport in the table, on which nobody else works (`AwaitFits`); a server in the table
has a transport of its own, right for the file unless a change of it is left
(`TableFits`); and an entry or a live transport that a handler made is in the table
(`RouteFits`, `EndFits`). The transports made at boot, by a retry or by others are
told apart by their maker, so that they may come and go without a word about
them: the theorems need no hypothesis about the first configuration or about how many
handlers there are. What a step of one handler leaves to all the others is said
once (`Leaves`, `HandlerKeeps`). A save has as many changes as servers, each of
another server, so every server has one: a count, which is why the servers are
finite. `LifecycleTyped`, `TableFollowsFile`, `AllFollowFile`, `RemovedHaveNoRoute`.

**`PresetFiles`: what clients are told.** The theorem is at the end of the model: a
reload compares its lists with those there were when its timer fired; these are still
the lists of the server's memory, but for the presets that have moved under it, by the
end of another reload or by the configuration (`BeforeFits`). What one reload changes
has moved under all others (`OthersFit`): `ToldStaysCurrent`, for queries of any kind,
of which it takes only that no preset selects no server (`PresetConstants`).

**Only model-checked.** The liveness properties (`IdleIsReclaimed`, `LoadingSettles`,
`BroughtIsTold`, `WalkEnds`, `ServesTheFile`, `ServerFollowsFile`): fairness and `ENABLED`
are beyond the prover. `QueriesKeepMeaning` and `FiltersAgree`: parsing, evaluating and
rewriting a filter are recursive over its tree, what they compute for every filter
takes induction over data. Every other property of the runs is a theorem.

## 5. Where the code disagrees with what it says

TLC refutes the following claims of comments, documents and tests. `PROJECT.json`,
"findings", quotes the weightier ones. They are kept as definitions; to reproduce one, make
it the only property of a configuration with the values named.

| Module | Definition | Configuration | What happens |
|---|---|---|---|
| PoolClients | `TemplateLimit` | `MCPool.cfg`, one template `shared`, 2 hashes, limit 1, `ClientsSpec` | the check precedes the await, the store follows it |
| PoolClients | `ClosingIsUnreferenced`, `MatchingClientsShare` (`ClientsSpec`), `UnusedIsReclaimed` (`FairSpec`) | as above with one hash, limits 0 | an instance is closed in use, or displaced and never closed |
| TemplateServers | `InstanceGoesIdle` | `MCTemplates`, 2 sessions, `OnlyShared`, `SameContext`, one hash | the pool is asked for a key it does not have |
| TemplateServers | `PerClientIsOwn` | the same with `OnlyPrivate` | the outbound key looks at shareable alone |
| TemplateServers | `UsedServerIsConnected`, `HashesCleanedUp`, `NoOrphanedUse` | as `InstanceGoesIdle` | an overlapping disconnect, or a failed connect, leaves its servers behind |
| TemplateServers | `OutboundIsUsed` | the same with two hashes and `ChangingContext` | a session rendered anew leaves its former entry |
| McpLoading | `CancelledIsNotLoaded`, `ShutdownIsFinal`, as PROPERTY, `FailedIsNotConnected` | `MCLoading.cfg`, `Spec` | a loader goes on after cancellation, shutdown or timeout |
| McpLoading | `ReadyIsConnected` | `MCLoading.cfg` | `onclose`, a refused ping, a cleared map and a restarted flow tell the tracker nothing |
| ServerLifecycle | `KeepsActiveConnections`, as PROPERTY | `MCLifecycle.cfg` | starting one server clears the shared map of outbound connections |
| ServerLifecycle | `RemovedLoseRoute`, `RestartReplaces` | `MCLifecycle.cfg` | servers of the first configuration are in no table |
| ServerLifecycle | `RemovedLoseConnection` | `MCLifecycle.cfg` | the same, and a connection that a retry made is not the one `stopServer` closes |
| ServerLifecycle | `DisabledServersStop` | `MCLifecycle.cfg` | the configuration the handler reads has no disabled servers: reading the entry's `disabled` throws |
| ServerLifecycle | `FunctionalChangesRestart` | `MCLifecycle.cfg` | a key that was taken out is in no list of changed fields, so that the change passes for one of tags |
| InboundSessions | `ReturnedIsConnected`, as PROPERTY | `MCSessions.cfg` | the second of two restores returns a transport never connected |
| InboundSessions | `DropsOwnConnection` | `MCSessions.cfg` | a broken stream of an old transport disconnects the new one |
| CapabilityUpdates | `NewServersAppear` | `MCUpdates.cfg` | list_changed is sent, but the new server's capabilities are collected only when a session connects |
| CapabilityUpdates | `SnapshotComplete` | `MCUpdates.cfg` | of two overlapping updates the older one is stored last |
| Pagination | `WalkEndsAtLast`, as PROPERTY | `MCListing.cfg` | `encodeCursor` accepts no colon in a server's name, so a walk ends before the first template server, whose key has one |
| Pagination | `NotifiesTheLiving` | `MCListing.cfg` | a server's handlers belong to the last session that connected, even when it has gone |
| UpstreamOAuth | `ShownLinkWorks` | `MCOAuth.cfg` | a callback, or a ping, begins a flow that the entry's URL is not of |
| UpstreamOAuth | `FirstRestartHeals`, as PROPERTY | `MCOAuth.cfg` | a refused refresh counts as a request for authorization, but no flow was begun: the entry waits without a link |
| RequestFilters | `DashExcludes` | `MCPresets.cfg` | a dash after a tag is part of the name, after a group it is refused, where the documentation excludes |
| PresetFiles | `ToldAlways` | `MCPresets.cfg` | a list that the configuration or another reload changes behind the back of a reload is not told of |
| SessionStore | `ShutdownKeepsSessions`, as PROPERTY | `MCSessions.cfg` | a graceful shutdown closes the transports, whose onclose deletes the sessions |
| SessionStore | `FaultsAreContained`, as PROPERTY | `MCSessions.cfg` | a failing write in the flush timer is an uncaught exception |
| SessionSetup | `ReplacedClosesQuietly`, as PROPERTY | `MCSessions.cfg` | the onclose of a replaced connection removes the text of the new one |
| SessionSetup | `InstructionsFollow` | `MCSessions.cfg` | the listener of changed instructions only logs |
| SessionSetup | `TemplatesAreCurrent`, as PROPERTY | `MCSessions.cfg` | with `cacheContext` the cached rendering outlives an edit |
| ServerStatus | `HealthyIsLoaded`, `CodesAgree` | `MCLoading.cfg` | a failed server has no entry; a pending one is answered for with 200 |
| ServerStatus | `AuthorizedStaysReady`, as PROPERTY | `MCLoading.cfg`, `Spec` | a loader at work sets back what the callback of a flow has shown ready |
| ServerStatus | `ServedIsNotRefused` | `MCLoading.cfg` | the middleware wants all tags, the filter any; template servers are not in the tracker |
| RestartableStdio | `RestartsWhenExits` | `MCProcesses.cfg` | `close` sets `_isClosing`, `start` does not reset it |
| RestartableStdio | `LostHasEnded`, `ClosedHasEnded` | `MCProcesses.cfg` | events of the old process are taken for the new one's; a close forgets the process that came meanwhile |
| RestartableStdio | `LimitIsTold` | `MCProcesses.cfg` | at the limit nobody is told |
| ServerDiscovery | `LiveServerIsNamed` | `MCProcesses.cfg` | a server deletes the pid file another has written |
| ServerDiscovery | `OnlyStaleIsRemoved`, as PROPERTY | `MCProcesses.cfg` | a proxy deletes what was written while it waited |
| ServerDiscovery | `SourceIsOwn` | `MCProcesses.cfg` | the port of a stale file belongs to another directory's server by now |
| ServerDiscovery | `CommandLineWins` | `MCProcesses.cfg` | a preset of `.1mcprc` beats a filter of the command line |
| ProxyForwarding | `SessionsHaveContext` | `MCProcesses.cfg` | a ping makes a session without context |
| ProxyForwarding | `InitializedIsServed`, `ReadyWasInitialized` | `MCProcesses.cfg` | the fallback session refuses every call; one made by a ping is restored as if initialized |
| ChildEnvironment | `FilterControlsInherited` | `MCProcesses.cfg` | a default of the SDK that the filter denies is put back when the process is spawned |
| ChildEnvironment | `RestartKeepsEnvironment` | `MCProcesses.cfg` | a reload computes the environment twice and substitutes what was inherited |
| ChildEnvironment | `SubstitutionCanBeOff`, `BadServerIsLeftOut` | `MCProcesses.cfg` | values of `env` are always substituted; one server that cannot be created keeps all from starting |
| InstallWizard | `ConfiguredIsInstalled`, `ConfirmedIsTried`, `FailureKeeps`, as PROPERTY | `MCOAuth.cfg` | the answers about variables and arguments are in no entry; after a failure a whole round is run for nothing; what is replaced is removed before the registry is asked |
| InstallWizard | `ExactMatchFirst` | `MCOAuth.cfg` | the first result whose id merely contains the one asked for is taken |
| AppBackups | `RestoresOriginal`, `ConsolidatedIsWhole`, `RecommendedIsAccepted` | `MCConfig.cfg` | the newest backup may be of what 1mcp wrote; the first consolidated file answers for all |
| AppBackups | `ListedRestores`, `WrittenIsDetected`, `OtherSettingsStay`, as PROPERTY | `MCConfig.cfg` | `restore --backup` appends `.meta` twice; augment's section is unknown to detection; a settings file is replaced as a whole |

Other disagreements are transitions of the models rather than properties, and
follow from the source as it stands:

- Editing processes of `mcp.json` or `presets.json` that overlap lose each other's
  edits, as each writes back all it has read; the properties are about what no
  command named. A command that finds the file torn treats it as missing.
- `mcp_edit` with a new name keeps the old entry: it is deleted from a copy only.
- The interactive `install` removes the old entry before it asks the registry, so
  that a failed request leaves the server out of the file.
- Two backups made in one second are one file: the second overwrites the first.
  `app restore` takes the newest backup, which after a second consolidation is
  that of a file which has the 1mcp entry only. A lock file left by a killed
  process is never removed. `importServersTo1mcp` reports an error of one server
  and the application's file is replaced all the same.
- `presets.json` is truncated before it is written: killed in between, it is empty
  and every later preset command fails to start.
- A filter `-a` is parsed as a negation by the advanced parser and as a tag of that
  name by `preset create`; `not not a` is rejected; editing a preset that was
  created with an advanced filter rewrites its query by the three states.
- A session keeps the tag query its preset had when it connected.
- The end of a reload of the presets drops the reference to whatever timer is set, so
  that a timer of an event that came meanwhile can no longer be put off, and two
  reloads may run at once.
- `NotificationManager.shutdown` alone would drop what is pending.
- A server whose name holds, or ends in, a part of the separator, and tools of a
  server called `1mcp`, can be listed and never called (`Plain`). Completion does
  not ask whether a prompt is disabled; the built-in tools are on every page of a
  listing; of the two resource-template handlers the second replaces the first.
- Built-in tools: `--internal-tools` alone lists tools whose calls are then refused;
  `mcp_status` never parses its own answer when there is a server; `mcp_update`
  without a version always fails and otherwise writes back what it read before its
  await; `mcp_uninstall` without `removeAll` removes nothing and says it did;
  `mcp_edit` demands a command or a URL; tags given to an installation are merged
  and then overwritten, and `force` is ignored on the registry's path.
- Registry: a slow older answer overwrites a newer one; the failure of
  `getRegistryStatus` is cached for a minute; `mcp_info` of an unknown server fails
  where null was meant; each installation leaves a client with its timer behind.
- With `maxRestarts` 0, documented as unlimited, a process is never restarted.
- The proxy's `--filter` goes into a query parameter nobody reads. Environment
  variables for the URL are documented and not looked at.
- Values rendered from templates are escaped as HTML.
- After a restart of the process a code that is still in a user's browser finds
  the provider's URL gone, and a restart pressed during a callback drops the
  tokens the callback has just saved.

## 6. What the models leave out

- Data: payloads, names and configurations other than their identity, statistics,
  logging, timestamps other than as "elapsed".
- Pool: `shutdown()`, which runs once at the end of the process. The template
  server manager's own idle timer: no instance is ever idle there
  (`InstanceGoesIdle`), so it has nothing to do.
- Template servers: the instance of the run has no `perClient` template, for which two
  sessions overwrite each other's entry (`PerClientIsOwn`); the release in the pool,
  under a key it does not have, takes no effect (`InstanceGoesIdle`).
- Loading: how often `connectWithRetry` tries inside one attempt (UpstreamOAuth has
  it), and the settings other than the defaults (`continueOnFailure`,
  `enableBackgroundRetry`). What others write to the map is not derived from what
  they do, but any status at any time.
- Client manager: the clients of pooled instances.
- Hot reload: validation of the file.
- Sessions: SSE; `ConnectionManager`'s 30 s timeout and semaphore, which no await
  can reach;
  `PresetNotificationService.updateClientPreset`, which only tests call.
- Updates: settings other than the defaults (batching on, all kinds on).
- Listings: `fetchAllItemsForClient`, the mode without pagination; a session's
  selection is a set (`Selects`), its evaluation is TagQueries.
- Configuration file: copies that commands keep beside it; templates other than the
  fact that a name is one (SessionSetup renders them). That a tool call's write is
  not interrupted by the server it runs in is not used: the model allows more.
- App commands: several applications in one `consolidate`. Overlapping commands are
  AppConsolidation's, several files and formats AppBackups': not both at once.
- Presets: a timer that is set during a reload does not fire before the end of that
  reload: reading a small file is taken to be shorter than the delay of 500 ms.
  The notifications of one reload are sent at its end, all at once, where the code
  awaits one after another; what a client then fetches is the list there is by then. An
  editing process's own reload is one step.
- OAuth: scopes, PKCE's arithmetic (a code can be exchanged with the verifier of
  its own flow), the dashboard's pages. The SDK saves verifier and URL in one
  step; closing an HTTP transport takes only microtasks; a request whose transport
  is closed is over; a refreshed token is a token that stays valid. A 401 is met by
  connects and pings; that a client's tool call is answered 401 is not modelled. The
  unlinking of a code that was used is taken to succeed: `deleteData` only logs a
  failure (`auth/storage/fileStorageService.ts:341-359`), after which the code could be
  exchanged again until it expires. Upstreams that
  are 1mcp themselves are refused by the code, so that the two sides share no
  state. A code is taken to its callback once. The authorization server, the user
  and the browser are external.
- Session store: what a session holds besides its expiry. A file is written under
  another name and renamed, so that it is never seen half done.
- Requests by name: one server name at a time with all the keys it may have.
- Registry: ranking of search results, proxies, formatting. A question has one time to
  live: `getServerById` without a version and `getServerVersions`
  (`domains/registry/mcpRegistryClient.ts:96`, 153) share a cache key with different
  ones, so that whichever stored the answer decides for both.
- Configuration as served: in `ServesTheFile` what is served is ConfigManager's loaded and
  enabled configuration; which servers run by it is ServerLifecycle's.
- Wizard: versions, layout and progress; prompts that are repeated; a file that cannot
  be read. An access of the file is one step, ConfigFile takes it apart.
- Discovery: a pid that the operating system gave to another process is a live
  one. Restarts: the delays between them. Proxy: messages of the server to the
  client; the stream is open or broken. The messages before `initialize` have no
  params: a ping with a params object would be given the context without the
  client's name, and make a session of that.
- Environments: patterns as the sets of names they match; values as a text, a
  reference or a shell function. The SDK's part is external: that it puts its defaults
  under the environment it is given is taken from version 1.25.2, which
  `pnpm-lock.yaml` pins.

The type invariants of the modules with proofs are conjuncts of the inductive
invariants, some of them with fewer details. Those stated in modules whose
proof has one of its own (`UpdatesTypeOK`, `PaginationTypeOK`, `ServersTypeOK`,
`LoadingTypeOK`, `AppsTypeOK`) hold in the instances above and are in no run.

## 7. Plan

Proofs: the type invariants that only TLC has seen (section 6).

Models: SSE sessions; discovery and restarts as one system, in which the process a
proxy finds is the one that restarts its servers.
