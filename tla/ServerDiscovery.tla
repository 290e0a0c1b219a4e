---------------------------- MODULE ServerDiscovery ----------------------------
(***************************************************************************)
(* How a proxy command finds a server: pidFileManager.ts, urlDetection.ts  *)
(* and commands/proxy/proxy.ts, with the start and the stop of a server    *)
(* from serve.ts and http/server.ts.  Servers and proxies are processes of *)
(* their own; a configuration directory holds one pid file, which the last *)
(* server that started in it wrote and any process may delete.             *)
(*                                                                         *)
(* The operating system's part is external: a port has one listener, a     *)
(* pid may be given to another process, and kill -9 runs no exit handler.  *)
(* A signal finds a server that has tried to bind its port, which it does  *)
(* in the turn of the event loop after the pid file is written.            *)
(***************************************************************************)
EXTENDS Naturals, Sequences, SequencesExt

CONSTANTS
    Servers,     \* server processes, each started at most once
    Proxies,     \* proxy processes
    Dirs,        \* configuration directories
    DirOf,       \* server or proxy -> its directory
    PortOf,      \* server -> the port it is to listen on
    CommonPorts, \* the ports that are scanned, in their order
    MaxFaults,   \* bound on the requests a listening server fails to answer
    NoServer

ASSUME DiscoveryConstants ==
    /\ DirOf \in [Servers \cup Proxies -> Dirs]
    /\ NoServer \notin Servers
    /\ PortOf \in [Servers -> Nat] /\ CommonPorts \in Seq(Nat)
    /\ MaxFaults \in Nat

VARIABLES
    server,   \* server -> where its process is
    listener, \* port -> the server that listens on it, or NoServer
    pidFile,  \* directory -> the server its pid file names, or NoServer
    proxy,    \* proxy -> [pc, named, left, port, source]
    faults,   \* requests that went unanswered by a listening server
    steady    \* history: proxy that searches -> servers it could find all along,
              \* none when one of its requests went unanswered

discoveryVars == <<server, listener, pidFile, proxy, faults, steady>>

Ports == {PortOf[s] : s \in Servers} \cup ToSet(CommonPorts)

Alive(s) == server[s] \notin {"off", "ended", "killed"}

Searching(p) == proxy[p].pc \in {"check", "scan"}

DiscoveryInit ==
    /\ server = [s \in Servers |-> "off"]
    /\ listener = [n \in Ports |-> NoServer]
    /\ pidFile = [d \in Dirs |-> NoServer]
    /\ proxy = [p \in Proxies |->
                  [pc |-> "idle", named |-> NoServer, left |-> <<>>, port |-> 0, source |-> "none"]]
    /\ faults = 0
    /\ steady = [p \in Proxies |-> {}]

-----------------------------------------------------------------------------
(* A server process. *)

(* serveCommand: the port is asked for, the pid file written at once. *)
Serve(s) ==
    /\ server[s] = "off"
    /\ server' = [server EXCEPT ![s] = "starting"]
    /\ pidFile' = [pidFile EXCEPT ![DirOf[s]] = s]
    /\ UNCHANGED <<listener, proxy, faults, steady>>

(* The port is free, or it is taken: nobody looks at the error listen      *)
(* hands its callback, and the process stays without a listener.           *)
Bind(s) ==
    /\ server[s] = "starting"
    /\ LET free == listener[PortOf[s]] = NoServer
       IN  /\ server' = [server EXCEPT ![s] = IF free THEN "up" ELSE "deaf"]
           /\ listener' = IF free THEN [listener EXCEPT ![PortOf[s]] = s] ELSE listener
    /\ UNCHANGED <<pidFile, proxy, faults, steady>>

(* A signal starts the graceful shutdown: awaits, then the pid file, then  *)
(* the exit.  The listener answers to the end.                             *)
StopSignal(s) ==
    /\ server[s] \in {"up", "deaf"}
    /\ server' = [server EXCEPT ![s] = "stopping"]
    /\ UNCHANGED <<listener, pidFile, proxy, faults, steady>>

(* cleanupPidFileOnExit: whichever server the file names. *)
CleanUp(s) ==
    /\ server[s] = "stopping"
    /\ server' = [server EXCEPT ![s] = "exiting"]
    /\ pidFile' = [pidFile EXCEPT ![DirOf[s]] = NoServer]
    /\ UNCHANGED <<listener, proxy, faults, steady>>

(* The operating system takes the port back. *)
Gone(s, how) ==
    /\ server' = [server EXCEPT ![s] = how]
    /\ listener' = [n \in Ports |-> IF listener[n] = s THEN NoServer ELSE listener[n]]
    /\ steady' = [p \in Proxies |-> IF Searching(p) THEN steady[p] \ {s} ELSE steady[p]]
    /\ UNCHANGED <<proxy, faults>>

(* Mutant of Exit: only the graceful shutdown deletes the file. *)
ExitUncleaned(s) ==
    /\ server[s] \in {"starting", "up", "deaf", "stopping", "exiting"}
    /\ UNCHANGED pidFile
    /\ Gone(s, "ended")

(* process.exit at the end of the shutdown, or an error nobody caught: the *)
(* exit handler deletes the file (again).                                  *)
Exit(s) ==
    /\ server[s] \in {"starting", "up", "deaf", "stopping", "exiting"}
    /\ pidFile' = [pidFile EXCEPT ![DirOf[s]] = NoServer]
    /\ Gone(s, "ended")

Kill(s) ==
    /\ Alive(s)
    /\ UNCHANGED pidFile
    /\ Gone(s, "killed")

-----------------------------------------------------------------------------
(* A proxy process. *)

Listening == {s \in Servers : \E n \in ToSet(CommonPorts) : listener[n] = s}

(* proxyCommand with --url: nothing is searched. *)
BeginWithUrl(p) ==
    /\ proxy[p].pc = "idle"
    /\ \E n \in Ports :
          proxy' = [proxy EXCEPT ![p].pc = "validate", ![p].port = n, ![p].source = "user"]
    /\ UNCHANGED <<server, listener, pidFile, faults, steady>>

(* readPidFile: the file counts while a process has the pid it names; that *)
(* of a killed server may have been given to another.                      *)
Begin(p) ==
    LET named == pidFile[DirOf[p]]
        next == IF named # NoServer /\ Alive(named) THEN {"check"}
                ELSE IF named # NoServer THEN {"check", "scan"} ELSE {"scan"}
    IN  /\ proxy[p].pc = "idle"
        /\ \E pc \in next :
              proxy' = [proxy EXCEPT ![p].pc = pc, ![p].left = CommonPorts,
                           ![p].named = IF pc = "check" THEN named ELSE NoServer]
        /\ steady' = [steady EXCEPT ![p] = Listening]
        /\ UNCHANGED <<server, listener, pidFile, faults>>

(* fetch of /oauth/ on a port: refused, answered, or cut off by its timeout*)
(* or an answer other than 200.                                            *)
Fetch(p, n, ok) ==
    \/ /\ ok = (listener[n] # NoServer)
       /\ UNCHANGED faults
       /\ steady' = IF ok THEN [steady EXCEPT ![p] = {}] ELSE steady
    \/ /\ ~ok /\ listener[n] # NoServer
       /\ faults < MaxFaults
       /\ faults' = faults + 1
       /\ steady' = [steady EXCEPT ![p] = {}]

(* detectUrlFromPidFile: whoever answers on the named port is taken; when  *)
(* nobody does, whatever file is there by then is deleted.                 *)
Check(p) ==
    /\ proxy[p].pc = "check"
    /\ \E ok \in BOOLEAN :
          /\ Fetch(p, PortOf[proxy[p].named], ok)
          /\ IF ok
             THEN /\ proxy' = [proxy EXCEPT ![p].pc = "validate",
                                 ![p].port = PortOf[proxy[p].named], ![p].source = "pidfile",
                                 ![p].named = NoServer, ![p].left = <<>>]
                  /\ UNCHANGED pidFile
             ELSE /\ proxy' = [proxy EXCEPT ![p].pc = "scan", ![p].named = NoServer]
                  /\ pidFile' = [pidFile EXCEPT ![DirOf[p]] = NoServer]
    /\ UNCHANGED <<server, listener>>

(* Mutant of Scan: the last of the common ports is not tried. *)
ScanButLast(p) ==
    /\ proxy[p].pc = "scan" /\ proxy[p].left # <<>>
    /\ \E ok \in BOOLEAN :
          /\ Fetch(p, Head(proxy[p].left), ok)
          /\ proxy' = [proxy EXCEPT
                ![p].pc = IF ok THEN "validate" ELSE IF Len(proxy[p].left) <= 2 THEN "notfound" ELSE "scan",
                ![p].left = Tail(@),
                ![p].port = IF ok THEN Head(proxy[p].left) ELSE 0,
                ![p].source = IF ok THEN "portscan" ELSE "none"]
    /\ UNCHANGED <<server, listener, pidFile>>

(* detectRunningServerUrl: one port after another. *)
Scan(p) ==
    LET n == Head(proxy[p].left)
        last == Len(proxy[p].left) = 1
    IN  /\ proxy[p].pc = "scan" /\ proxy[p].left # <<>>
        /\ \E ok \in BOOLEAN :
              /\ Fetch(p, n, ok)
              /\ proxy' = [proxy EXCEPT
                    ![p].pc = IF ok THEN "validate" ELSE IF last THEN "notfound" ELSE "scan",
                    ![p].left = IF ok THEN <<>> ELSE Tail(@),
                    ![p].port = IF ok THEN n ELSE 0,
                    ![p].source = IF ok THEN "portscan" ELSE "none"]
        /\ UNCHANGED <<server, listener, pidFile>>

(* validateServer1mcpUrl, a second request; the proxy runs or exits. *)
Validate(p) ==
    /\ proxy[p].pc = "validate"
    /\ \E ok \in BOOLEAN :
          /\ Fetch(p, proxy[p].port, ok)
          /\ proxy' = [proxy EXCEPT ![p].pc = IF ok THEN "running" ELSE "refused"]
    /\ UNCHANGED <<server, listener, pidFile>>

-----------------------------------------------------------------------------
(* proxyCommand's choice among what the command line (options) and .1mcprc *)
(* (project) say: each field of its own, then preset before filter before  *)
(* tags.  A field that is not given is {}.                                 *)
Given(options, project, field) ==
    IF options[field] # {} THEN options[field] ELSE project[field]

Selection(options, project) ==
    LET field == SelectSeq(<<"preset", "filter", "tags">>,
                           LAMBDA x : Given(options, project, x) # {})
    IN  IF field = <<>> THEN <<>> ELSE <<Head(field), Given(options, project, Head(field))>>

-----------------------------------------------------------------------------
DiscoveryNext ==
    \/ \E s \in Servers :
          Serve(s) \/ Bind(s) \/ StopSignal(s) \/ CleanUp(s) \/ Exit(s) \/ Kill(s)
    \/ \E p \in Proxies :
          BeginWithUrl(p) \/ Begin(p) \/ Check(p) \/ Scan(p) \/ Validate(p)

DiscoverySpec == DiscoveryInit /\ [][DiscoveryNext]_discoveryVars

(* A pid file never names a server that has ended otherwise than by kill,  *)
(* whichever servers and proxies wrote and deleted it in between           *)
(* (pidFileManager.ts:137-145, serve.ts:213-221).                          *)
StaleOnlyAfterKill ==
    \A d \in Dirs : pidFile[d] # NoServer =>
        server[pidFile[d]] \in {"starting", "up", "deaf", "stopping", "exiting", "killed"}

(* A proxy that reports no running server, all of whose requests were      *)
(* answered or refused, had none that listened on a common port all the    *)
(* time, whatever was in the pid file (urlDetection.ts:115-145).           *)
NotFoundIsDown ==
    \A p \in Proxies : proxy[p].pc = "notfound" => steady[p] = {}

DiscoveryIsSound == StaleOnlyAfterKill /\ NotFoundIsDown

-----------------------------------------------------------------------------
(* Claims of docs, comments and tests that the code does not keep.         *)

(* docs/en/commands/proxy.md:36, "Reads server URL from server.pid": a     *)
(* server that listens is named by the file of its directory.              *)
LiveServerIsNamed ==
    \A s \in Servers : server[s] = "up" => pidFile[DirOf[s]] # NoServer

(* urlDetection.ts:84, "Server is dead, clean up stale PID file". *)
OnlyStaleIsRemoved ==
    [][\A p \in Proxies : Check(p) /\ pidFile' # pidFile =>
          ~Alive(pidFile[DirOf[p]])]_discoveryVars

(* proxy.ts:32: a server found via the pid file is of the proxy's own      *)
(* configuration directory.                                                *)
SourceIsOwn ==
    \A p \in Proxies : proxy[p].pc = "running" /\ proxy[p].source = "pidfile" =>
        listener[proxy[p].port] = NoServer \/ DirOf[listener[proxy[p].port]] = DirOf[p]

(* proxy.ts:16, "priority: CLI options > .1mcprc > defaults". *)
CommandLineWins ==
    LET Inputs == [{"preset", "filter", "tags"} -> {{}, {"x"}}]
    IN  \A options, project \in Inputs :
           (\E f \in DOMAIN options : options[f] # {})
              => options[Selection(options, project)[1]] # {}
=============================================================================
