------------------------------ MODULE MCProcesses ------------------------------
(* Servers and proxies as processes of an operating system: how a proxy    *)
(* finds a server ("discovery") and forwards to it ("forwarding"), and how *)
(* a server's own child process gets its environment ("environment") and   *)
(* is restarted ("restart").  Four models, a behaviour is one of one of    *)
(* them.                                                                   *)
EXTENDS ServerDiscovery, RestartableStdio, ProxyForwarding, ChildEnvironment, TLC

CONSTANTS s1, s2, s3, p1, p2

(* s1 and s2 share a directory, s1 and s3 a port. *)
MCDirOf == s1 :> "d1" @@ s2 :> "d1" @@ s3 :> "d2" @@ p1 :> "d1" @@ p2 :> "d1"
MCPortOf == s1 :> 1 @@ s2 :> 2 @@ s3 :> 1
MCPorts == <<1, 2>>

ProxySymmetry == Permutations(Proxies)

VARIABLE side

mcVars == <<side, discoveryVars, restartVars, proxyVars, environmentVars>>

MCInit ==
    /\ side \in {"discovery", "restart", "forwarding", "environment"}
    /\ DiscoveryInit /\ RestartInit /\ ProxyInit /\ EnvironmentInit

MCNext ==
    /\ UNCHANGED side
    /\ \/ side = "discovery" /\ DiscoveryNext /\ UNCHANGED <<restartVars, proxyVars, environmentVars>>
       \/ side = "restart" /\ RestartNext /\ UNCHANGED <<discoveryVars, proxyVars, environmentVars>>
       \/ side = "forwarding" /\ ProxyNext /\ UNCHANGED <<discoveryVars, restartVars, environmentVars>>
       \/ side = "environment" /\ EnvironmentNext /\ UNCHANGED <<discoveryVars, restartVars, proxyVars>>

MCSpec == MCInit /\ [][MCNext]_mcVars
=============================================================================
