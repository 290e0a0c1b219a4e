------------------------------- MODULE MCCalls -------------------------------
(* What becomes of a client's call, in three models that have no state in  *)
(* common: of something a server offers ("server"), of one of 1mcp's own   *)
(* tools ("own"), and of the question some of these put to the registry    *)
(* ("registry").  A behaviour is one of one of them.                       *)
EXTENDS RequestDispatch, InternalTools, RegistryClient, TLC

(* The statistics read a second page, and are kept half as long.           *)
MCQuestions == {<<"stats", 0>>, <<"server", 1>>, <<"server", 2>>}
MCTTLOf == "stats" :> 1 @@ "server" :> 2

VARIABLE side

mcVars == <<side, dispatchVars, toolVars, registryVars>>

(* The models other than a behaviour's own stay as they started.           *)
MCInit ==
    /\ side \in {"server", "own", "registry"}
    /\ DispatchInit
    /\ side # "server" =>
          client = <<"a">> /\ item = <<"a">> /\ conns = {} /\ config = [enabled |-> {}, disabled |-> {}]
    /\ ToolsInit
    /\ side # "own" => flags.all /\ flags.list = {} /\ file = [s \in Names |-> NoServer]
    /\ RegistryInit

MCNext ==
    /\ UNCHANGED side
    /\ \/ side = "server" /\ DispatchNext /\ UNCHANGED <<toolVars, registryVars>>
       \/ side = "own" /\ ToolsNext /\ UNCHANGED <<dispatchVars, registryVars>>
       \/ side = "registry" /\ RegistryNext /\ UNCHANGED <<dispatchVars, toolVars>>

MCSpec == MCInit /\ [][MCNext]_mcVars
=============================================================================
