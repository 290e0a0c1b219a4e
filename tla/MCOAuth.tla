------------------------------ MODULE MCOAuth ------------------------------
(* Where a user decides over several steps: the two sides of OAuth that     *)
(* 1MCP is on, and the installation wizard.  They have no state in common: *)
(* a behaviour is one of the authorization server, the client or the       *)
(* wizard.  The wizard has two servers of the registry, the id of one      *)
(* within that of the other, one with a package and a variable, the other  *)
(* remote and with an argument.                                            *)
EXTENDS OAuthServer, UpstreamOAuth, InstallWizard, TLC

MCLocalName == "u/db" :> "db" @@ "u/db-admin" :> "admin"
MCContaining == "u/db" :> {"u/db", "u/db-admin"} @@ "u/db-admin" :> {"u/db-admin"}
MCResults == {<<"u/db-admin", "u/db">>, <<"u/db">>}
MCPackages == "u/db" :> <<"pypi", "npm">> @@ "u/db-admin" :> <<>>
MCRemotes == "u/db" :> <<>> @@ "u/db-admin" :> <<"sse", "streamable-http">>
MCEnvVars == "u/db" :> [url |-> [required |-> TRUE, default |-> FALSE]] @@ "u/db-admin" :> <<>>
MCArguments == "u/db" :> <<>> @@ "u/db-admin" :> [port |-> [required |-> TRUE, default |-> TRUE]]

VARIABLE side

mcVars == <<side, issuerVars, upstreamVars, wizardVars>>

MCInit ==
    /\ IssuerInit /\ UpstreamInit /\ WizardInit
    /\ \/ side \in {"server", "client"} /\ options = [given |-> NoId, force |-> FALSE, dryRun |-> FALSE]
       \/ side = "wizard"

MCNext ==
    /\ UNCHANGED side
    /\ \/ side = "server" /\ IssuerNext /\ UNCHANGED <<upstreamVars, wizardVars>>
       \/ side = "client" /\ UpstreamNext /\ UNCHANGED <<issuerVars, wizardVars>>
       \/ side = "wizard" /\ WizardNext /\ UNCHANGED <<issuerVars, upstreamVars>>

MCSpec == MCInit /\ [][MCNext]_mcVars
=============================================================================
