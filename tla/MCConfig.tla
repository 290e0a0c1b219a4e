------------------------------ MODULE MCConfig ------------------------------
(* The configuration file of 1mcp with everything that writes it ("file"): *)
(* one application with a server of its own and one that 1mcp has already; *)
(* a process for app commands and one for any command.  And the files and  *)
(* backups of two applications ("backups"), which share one in the first   *)
(* installation.  A behaviour is one of one of them.                       *)
EXTENDS AppConsolidation, AppBackups, TLC

CONSTANTS s1, s2, a1, p1, p2

MCInitial == s1 :> "on" @@ s2 :> "none"
MCServersOf == a1 :> {s2}

MCInstallations ==
    {"vscode" :> [format |-> "vscode", paths |-> {"project", "settings"}]
       @@ "augment" :> [format |-> "augment", paths |-> {"settings"}],
     "vscode" :> [format |-> "generic", paths |-> {"project", "settings"}]
       @@ "augment" :> [format |-> "claude-desktop", paths |-> {}]}

Text(section, servers, rest) == [section |-> section, servers |-> servers, rest |-> rest]
MCTexts ==
    {Broken, Text("mcp.servers", {"stdio"}, TRUE), Text("mcpServers", {"1mcp", "remote"}, FALSE)}

VARIABLE side

mcVars == <<side, vars, backupVars>>

MCInit == side \in {"file", "backups"} /\ Init /\ BackupInit

MCNext ==
    /\ UNCHANGED side
    /\ \/ side = "file" /\ Next /\ UNCHANGED backupVars
       \/ side = "backups" /\ BackupNext /\ UNCHANGED vars

(* Events of the file arrive and the debounce timer fires, as in Spec. *)
MCSpec ==
    MCInit /\ [][MCNext]_mcVars /\ WF_mcVars(Reload /\ UNCHANGED <<side, appVars, backupVars>>)
=============================================================================
