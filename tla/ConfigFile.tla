----------------------------- MODULE ConfigFile -----------------------------
(***************************************************************************)
(* The configuration file mcp.json: the running server that watches it     *)
(* (config/configWatcher.ts, configManager.ts, configLoader.ts) and the    *)
(* processes that edit it (commands/mcp/*.ts, the tools mcp_install, ...   *)
(* of core/tools/internal) by commands/shared/baseConfigUtils.ts.          *)
(*                                                                         *)
(* A command reads the file to see if it applies, suspends for a prompt or *)
(* the registry, reads the file again, changes one entry and writes all of *)
(* it back.  Writing truncates first: others see an empty file in between. *)
(* Two that write at once may leave the end of the longer text.  Processes *)
(* interleave at every access; that the server itself does not while a tool*)
(* call writes is not used.  The copies commands make beside the file are  *)
(* read by no code and are left out.                                       *)
(***************************************************************************)
EXTENDS Naturals

CONSTANTS
    Servers,    \* server names
    Templates,  \* those that mcpTemplates has as well
    Initial,    \* the file the server is started with
    Procs,      \* processes other than the server, and tool calls in it
    MaxTasks    \* bound: commands run

Entries == {"none", "on", "off"}
Contents == [Servers -> Entries]

(* A file with entries, one that was truncated, and a broken one.          *)
Whole(content) == [state |-> "whole", has |-> content]
Unread(state) == [state |-> state, has |-> [s \in Servers |-> "none"]]
Files == {Whole(c) : c \in Contents} \cup {Unread("empty"), Unread("garbled")}

ASSUME ConfigConstants ==
    /\ Templates \subseteq Servers
    /\ Initial \in Contents
    /\ MaxTasks \in Nat

VARIABLES
    file,    \* mcp.json
    served,  \* static servers the server has loaded and enabled
    due,     \* an event of the file, or the debounce timer, is outstanding
    procs,   \* process -> the edit it is at
    tasks,   \* commands so far
    named    \* servers a command was given

fileVars == <<file, served, due, procs, tasks, named>>

NoEdit == [at |-> "idle", srv |-> "none", entry |-> "none", copy |-> Initial, then |-> "idle"]

(* loadConfigWithEnvSubstitution, then getTransportConfig. *)
Enabled(content) == {s \in Servers \ Templates : content[s] = "on"}

FileInit ==
    /\ file = Whole(Initial)
    /\ served = Enabled(Initial)
    /\ due = FALSE
    /\ procs = [p \in Procs |-> NoEdit]
    /\ tasks = 0
    /\ named = {}

-----------------------------------------------------------------------------
(* Mutant of Reload: a file that cannot be read counts as one of no server.*)
ReloadEmpty ==
    /\ due
    /\ due' = FALSE
    /\ served' = Enabled(file.has)
    /\ UNCHANGED <<file, procs, tasks, named>>

(* loadRawConfig parses the file, or throws.                               *)
Parses == file.state = "whole"

(* handleConfigChange, after the debounce: a file that cannot be read      *)
(* leaves the configuration as it is.                                      *)
Reload ==
    /\ due
    /\ due' = FALSE
    /\ served' = IF Parses THEN Enabled(file.has) ELSE served
    /\ UNCHANGED <<file, procs, tasks, named>>

-----------------------------------------------------------------------------
(* serverExists and getServer, to which a broken file has no server.       *)
Seen(s) == file.has[s]

(* A command or tool call has seen that it applies to s, and is to write    *)
(* entry e.  With "again" it writes a second time (a tool call adds tags).  *)
Begins(p, s, e, then) ==
    /\ procs[p].at = "idle"
    /\ tasks < MaxTasks
    /\ tasks' = tasks + 1
    /\ named' = named \cup {s}
    /\ procs' = [procs EXCEPT ![p] = [NoEdit EXCEPT !.at = "load", !.srv = s, !.entry = e,
                                                   !.then = then]]
    /\ UNCHANGED <<file, served, due>>

AddCommand(p, s) ==
    Seen(s) = "none" /\ \E e \in {"on", "off"} : Begins(p, s, e, "idle")

EnableCommand(p, s) == Seen(s) = "off" /\ Begins(p, s, "on", "idle")
DisableCommand(p, s) == Seen(s) = "on" /\ Begins(p, s, "off", "idle")

(* All but what the command names is written as it was seen.               *)
UpdateCommand(p, s) == Seen(s) # "none" /\ Begins(p, s, Seen(s), "idle")

RemoveCommand(p, s) == Seen(s) # "none" /\ Begins(p, s, "none", "idle")
UninstallCommand(p, s) == Seen(s) # "none" /\ Begins(p, s, "none", "idle")

(* With --force also over a server that is there.                          *)
InstallCommand(p, s) == Begins(p, s, "on", "idle")

(* The wizard removes a server that is there before it fetches it anew.    *)
RunInteractiveInstallation(p, s) ==
    Begins(p, s, IF Seen(s) = "none" THEN "on" ELSE "none",
           IF Seen(s) = "none" THEN "idle" ELSE "fetch")

(* The tools.  A server is renamed by writing it under its new name.       *)
EnableServer(p, s) ==
    Seen(s) = "off" /\ \E then \in {"idle", "again"} : Begins(p, s, "on", then)

DisableServer(p, s) ==
    Seen(s) = "on" /\ \E then \in {"idle", "again"} : Begins(p, s, "off", then)

UpdateServerConfig(p, s, n) ==
    /\ Seen(s) # "none"
    /\ n # s => Seen(n) = "none"
    /\ \E e \in {"on", "off"} : Begins(p, n, e, "idle")

(* What was seen before the registry was asked is written after it.        *)
UpdateServer(p, s) == Seen(s) # "none" /\ Begins(p, s, Seen(s), "idle")

InstallServer(p, s) == \E then \in {"idle", "again"} : Begins(p, s, "on", then)

DirectPackageInstallation(p, s) ==
    \E e \in {"on", "off"}, then \in {"idle", "again"} : Begins(p, s, e, then)

UninstallServer(p, s) == Begins(p, s, "none", "idle")

(* The prompt is declined, or the registry does not answer.                *)
Abandon(p) ==
    /\ procs[p].at \in {"load", "fetch"}
    /\ procs[p].then # "import"
    /\ procs' = [procs EXCEPT ![p] = NoEdit]
    /\ UNCHANGED <<file, served, due, tasks, named>>

(* The wizard has removed the server it installs anew.                     *)
Fetched(p) ==
    /\ procs[p].at = "fetch"
    /\ procs' = [procs EXCEPT ![p] = [@ EXCEPT !.at = "load", !.entry = "on", !.then = "idle"]]
    /\ UNCHANGED <<file, served, due, tasks, named>>

(* Mutant of Load: a file that cannot be read is started anew.             *)
LoadAnew(p) ==
    /\ procs[p].at = "load"
    /\ procs' = [procs EXCEPT ![p] =
          [@ EXCEPT !.at = "truncate", !.copy = [file.has EXCEPT ![procs[p].srv] = procs[p].entry]]]
    /\ UNCHANGED <<file, served, due, tasks, named>>

(* After its write a process is done, or goes on to what it wrote for.     *)
Then(edit) ==
    CASE edit.then = "idle"  -> NoEdit
      [] edit.then = "again" -> [edit EXCEPT !.at = "load", !.copy = Initial, !.then = "idle"]
      [] OTHER               -> [edit EXCEPT !.at = edit.then, !.copy = Initial]

(* setServer and removeServer read all of the file again, and throw if it  *)
(* is broken, which only an import survives; nothing may be left to remove.*)
Load(p) ==
    LET edit == procs[p]
    IN  /\ edit.at = "load"
        /\ procs' = [procs EXCEPT ![p] =
               IF file.state # "whole" THEN IF edit.then = "import" THEN Then(edit) ELSE NoEdit
               ELSE IF edit.entry = "none" /\ file.has[edit.srv] = "none" THEN Then(edit)
               ELSE [edit EXCEPT !.at = "truncate", !.copy = [file.has EXCEPT ![edit.srv] = edit.entry]]]
        /\ UNCHANGED <<file, served, due, tasks, named>>

(* saveConfig: writeFileSync opens the file, which empties it, and writes. *)
Truncate(p) ==
    /\ procs[p].at = "truncate"
    /\ file' = Unread("empty")
    /\ due' = TRUE
    /\ procs' = [procs EXCEPT ![p].at = "write"]
    /\ UNCHANGED <<served, tasks, named>>

(* Mutant of Write: its event counts as that of the truncation.            *)
WriteUnseen(p) ==
    /\ procs[p].at = "write"
    /\ \/ file' = Whole(procs[p].copy)
       \/ file.state # "empty" /\ file' = Unread("garbled")
    /\ procs' = [procs EXCEPT ![p] = Then(@)]
    /\ UNCHANGED <<served, due, tasks, named>>

Write(p) ==
    /\ procs[p].at = "write"
    /\ \/ file' = Whole(procs[p].copy)
       \/ file.state # "empty" /\ file' = Unread("garbled")
    /\ due' = TRUE
    /\ procs' = [procs EXCEPT ![p] = Then(@)]
    /\ UNCHANGED <<served, tasks, named>>

Commands(p, s) ==
    \/ AddCommand(p, s)
    \/ EnableCommand(p, s)
    \/ DisableCommand(p, s)
    \/ UpdateCommand(p, s)
    \/ RemoveCommand(p, s)
    \/ UninstallCommand(p, s)
    \/ InstallCommand(p, s)
    \/ RunInteractiveInstallation(p, s)

ToolCalls(p, s) ==
    \/ EnableServer(p, s)
    \/ DisableServer(p, s)
    \/ \E n \in Servers : UpdateServerConfig(p, s, n)
    \/ UpdateServer(p, s)
    \/ InstallServer(p, s)
    \/ DirectPackageInstallation(p, s)
    \/ UninstallServer(p, s)

FileNext ==
    \/ Reload
    \/ \E p \in Procs :
          \/ \E s \in Servers : Commands(p, s) \/ ToolCalls(p, s)
          \/ Abandon(p) \/ Fetched(p)
          \/ Load(p) \/ Truncate(p) \/ Write(p)
=============================================================================
