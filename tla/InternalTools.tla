---------------------------- MODULE InternalTools ----------------------------
(***************************************************************************)
(* 1mcp's own tools: core/capabilities/internalCapabilitiesProvider.ts and *)
(* the handlers of core/tools/internal with their adapters.  A client calls*)
(* mcp_enable, mcp_edit, mcp_install and the others of 1mcp as it calls the*)
(* tools of any server, several calls at a time; some await the registry or*)
(* a check of a URL and then edit mcp.json, which other processes edit too.*)
(*                                                                         *)
(* Between two awaits a call is alone: how its accesses to the file mix    *)
(* with other processes' is in ConfigFile.  Here it is what each tool does *)
(* and answers.  The entry of a server keeps whether it is on, its tags and*)
(* whether it runs what it ran first ("old") or what a tool gave it.       *)
(***************************************************************************)
EXTENDS Naturals, FiniteSets

CONSTANTS
    Names,      \* names of servers, which are ids of the registry as well
    ToolTags,   \* tags a caller may give
    ToolCalls,  \* calls that may be in flight
    Unresolved, \* the name of a server of the registry that is none of Names
    MaxAnswers, \* bound: calls
    MaxOutside  \* bound: edits of the file by others

ASSUME ToolConstants == Unresolved \notin Names /\ MaxAnswers \in Nat /\ MaxOutside \in Nat

NoServer == [runs |-> "none", on |-> FALSE, tags |-> {}]
Entry(runs, on, tags) == [runs |-> runs, on |-> on, tags |-> tags]
ServerEntries == [runs : {"old", "new"}, on : BOOLEAN, tags : SUBSET ToolTags]

VARIABLES
    flags,    \* --enable-internal-tools, and the list of --internal-tools
    file,     \* mcp.json: name -> entry
    readable, \* it can be parsed
    calls,    \* call -> what it was given and where it is
    answer,   \* the last answer
    outside   \* edits by others so far

toolVars == <<flags, file, readable, calls, answer, outside>>

Tools == {"search", "registry_status", "registry_info", "registry_list", "info", "edit", "list",
          "status", "enable", "disable", "reload", "install", "uninstall", "update"}

(* TOOL_MAPPING: a word of the list is a tool or a category.               *)
ToolsOf(word) ==
    CASE word = "discovery" -> {"search", "registry_status", "registry_info", "registry_list", "info"}
      [] word = "management" -> {"list", "status", "enable", "disable", "reload", "edit"}
      [] word = "installation" -> {"install", "uninstall", "update"}
      [] word = "safe" -> {"search", "registry_info", "registry_list", "info", "list", "status"}
      [] OTHER -> {word} \cap Tools

(* parseToolsList: with a word it does not know the process exits.         *)
ParseToolsList(words) == UNION {ToolsOf(w) : w \in words}

NoCall ==
    [at |-> "none", srv |-> NoServer, asked |-> NoServer, from |-> NoServer, edit |-> NoServer, keep |-> FALSE]

ToolsInit ==
    /\ \E all \in BOOLEAN, words \in {{}, {"safe", "install"}} :
           flags = [all |-> all, list |-> ParseToolsList(words)]
    /\ file \in [Names -> {NoServer, Entry("old", FALSE, ToolTags)}]
    /\ readable = TRUE
    /\ calls = [c \in ToolCalls |-> NoCall]
    /\ answer = [n |-> 0, tool |-> "none", srv |-> Unresolved, from |-> Unresolved, named |-> Unresolved,
                 ok |-> TRUE, warned |-> FALSE, shown |-> {}]
    /\ outside = 0

(* getAvailableTools: the list, if there is one, names what is listed.     *)
AvailableTools ==
    IF flags.list # {} THEN flags.list ELSE IF flags.all THEN Tools ELSE {}

(* isToolEnabled: whatever the tool, only the first flag counts.           *)
IsToolEnabled == flags.all

-----------------------------------------------------------------------------
(* getServer, getAllServers: a file that cannot be parsed has no server.   *)
Seen(s) == IF readable THEN file[s] ELSE NoServer
There(s) == Seen(s) # NoServer

(* What a tool does: the entry it leaves server s with, and how it fares.  *)
Outcome(s, e, ok, warned) == [srv |-> s, entry |-> e, ok |-> ok, warned |-> warned]
Fails(s) == Outcome(s, file[s], FALSE, FALSE)
Leaves(s) == Outcome(s, file[s], TRUE, FALSE)

(* setServer throws if the file cannot be parsed.                          *)
Sets(s, e) == IF readable THEN Outcome(s, e, TRUE, FALSE) ELSE Fails(s)

EnableServer(s, tags) ==
    IF ~There(s) THEN Fails(s)
    ELSE IF file[s].on THEN Leaves(s)
    ELSE Sets(s, Entry(file[s].runs, TRUE, file[s].tags \cup tags))

DisableServer(s, tags) ==
    IF ~There(s) THEN Fails(s)
    ELSE IF ~file[s].on THEN Leaves(s)
    ELSE Sets(s, Entry(file[s].runs, FALSE, file[s].tags \ tags))

(* listServers, filtered by status and tags.                               *)
ListServers(status, tags) ==
    {s \in Names : /\ There(s)
                   /\ status \in {"enabled", "disabled"} => (file[s].on <=> status = "enabled")
                   /\ tags # {} => file[s].tags \cap tags # {}}

(* getServerStatus of one or all, each with its status.                    *)
GetServerStatus(named) ==
    {[name |-> s, status |-> IF file[s].on THEN "enabled" ELSE "disabled"] : s \in {n \in named : There(n)}}

(* Every edit has to give a command or a URL again; a new name is free.    *)
ValidateServerConfig(s, n, transport) == transport /\ (n # s => ~There(n))

(* Mutant of UpdateServerConfig: that the new name was free is trusted.    *)
UpdateServerConfigUnchecked(s, n, on) == IF ~There(s) THEN Fails(s) ELSE Sets(n, Entry("new", on, file[s].tags))

(* updateServerConfig: a renamed server is written under its new name, the *)
(* old entry stays; all that the edit does not give is as it is now.       *)
UpdateServerConfig(s, n, on) ==
    IF ~There(s) \/ (n # s /\ There(n)) THEN Fails(s)
    ELSE Sets(n, Entry("new", on, file[s].tags))

(* performDirectPackageInstallation: over a server that is there by force. *)
PerformDirectPackageInstallation(s, tags, force) ==
    IF There(s) /\ ~force THEN Fails(s) ELSE Sets(s, Entry("new", TRUE, tags))

(* installServer, the registry's answer found: any entry there is replaced,*)
(* the tags given were merged into it and go with it; that the file could  *)
(* not be written is a warning.                                            *)
InstallServer(s) == IF readable THEN Sets(s, Entry("new", TRUE, {})) ELSE Outcome(s, file[s], TRUE, TRUE)

(* uninstallServer: unless it removes all it removes nothing.              *)
UninstallServer(s, removeAll) ==
    IF ~removeAll THEN Leaves(s)
    ELSE IF readable THEN Outcome(s, NoServer, TRUE, FALSE)
    ELSE Outcome(s, file[s], TRUE, TRUE)

-----------------------------------------------------------------------------
InFlight == {c \in ToolCalls : calls[c].at # "none"}
Starts(c) == calls[c].at = "none" /\ answer.n + Cardinality(InFlight) < MaxAnswers

(* The answer to a call of the tool with server "from", under the name it  *)
(* gives the server, and what the call shows of the file.                  *)
Answers(c, tool, from, named, outcome, shown) ==
    /\ calls' = [calls EXCEPT ![c] = NoCall]
    /\ file' = [file EXCEPT ![outcome.srv] = outcome.entry]
    /\ answer' = [n |-> answer.n + 1, tool |-> tool, srv |-> outcome.srv, from |-> from,
                  named |-> named, ok |-> outcome.ok, warned |-> outcome.warned, shown |-> shown]
    /\ UNCHANGED <<flags, readable, outside>>

Does(c, tool, s, outcome) == Answers(c, tool, s, s, outcome, {})
Reads(c, tool, shown) == \E s \in Names : Answers(c, tool, s, s, Leaves(s), shown)

Awaits(c, call) ==
    /\ calls' = [calls EXCEPT ![c] = call]
    /\ UNCHANGED <<flags, file, readable, answer, outside>>

-----------------------------------------------------------------------------
McpEnable(c, s) ==
    /\ Starts(c)
    /\ \E tags \in SUBSET ToolTags :
           Does(c, "mcp_enable", s, IF IsToolEnabled THEN EnableServer(s, tags) ELSE Fails(s))

McpDisable(c, s) ==
    /\ Starts(c)
    /\ \E tags \in SUBSET ToolTags :
           Does(c, "mcp_disable", s, IF IsToolEnabled THEN DisableServer(s, tags) ELSE Fails(s))

(* A refusal shows no server, as an empty file does.                       *)
McpList(c) ==
    /\ Starts(c)
    /\ \E status \in {"enabled", "disabled", "all"}, tags \in SUBSET ToolTags :
           Reads(c, "mcp_list", IF IsToolEnabled THEN ListServers(status, tags) ELSE {})

(* The answer is of a form that has neither of the statuses that servers   *)
(* have: if there is one, making it fails and an empty answer is made.     *)
McpStatus(c) ==
    /\ Starts(c)
    /\ \E named \in {Names} \cup {{s} : s \in Names} :
           LET rows == IF IsToolEnabled THEN GetServerStatus(named) ELSE {}
           IN  Reads(c, "mcp_status",
                     IF \A r \in rows : r.status \in {"running", "stopped", "error", "unknown"}
                     THEN {r.name : r \in rows} ELSE {})

(* mcp_reload has the loader read the file, which is read anyway.          *)
McpReload(c, s) ==
    Starts(c) /\ Does(c, "mcp_reload", s, IF IsToolEnabled THEN Leaves(s) ELSE Fails(s))

McpUninstall(c, s) ==
    /\ Starts(c)
    /\ \E removeAll \in BOOLEAN :
           Does(c, IF removeAll THEN "mcp_uninstall removeAll" ELSE "mcp_uninstall", s,
                IF IsToolEnabled THEN UninstallServer(s, removeAll) ELSE Fails(s))

(* The tools that ask the registry, whichever flag is set.                 *)
Asks(c, tool) ==
    /\ Starts(c)
    /\ \E s \in Names, found \in BOOLEAN : Does(c, tool, s, IF found THEN Leaves(s) ELSE Fails(s))
McpSearch(c) == Asks(c, "mcp_search")
McpRegistryStatus(c) == Asks(c, "mcp_registry_status")
McpInfo(c) == Asks(c, "mcp_info")

-----------------------------------------------------------------------------
(* mcp_edit validates, which may ask a URL, ...                            *)
McpEdit(c, s, n) ==
    /\ Starts(c)
    /\ \E transport, on, preview \in BOOLEAN :
           IF IsToolEnabled /\ ValidateServerConfig(s, n, transport)
           THEN Awaits(c, [NoCall EXCEPT !.at = "edit", !.asked = s, !.srv = n, !.edit = on, !.keep = preview])
           ELSE Does(c, "mcp_edit", s, Fails(s))

(* ... and shows the changes or makes them.                                *)
Edited(c) ==
    /\ calls[c].at = "edit"
    /\ LET s == calls[c].asked
           n == calls[c].srv
       IN  \/ Does(c, "mcp_edit", s, Fails(s))
           \/ /\ calls[c].keep
              /\ Does(c, "mcp_edit preview", s, IF There(s) THEN Leaves(s) ELSE Fails(s))
           \/ /\ ~calls[c].keep
              /\ Answers(c, "mcp_edit", s, n, UpdateServerConfig(s, n, calls[c].edit), {})

-----------------------------------------------------------------------------
(* handleMcpInstall: with an id of the registry the server is that one, by *)
(* that name, and its prerequisites are fetched first.                     *)
McpInstall(c, s, id) ==
    /\ Starts(c)
    /\ \E tags \in SUBSET ToolTags, force, package, command \in BOOLEAN :
           IF ~IsToolEnabled
           THEN Does(c, "mcp_install", s, Fails(s))
           ELSE Awaits(c, [NoCall EXCEPT
                    !.at = IF package /\ command THEN "direct" ELSE IF package THEN "package" ELSE "registry",
                    !.asked = s, !.srv = id, !.from = id, !.edit = tags, !.keep = force])

DirectlyInstalled(c) ==
    /\ calls[c].at = "direct"
    /\ Answers(c, IF calls[c].keep THEN "mcp_install force" ELSE "mcp_install direct",
               calls[c].asked, calls[c].srv,
               PerformDirectPackageInstallation(calls[c].srv, calls[c].edit, calls[c].keep), {})

(* resolvePackageToServerName: the package may be another server's.        *)
ResolvePackageToServerName(c) ==
    /\ calls[c].at = "package"
    /\ \E name \in {calls[c].from, Unresolved} :
           Awaits(c, [calls[c] EXCEPT !.at = "registry", !.from = name])

(* resolveServerById, at last, finds the server or does not.               *)
Installed(c) ==
    /\ calls[c].at = "registry"
    /\ \/ Answers(c, "mcp_install", calls[c].asked, calls[c].from, InstallServer(calls[c].srv), {})
       \/ Does(c, "mcp_install", calls[c].asked, Fails(calls[c].srv))

-----------------------------------------------------------------------------
(* mcp_update: updateServer, of a server that is not there only to see,    *)
(* takes the entry as it is, and asks the registry, ...                    *)
UpdateServer(c, s, dryRun, latest) ==
    IF ~dryRun /\ ~There(s)
    THEN Does(c, "mcp_update", s, Fails(s))
    ELSE Awaits(c, [NoCall EXCEPT !.at = IF dryRun THEN "check" ELSE "update",
                                  !.srv = s, !.edit = Seen(s), !.keep = latest])

McpUpdate(c, s) ==
    /\ Starts(c)
    /\ \/ ~IsToolEnabled /\ Does(c, "mcp_update", s, Fails(s))
       \/ IsToolEnabled /\ \E dryRun, latest \in BOOLEAN : UpdateServer(c, s, dryRun, latest)

(* ... for a version called "latest" if none was given, which none is, and *)
(* writes the entry back.                                                  *)
Updated(c) ==
    /\ calls[c].at = "update"
    /\ LET s == calls[c].srv
       IN  \/ Does(c, "mcp_update", s, Fails(s))
           \/ ~calls[c].keep /\ Does(c, "mcp_update", s, Sets(s, calls[c].edit))

CheckedForUpdates(c) ==
    /\ calls[c].at = "check"
    /\ \E found \in BOOLEAN :
           LET s == calls[c].srv
           IN  Does(c, "mcp_update dryRun", s, IF found THEN Leaves(s) ELSE Fails(s))

-----------------------------------------------------------------------------
(* Others edit the file, which may leave it broken or mend it.             *)
Outside ==
    /\ outside < MaxOutside
    /\ outside' = outside + 1
    /\ \/ readable /\ \E s \in Names, e \in {NoServer, Entry("old", TRUE, {})} : file' = [file EXCEPT ![s] = e]
       \/ UNCHANGED file
    /\ readable' \in BOOLEAN
    /\ UNCHANGED <<flags, calls, answer>>

(* executeTool: the list of --internal-tools is not asked.                 *)
ExecuteTool(c) ==
    \/ McpList(c) \/ McpStatus(c) \/ McpSearch(c) \/ McpRegistryStatus(c) \/ McpInfo(c)
    \/ \E s \in Names :
          \/ McpEnable(c, s) \/ McpDisable(c, s) \/ McpReload(c, s)
          \/ McpUninstall(c, s) \/ McpUpdate(c, s)
          \/ \E n \in Names : McpEdit(c, s, n) \/ McpInstall(c, s, n)

ToolsNext ==
    \/ \E c \in ToolCalls :
          \/ ExecuteTool(c)
          \/ Edited(c)
          \/ DirectlyInstalled(c) \/ ResolvePackageToServerName(c) \/ Installed(c)
          \/ Updated(c) \/ CheckedForUpdates(c)
    \/ Outside

ToolsSpec == ToolsInit /\ [][ToolsNext]_toolVars

-----------------------------------------------------------------------------
(* What an answer that a call was a success says of the file after it: the *)
(* server is on, off, gone, or runs what was given; and what was only asked*)
(* for, or refused, or failed, leaves the file as it was.                  *)
HasHappened(a, f) ==
    CASE a.tool = "mcp_enable" -> f[a.srv] # NoServer /\ f[a.srv].on
      [] a.tool = "mcp_disable" -> f[a.srv] # NoServer /\ ~f[a.srv].on
      [] a.tool = "mcp_uninstall removeAll" -> a.warned \/ f[a.srv] = NoServer
      [] a.tool \in {"mcp_edit", "mcp_install direct", "mcp_install force"} -> f[a.srv].runs = "new"
      [] a.tool = "mcp_install" -> a.warned \/ f[a.srv].runs = "new"
      [] a.tool = "mcp_update" -> f[a.srv] # NoServer
      [] OTHER -> f = file

(* Neither a rename nor an installation without force takes a name that    *)
(* another server has, even one it got while the call was under way.       *)
TakesNoName(a) ==
    \/ a.tool = "mcp_edit" /\ a.srv # a.from
    \/ a.tool = "mcp_install direct"

(* An answer of one of 1mcp's tools is true of the file when it is given:  *)
(* a success has happened, a failure and a tool that is switched off have  *)
(* changed nothing, and no server was overwritten that the call was not to *)
(* touch (the handlers of core/tools/internal and their adapters).         *)
AnswerIsTrue ==
    answer'.n # answer.n =>
        /\ IF answer'.ok THEN HasHappened(answer', file') ELSE file' = file
        /\ ~flags.all => file' = file
        /\ answer'.ok /\ TakesNoName(answer') => Seen(answer'.srv) = NoServer

(* So it is of every answer that is given. *)
AnswersAreTrue == [][AnswerIsTrue]_toolVars
=============================================================================
