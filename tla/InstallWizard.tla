--------------------------- MODULE InstallWizard ----------------------------
(***************************************************************************)
(* 1mcp mcp install --interactive: the loop of commands/mcp/install.ts, the*)
(* prompts of commands/mcp/utils/installWizard.ts and commands/mcp/wizard, *)
(* and what domains/server-management makes of the answers.                *)
(*                                                                         *)
(* A round asks for a server, a name, tags, variables, arguments and a     *)
(* confirmation, then checks the file, removes what is replaced, asks the  *)
(* registry and writes the entry.  Other commands write the file at any    *)
(* prompt and while the registry is asked.  One access of the file is one  *)
(* step here, ConfigFile takes it apart.  Repeating a prompt, a search or a*)
(* key that changes nothing is a stutter; layout, version and progress are *)
(* left out, and so is a file that cannot be read.                         *)
(***************************************************************************)
EXTENDS Naturals, Sequences

CONSTANTS
    Ids,        \* servers of the registry
    Names,      \* local names
    LocalName,  \* server -> the name derived from its id
    Containing, \* server -> those whose ids contain its id
    Results,    \* bound: what a search may find
    Packages,   \* server -> the types of its packages
    Remotes,    \* server -> the types of its remotes
    EnvVars,    \* server -> variable -> [required, default]
    Arguments,  \* server -> argument -> [required, default]
    AtStart,    \* names the file has
    MaxRounds,  \* bound: rounds of the wizard
    MaxOthers   \* bound: writes of other commands

ASSUME WizardConstants ==
    /\ LocalName \in [Ids -> Names]
    /\ \A id \in Ids : id \in Containing[id] /\ Containing[id] \subseteq Ids
    /\ AtStart \subseteq Names
    /\ "" \notin Names
    /\ {MaxRounds, MaxOthers} \subseteq Nat

VARIABLES
    wizard,  \* where the command is, and the answers so far
    entries, \* name -> entry of the file
    taken,   \* existingNames, as of the start of the round
    copies,  \* the backups made
    options, \* the id and the flags the command was given
    agreed,  \* the name the user last chose to override, while it is configured
    since,   \* names others wrote while the registry was asked
    rounds, others

asideVars == <<options, rounds, others>>
wizardVars == <<wizard, entries, taken, copies, agreed, since, asideVars>>

NoId == "no id"
NoEntry == [from |-> NoId]
AnEntry == [from |-> "elsewhere"]

Blank == [at |-> "search", server |-> NoId, list |-> <<>>, index |-> 1, name |-> "",
          override |-> FALSE, tags |-> {}, env |-> {}, args |-> {}, another |-> FALSE,
          discarded |-> FALSE]

There(file) == {n \in Names : file[n] # NoEntry}

WizardInit ==
    /\ options \in [given : Ids \cup {NoId}, force : BOOLEAN, dryRun : BOOLEAN]
    /\ wizard = [Blank EXCEPT !.at = IF options.given = NoId THEN "search" ELSE "confirmId",
                              !.server = options.given]
    /\ entries = [n \in Names |-> IF n \in AtStart THEN AnEntry ELSE NoEntry]
    /\ taken = AtStart
    /\ copies = {}
    /\ agreed = ""
    /\ since = {}
    /\ rounds = 1
    /\ others = 0

-----------------------------------------------------------------------------
(* The command waits for another answer; only the answers change.          *)
Waits(answers) ==
    /\ wizard' = answers
    /\ UNCHANGED <<entries, taken, copies, agreed, since, asideVars>>

(* cancelledResult, upon which the command exits.                          *)
Cancel == Waits([Blank EXCEPT !.at = IF wizard.discarded THEN "exit 1" ELSE "exit 0"])

(* run of a wizard without an id; what it answers may come to nothing.     *)
Run(discarded) ==
    /\ rounds' = rounds + 1
    /\ wizard' = [Blank EXCEPT !.discarded = discarded]
    /\ taken' = There(entries')
    /\ agreed' = ""
    /\ UNCHANGED <<options, others>>

(* The round is over: the user wanted another one, or the command exits.   *)
Another(code, discarded) ==
    IF wizard.another THEN Run(discarded)
    ELSE /\ wizard' = [Blank EXCEPT !.at = code]
         /\ UNCHANGED <<taken, agreed, asideVars>>

-----------------------------------------------------------------------------
(* An id on the command line, to be confirmed and known to the registry.   *)
ConfirmServerId ==
    /\ wizard.at = "confirmId"
    /\ Cancel \/ Waits([wizard EXCEPT !.at = "name"])

SearchServers ==
    /\ wizard.at = "search"
    /\ \/ Cancel
       \/ \E list \in Results : list # <<>> /\ Waits([wizard EXCEPT !.at = "results", !.list = list,
                                                                   !.index = 1])

Up == Waits([wizard EXCEPT !.index = IF @ > 1 THEN @ - 1 ELSE @])
Down == Waits([wizard EXCEPT !.index = IF @ < Len(wizard.list) THEN @ + 1 ELSE @])
Right == Waits([wizard EXCEPT !.at = "details"])
Left == Waits([wizard EXCEPT !.at = "search", !.list = <<>>])
Enter == Waits([wizard EXCEPT !.at = "name", !.server = wizard.list[wizard.index], !.list = <<>>,
                             !.index = 1])

(* A terminal that is none counts as Escape.                               *)
SelectFromResults == wizard.at = "results" /\ (Up \/ Down \/ Right \/ Left \/ Enter \/ Cancel)

ShowServerDetails == wizard.at = "details" /\ Waits([wizard EXCEPT !.at = "results"])

-----------------------------------------------------------------------------
(* collectConfiguration: the name, which may be emptied, ...               *)
AskName ==
    /\ wizard.at = "name"
    /\ \/ Cancel
       \/ \E n \in Names \cup {""} :
             Waits([wizard EXCEPT !.name = n, !.at = IF n \in taken THEN "conflict" ELSE "tags"])

Override ==
    /\ wizard' = [wizard EXCEPT !.at = "tags", !.override = TRUE]
    /\ agreed' = wizard.name
    /\ UNCHANGED <<entries, taken, copies, since, asideVars>>

(* ... what to do if there is one of that name, ...                        *)
ConflictAction ==
    /\ wizard.at = "conflict"
    /\ Cancel \/ Override \/ Waits([wizard EXCEPT !.at = "name"])

(* ... the tags, ...                                                       *)
AskTags ==
    /\ wizard.at = "tags"
    /\ \/ Cancel
       \/ \E tags \in {{}, {LocalName[wizard.server]}} :
             Waits([wizard EXCEPT !.at = "env", !.tags = tags])

(* What an answer to the prompt for one item amounts to; a required item    *)
(* that is left empty gets its default, or is dealt with as "without" says.*)
Amounts(item, answer, without) ==
    IF answer # "empty" THEN answer
    ELSE IF ~item.required THEN "skipped" ELSE IF item.default THEN "default" ELSE without

(* ... and values for variables: those with a default are set if they are  *)
(* required and the user will not look at them; else each one chosen is    *)
(* typed in, left empty or skipped.  Nothing declared, anything may be     *)
(* typed in.                                                               *)
Values(declared, without) ==
    LET vars == DOMAIN declared
        unasked == {<<v, "default">> : v \in {w \in vars : declared[w].required /\ declared[w].default}}
        asked(S, answers) == {<<v, Amounts(declared[v], answers[v], without)>> : v \in S}
    IN  IF vars = {} THEN {{}, {<<"manual", "typed">>}}
        ELSE {unasked} \cup
             UNION {{{x \in asked(S, answers) : x[2] # "skipped"} :
                       answers \in [S -> {"typed", "empty", "skipped"}]} : S \in SUBSET vars}

(* A required variable is set, if need be to nothing.                      *)
ConfigureEnvVars ==
    /\ wizard.at = "env"
    /\ \/ Cancel
       \/ \E env \in Values(EnvVars[wizard.server], "empty") :
             Waits([wizard EXCEPT !.at = "args", !.env = env])

(* ... and arguments, which are never set to nothing.                      *)
ConfigureArgs ==
    /\ wizard.at = "args"
    /\ \/ Cancel
       \/ \E args \in Values(Arguments[wizard.server], "skipped") :
             Waits([wizard EXCEPT !.at = "confirm", !.args = args])

(* Mutant of GoBack: what was agreed to before is kept.                    *)
GoBackKeeping ==
    /\ wizard' = [Blank EXCEPT !.at = "name", !.server = wizard.server, !.override = wizard.override,
                               !.discarded = wizard.discarded]
    /\ agreed' = ""
    /\ UNCHANGED <<entries, taken, copies, since, asideVars>>

(* The configuration is asked for anew.                                    *)
GoBack ==
    /\ wizard' = [Blank EXCEPT !.at = "name", !.server = wizard.server,
                               !.discarded = wizard.discarded]
    /\ agreed' = ""
    /\ UNCHANGED <<entries, taken, copies, since, asideVars>>

Confirm == wizard.at = "confirm" /\ (Cancel \/ GoBack \/ Waits([wizard EXCEPT !.at = "another"]))

(* The wizard run after an error is not looked at: the next one starts.    *)
AskInstallAnother ==
    /\ wizard.at = "another"
    /\ \/ wizard.discarded /\ UNCHANGED <<entries, copies, since>> /\ Run(FALSE)
       \/ /\ ~wizard.discarded
          /\ \E another \in BOOLEAN :
                /\ another => rounds < MaxRounds
                /\ Waits([wizard EXCEPT !.at = "install", !.another = another])

-----------------------------------------------------------------------------
(* serverName of the loop.                                                 *)
Target == IF wizard.name = "" THEN LocalName[wizard.server] ELSE wizard.name

MayReplace == options.force \/ wizard.override

Failed == UNCHANGED <<entries, copies, since>> /\ Another("exit 1", TRUE)

(* Mutant of Checks: the names the round began with are asked.             *)
ChecksTaken == Target \in taken

(* serverAlreadyExists *)
Checks == Target \in There(entries)

(* The early check, the dry run, and the removal of what is replaced.      *)
Install ==
    /\ wizard.at = "install"
    /\ \/ /\ Checks /\ ~MayReplace
          /\ UNCHANGED <<entries, copies, since>>
          /\ Another("exit 1", FALSE)
       \/ /\ Checks => MayReplace
          /\ options.dryRun
          /\ UNCHANGED <<entries, copies, since>>
          /\ Another("exit 0", FALSE)
       \/ /\ Checks => MayReplace
          /\ ~options.dryRun
          /\ wizard' = [wizard EXCEPT !.at = "fetch"]
          /\ since' = {}
          /\ IF Checks
             THEN /\ copies' = copies \cup {entries}
                  /\ entries' = [entries EXCEPT ![Target] = NoEntry]
             ELSE UNCHANGED <<entries, copies>>
          /\ UNCHANGED <<taken, agreed, asideVars>>

(* backupConfig throws.                                                    *)
BackupFails == wizard.at = "install" /\ Checks /\ MayReplace /\ ~options.dryRun /\ Failed

(* selectInstallationEndpoint: the first of the type, or the first.        *)
Preferred(types, type) == IF \E i \in DOMAIN types : types[i] = type THEN type ELSE types[1]

SelectInstallationEndpoint(id) ==
    CASE Packages[id] # <<>> -> Preferred(Packages[id], "npm")
      [] Packages[id] = <<>> /\ Remotes[id] # <<>> -> Preferred(Remotes[id], "streamable-http")
      [] OTHER -> "none"

(* createServerConfig: a process, run by npx or by the url of the remote.  *)
CreateServerConfig(id, tags) ==
    [from |-> id, command |-> IF Packages[id] # <<>> THEN "npx" ELSE "url",
     tags |-> tags \cup {Target, wizard.server}, env |-> {}, args |-> {}]

(* resolveServerById: the server itself, or what a search finds first that *)
(* contains its id.                                                        *)
MatchedServer(list, id) ==
    list[CHOOSE i \in DOMAIN list :
           list[i] \in Containing[id] /\ \A j \in 1 .. i - 1 : list[j] \notin Containing[id]]

Resolved(id) ==
    {id} \cup {MatchedServer(list, id) :
                 list \in {r \in Results : \E i \in DOMAIN r : r[i] \in Containing[id]}}

(* The registry has answered: whatever is there is written over.           *)
Installed ==
    /\ wizard.at = "fetch"
    /\ \E id \in Resolved(wizard.server) :
          /\ SelectInstallationEndpoint(id) # "none"
          /\ entries' = [entries EXCEPT ![Target] = CreateServerConfig(id, wizard.tags)]
    /\ Another("exit 0", FALSE)
    /\ UNCHANGED <<copies, since>>

(* The registry fails, or has no way to install the server.                *)
InstallFails == wizard.at = "fetch" /\ Failed

(* Other commands add, change and remove entries.                          *)
OthersWrite ==
    /\ others < MaxOthers
    /\ others' = others + 1
    /\ \E n \in Names, e \in {NoEntry, AnEntry} : entries' = [entries EXCEPT ![n] = e]
    /\ since' = IF wizard.at = "fetch" THEN since \cup {n \in Names : entries'[n] # entries[n]} ELSE since
    /\ UNCHANGED <<wizard, taken, copies, options, agreed, rounds>>

Asks ==
    \/ ConfirmServerId \/ SearchServers \/ SelectFromResults \/ ShowServerDetails
    \/ AskName \/ ConflictAction \/ AskTags \/ ConfigureEnvVars \/ ConfigureArgs
    \/ Confirm \/ AskInstallAnother

WizardNext == Asks \/ Install \/ BackupFails \/ Installed \/ InstallFails \/ OthersWrite

WizardSpec == WizardInit /\ [][WizardNext]_wizardVars

-----------------------------------------------------------------------------
(* Whatever is answered, taken back and changed by others meanwhile, an    *)
(* entry that is there is lost to the wizard only if the user, for the     *)
(* configuration confirmed, agreed to override that very name, or gave     *)
(* --force; a copy of it has been made, and it was no dry run.  The one    *)
(* exception is an entry others wrote while the registry was asked, after  *)
(* the last look at the file (install.ts:377-463, configuration.ts:46-100).*)
WizardAsksFirst ==
    [][\A n \in Names :
         /\ others' = others
         /\ entries[n] # NoEntry
         /\ entries'[n] # entries[n]
         => /\ ~options.dryRun
            /\ \/ (options.force \/ agreed = n) /\ entries \in copies'
               \/ wizard.at = "fetch" /\ n \in since]_wizardVars

-----------------------------------------------------------------------------
(* Claims of the comments and of the prompts. *)

(* types.ts:100, "Environment variables for the server": what the user     *)
(* configured and was shown for confirmation is in the entry written.      *)
ConfiguredIsInstalled ==
    [][wizard.at = "fetch" /\ Installed
         => /\ entries'[Target].env = wizard.env
            /\ entries'[Target].args = wizard.args]_wizardVars

(* serverInstallationService.ts:165, "Find exact or partial matches with   *)
(* priority order": a server that is found by its very id is the match.    *)
ExactMatchFirst ==
    \A list \in Results, id \in Ids :
        (\E i \in DOMAIN list : list[i] = id) => MatchedServer(list, id) = id

(* installWizard.ts:120, "Confirmed - proceed to next step": what the user *)
(* confirmed is installed, or at least attempted.                          *)
ConfirmedIsTried ==
    [][wizard.at = "another" /\ wizard'.at # "another" => wizard'.at = "install"]_wizardVars

(* What is to be replaced stays until there is something to replace it by. *)
FailureKeeps ==
    [][InstallFails => \A b \in copies : b[Target] # NoEntry => entries[Target] # NoEntry]_wizardVars
=============================================================================
