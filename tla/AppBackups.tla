----------------------------- MODULE AppBackups -----------------------------
(***************************************************************************)
(* One command after another on the configuration files of desktop         *)
(* applications: what 1mcp finds in them (domains/discovery/               *)
(* appDiscovery.ts, appPresets.ts), backs up, replaces and restores        *)
(* (commands/app/consolidate.ts, restore.ts, backups.ts, status.ts,        *)
(* domains/backup/backupManager.ts).  What two commands at once do, and the*)
(* import into the configuration of 1mcp, is in AppConsolidation.          *)
(*                                                                         *)
(* An application has files in several places, and two may share a file.   *)
(* A backup is two files, the copy and its metadata, named by application  *)
(* and second.  Files change between commands and while one asks.          *)
(***************************************************************************)
EXTENDS Integers, Sequences, FiniteSets

CONSTANTS
    Programs,       \* applications
    Paths,          \* configuration files
    Installations,  \* bound: program -> [format, paths]
    Texts,          \* bound: what a user has in a file
    MaxTicks,       \* bound: seconds that pass
    MaxChanges,     \* bound: changes of files
    MaxCommands,    \* bound: commands
    MaxKills        \* bound: commands killed

ASSUME BackupConstants ==
    /\ IsFiniteSet(Programs)
    /\ {MaxTicks, MaxChanges, MaxCommands, MaxKills} \subseteq Nat

VARIABLES
    installed,  \* where each program has its files, and in which format
    disk,       \* path -> content
    store,      \* program -> second -> its backup
    clock,
    job,        \* the command under way
    saved,      \* what was ever backed up: <<path, content>>
    replaced,   \* program -> what its last consolidation replaced
    spoilt,     \* programs that had a backup overwritten or cleaned up
    count       \* bounds: changes, commands and kills so far

backupVars == <<installed, disk, store, clock, job, saved, replaced, spoilt, count>>

Ticks == 0 .. MaxTicks
Absent == [section |-> "absent", servers |-> {}, rest |-> FALSE]
Broken == [section |-> "broken", servers |-> {}, rest |-> FALSE]
NoMeta == [path |-> "none", sum |-> Absent]
NoCopy == [copy |-> Absent, meta |-> NoMeta]
NoCommand == [at |-> "idle", program |-> "none", path |-> "none", only |-> FALSE, todo |-> <<>>]
Unreplaced == <<"none", Absent>>

BackupInit ==
    /\ installed = <<>>
    /\ disk = [p \in Paths |-> Absent]
    /\ store = [a \in Programs |-> [t \in Ticks |-> NoCopy]]
    /\ clock = 0
    /\ job = NoCommand
    /\ saved = {}
    /\ replaced = [a \in Programs |-> Unreplaced]
    /\ spoilt = {}
    /\ count = [changes |-> 0, commands |-> 0, kills |-> 0]

-----------------------------------------------------------------------------
(* What is in a file.  Its servers are "stdio", "remote", "bare" (neither a*)
(* command nor a URL), "1mcp" (so named), "mention" (1mcp is part of its   *)
(* name or URL) or "renamed" (1mcp's proxy by another name).               *)

Valid(c) == c.section \notin {"absent", "broken"}
LooksLike1mcp == {"1mcp", "mention"}

(* extractServersFromConfig, the sections each format looks at. *)
Sections(format) ==
    CASE format = "vscode" -> {"mcp.servers", "mcpServers", "claude.mcpServers", "cline.mcpServers",
                               "continue.mcpServers"}
      [] format = "claude-desktop" -> {"mcpServers"}
      [] format = "generic" -> {"servers", "mcpServers", "top"}
      [] OTHER -> {"servers", "mcpServers"}

Extracted(format, c) == IF c.section \in Sections(format) THEN c.servers \ LooksLike1mcp ELSE {}

(* extractAndFilterServers *)
Importable(format, c) == Extracted(format, c) \ {"bare"}

(* detectConsolidationPattern: every server of a section looks like 1mcp;  *)
(* the first pattern is a case of the second.                              *)
Detected(c) ==
    /\ c.section \in {"mcpServers", "servers", "mcp.servers", "claude.mcpServers",
                      "cline.mcpServers", "continue.mcpServers", "mcp"}
    /\ c.servers # {} /\ c.servers \subseteq LooksLike1mcp

(* generateAppConfig: the whole file. *)
Generated(format) ==
    [section |-> CASE format = "vscode" -> "mcp.servers"
                   [] format = "augment" -> "augment"
                   [] OTHER -> "mcpServers",
     servers |-> {"1mcp"}, rest |-> FALSE]

(* getAppConfigPaths and analyzeConfigFile: files there are that parse. *)
ValidPaths(a) == {p \in installed[a].paths : Valid(disk[p])}

(* discoverAppConfigs and handleMultipleConfigs: any of them may be chosen.*)
Choices(a) == ValidPaths(a)

(* checkConsolidationStatus: one consolidated file is enough. *)
Consolidated(a) == \E p \in installed[a].paths : Detected(disk[p])

(* discoverInstalledApps *)
HasServers(a) == \E p \in ValidPaths(a) : Extracted(installed[a].format, disk[p]) # {}

(* app status *)
AppStatus(a) ==
    IF ValidPaths(a) = {} THEN "no-config"
    ELSE IF Consolidated(a) THEN "consolidated"
    ELSE IF HasServers(a) THEN "direct"
    ELSE "empty"

(* app discover: whom it tells to consolidate. *)
Recommended == {a \in Programs : HasServers(a)}

(* consolidateApp goes on, unless forced, only with what is not yet        *)
(* consolidated and has something to import.                               *)
Accepted(a, p) == ~Consolidated(a) /\ Importable(installed[a].format, disk[p]) # {}

-----------------------------------------------------------------------------
(* Backups. *)

(* verifyBackupIntegrity *)
Intact(b) == b.copy # Absent /\ b.copy = b.meta.sum

(* findBackupByMetaPath: metadata that can be read, and the copy is there. *)
Found(b) == b.copy # Absent /\ b.meta # NoMeta

(* app backups --verify *)
Verified(b) == Found(b) /\ Intact(b)

(* listAppBackups *)
Listed(a) == {t \in Ticks : Found(store[a][t])}

(* Mutant of NewestBackup: the list is sorted the other way. *)
OldestListed(a) == CHOOSE t \in Listed(a) : \A u \in Listed(a) : t <= u

NewestBackup(a) == CHOOSE t \in Listed(a) : \A u \in Listed(a) : u <= t

(* restoreAllApps: the newest of each, the latest first. *)
NewestOfAll ==
    LET with == {a \in Programs : Listed(a) # {}}
    IN  {s \in [1 .. Cardinality(with) -> with \X Ticks \X {"copy"}] :
            /\ {s[i][1] : i \in DOMAIN s} = with
            /\ \A i \in DOMAIN s : s[i][2] = NewestBackup(s[i][1])
            /\ \A i, j \in DOMAIN s : i < j => s[j][2] <= s[i][2]}

-----------------------------------------------------------------------------
(* The user. *)

Asking == job.at \in {"idle", "asks", "confirm"}

Installs(i) ==
    /\ installed = <<>>
    /\ installed' = i
    /\ UNCHANGED <<disk, store, clock, job, saved, replaced, spoilt, count>>

Changes(p, c) ==
    /\ installed # <<>> /\ Asking
    /\ count.changes < MaxChanges
    /\ disk[p] # c
    /\ disk' = [disk EXCEPT ![p] = c]
    /\ count' = [count EXCEPT !.changes = @ + 1]
    /\ UNCHANGED <<installed, store, clock, job, saved, replaced, spoilt>>

SecondPasses ==
    /\ installed # <<>> /\ Asking
    /\ clock < MaxTicks
    /\ clock' = clock + 1
    /\ UNCHANGED <<installed, disk, store, job, saved, replaced, spoilt, count>>

Starts(command) ==
    /\ installed # <<>> /\ job = NoCommand
    /\ count.commands < MaxCommands
    /\ count' = [count EXCEPT !.commands = @ + 1]
    /\ job' = command
    /\ UNCHANGED <<installed, disk, store, clock, saved, replaced, spoilt>>

(* The user says no; or validateOperation or the choice fails. *)
Declines ==
    /\ job.at \in {"asks", "confirm"}
    /\ job' = NoCommand
    /\ UNCHANGED <<installed, disk, store, clock, saved, replaced, spoilt, count>>

(* A command is killed; the metadata may be torn by it. *)
Dies(torn) ==
    /\ job.at \in {"meta", "replace", "restore"}
    /\ count.kills < MaxKills
    /\ count' = [count EXCEPT !.kills = @ + 1]
    /\ job' = NoCommand
    /\ store' = IF torn /\ job.at = "meta"
                THEN [store EXCEPT ![job.program][clock].meta = NoMeta] ELSE store
    /\ UNCHANGED <<installed, disk, clock, saved, replaced, spoilt>>

-----------------------------------------------------------------------------
(* app consolidate *)

(* consolidateApp up to its questions. *)
ConsolidateApp(a, p, force, only) ==
    /\ p \in Choices(a)
    /\ force \/ Accepted(a, p)
    /\ Starts([NoCommand EXCEPT !.at = "asks", !.program = a, !.path = p, !.only = only])

(* createBackup, the copy: a backup of the same second is overwritten. *)
CopyFile ==
    LET a == job.program
        p == job.path
    IN  /\ job.at = "asks"
        /\ disk[p] # Absent
        /\ store' = [store EXCEPT ![a][clock].copy = disk[p]]
        /\ saved' = saved \cup {<<p, disk[p]>>}
        /\ spoilt' = IF store[a][clock] = NoCopy THEN spoilt ELSE spoilt \cup {a}
        /\ job' = [job EXCEPT !.at = "meta"]
        /\ UNCHANGED <<installed, disk, clock, replaced, count>>

(* The metadata; with --backup-only that is all. *)
WriteMeta ==
    LET a == job.program
    IN  /\ job.at = "meta"
        /\ store' = [store EXCEPT ![a][clock].meta = [path |-> job.path, sum |-> disk[job.path]]]
        /\ replaced' = [replaced EXCEPT ![a] = Unreplaced]
        /\ job' = IF job.only THEN NoCommand ELSE [job EXCEPT !.at = "replace"]
        /\ UNCHANGED <<installed, disk, clock, saved, spoilt, count>>

(* Under the lock, the servers are imported and the file is replaced, or   *)
(* put back when that fails.                                               *)
Replace(fails) ==
    LET a == job.program
    IN  /\ job.at = "replace"
        /\ disk' = [disk EXCEPT ![job.path] =
              IF fails THEN store[a][clock].copy ELSE Generated(installed[a].format)]
        /\ replaced' = IF fails THEN replaced
                       ELSE [replaced EXCEPT ![a] = <<job.path, disk[job.path]>>]
        /\ job' = NoCommand
        /\ UNCHANGED <<installed, store, clock, saved, spoilt, count>>

-----------------------------------------------------------------------------
(* app restore, and app backups --cleanup *)

ToRestore(todo) == Starts([NoCommand EXCEPT !.at = "confirm", !.todo = todo])

RestoreApp(a) == Listed(a) # {} /\ ToRestore(<<<<a, NewestBackup(a), "copy">>>>)

(* restoreFromBackupFile takes the name of the metadata for that of the    *)
(* copy; the name of a copy is not found, as no metadata can be read there.*)
RestoreFile(a, t) == t \in Listed(a) /\ ToRestore(<<<<a, t, "meta">>>>)

RestoreAll ==
    /\ \E a \in Programs : Listed(a) # {}
    /\ \E s \in NewestOfAll : ToRestore(s)

Confirmed ==
    /\ job.at = "confirm"
    /\ job' = [job EXCEPT !.at = "restore"]
    /\ UNCHANGED <<installed, disk, store, clock, saved, replaced, spoilt, count>>

(* Mutant of Restored: the checksum is not compared. *)
RestoredUnchecked(b, name) ==
    IF name = "meta" \/ b.meta = NoMeta THEN disk ELSE [disk EXCEPT ![b.meta.path] = b.copy]

(* rollbackFromBackupPath reads the metadata that belong to the file named;*)
(* a backup that is not intact fails, and the next is tried.               *)
Restored(b, name) ==
    IF name = "meta" \/ b.meta = NoMeta \/ ~Intact(b) THEN disk ELSE [disk EXCEPT ![b.meta.path] = b.copy]

RollBackNext ==
    LET next == Head(job.todo)
    IN  /\ job.at = "restore"
        /\ disk' = Restored(store[next[1]][next[2]], next[3])
        /\ job' = IF Len(job.todo) = 1 THEN NoCommand ELSE [job EXCEPT !.todo = Tail(@)]
        /\ UNCHANGED <<installed, store, clock, saved, replaced, spoilt, count>>

(* cleanupOldBackups: of those listed. *)
Old(age) == {x \in Programs \X Ticks : x[2] \in Listed(x[1]) /\ x[2] + age <= clock}

(* cleanupBackups, of at least a day: every old backup, or, when it is     *)
(* killed, some of them, and of one only the copy.                         *)
CleanUp(age, half) ==
    LET old  == Old(age)
        Without(x) == IF x \in half THEN [store[x[1]][x[2]] EXCEPT !.copy = Absent] ELSE NoCopy
    IN  /\ installed # <<>> /\ job = NoCommand
        /\ count.commands < MaxCommands
        /\ half \subseteq old /\ Cardinality(half) <= 1
        /\ half # {} => count.kills < MaxKills
        /\ \E gone \in IF half = {} THEN {old} ELSE SUBSET old :
              /\ half \subseteq gone
              /\ store' = [a \in Programs |-> [t \in Ticks |->
                            IF <<a, t>> \in gone THEN Without(<<a, t>>) ELSE store[a][t]]]
              /\ spoilt' = spoilt \cup {x[1] : x \in gone}
        /\ count' = [count EXCEPT !.commands = @ + 1,
                                  !.kills = @ + Cardinality(half)]
        /\ UNCHANGED <<installed, disk, clock, job, saved, replaced>>

BackupNext ==
    \/ \E i \in Installations : Installs(i)
    \/ \E p \in Paths, c \in Texts : Changes(p, c)
    \/ SecondPasses
    \/ /\ installed # <<>> /\ job = NoCommand /\ count.commands < MaxCommands
       /\ \/ \E a \in Programs, p \in Paths, force, only \in BOOLEAN : ConsolidateApp(a, p, force, only)
          \/ \E a \in Programs : RestoreApp(a) \/ \E t \in Ticks : RestoreFile(a, t)
          \/ RestoreAll
          \/ \E age \in 1 .. MaxTicks, half \in SUBSET (Programs \X Ticks) : CleanUp(age, half)
    \/ CopyFile \/ WriteMeta \/ Confirmed \/ RollBackNext \/ Declines
    \/ \E fails \in BOOLEAN : Replace(fails)
    \/ \E torn \in BOOLEAN : Dies(torn)

BackupSpec == BackupInit /\ [][BackupNext]_backupVars

-----------------------------------------------------------------------------
(* Properties *)

(* Whatever a restore writes to a file was in that very file when a backup *)
(* was made: also when a backup was overwritten by one of another file, and*)
(* the command killed between copy and metadata (backupManager.ts:139-157).*)
RestoredWasThere ==
    [][\A p \in Paths : job.at = "restore" /\ disk'[p] # disk[p] => <<p, disk'[p]>> \in saved]_backupVars

(* app restore of a program undoes its last consolidation, whatever other  *)
(* programs share its file, unless one of its backups was overwritten in   *)
(* the same second or cleaned up, or a backup was made since               *)
(* (restore.ts:341-395).                                                   *)
Undoable ==
    \A a \in Programs : replaced[a] # Unreplaced /\ a \notin spoilt =>
        /\ Listed(a) # {}
        /\ LET b == store[a][NewestBackup(a)]
           IN  Verified(b) /\ <<b.meta.path, b.copy>> = replaced[a]

(* What the runs check of backups: both, at every step. *)
BackupsAreSound == RestoredWasThere /\ [][Undoable']_backupVars

(* Refuted: app restore brings a program back to before its consolidation. *)
(* After a second, forced one the newest backup has the file 1mcp wrote.   *)
RestoresOriginal ==
    \A a \in Programs : replaced[a] # Unreplaced => ~Detected(replaced[a][2])

(* Refuted: the restore of a backup that --verify calls valid brings its   *)
(* file back: app restore --backup looks for the metadata of the metadata. *)
ListedRestores ==
    [][RollBackNext =>
          LET b == store[Head(job.todo)[1]][Head(job.todo)[2]]
          IN  Verified(b) => disk'[b.meta.path] = b.copy]_backupVars

(* Refuted: what status calls consolidated has no servers of its own left. *)
(* One of several files is enough, and the others are skipped for ever.    *)
ConsolidatedIsWhole ==
    installed # <<>> => \A a \in Programs : AppStatus(a) = "consolidated" =>
        \A p \in ValidPaths(a) : Importable(installed[a].format, disk[p]) = {}

(* Refuted: app consolidate accepts what app discover recommends: not so if*)
(* another file of the program is consolidated (discover.ts:123).          *)
RecommendedIsAccepted ==
    installed # <<>> => \A a \in Recommended : \E p \in Choices(a) : Accepted(a, p)

(* Refuted: a file that 1mcp wrote for a program is recognised as such: not*)
(* so in the format of augment, whose section neither detection nor        *)
(* extraction knows.                                                       *)
WrittenIsDetected ==
    [][\A a \in Programs : replaced'[a] # replaced[a] /\ replaced'[a] # Unreplaced
          => AppStatus(a)' = "consolidated"]_backupVars

(* Refuted: what else is in a file of an application stays: VS Code's      *)
(* settings.json is replaced as a whole.                                   *)
OtherSettingsStay ==
    [][\A p \in Paths : disk[p].rest /\ disk'[p].servers = {"1mcp"} => disk'[p].rest]_backupVars
=============================================================================
