-------------------------- MODULE AppConsolidation --------------------------
(***************************************************************************)
(* Moving the MCP servers of desktop applications into the configuration   *)
(* file and back: commands/app/consolidate.ts, commands/app/restore.ts and *)
(* domains/backup/backupManager.ts.  An application's file has its own     *)
(* servers, or the one entry for 1mcp, or is torn by a write under way.    *)
(* Backups are named by the second they are made in; the lock is a file of *)
(* its own, which a process that dies leaves behind.                       *)
(***************************************************************************)
EXTENDS ConfigFile

CONSTANTS
    Apps,
    ServersOf,  \* application -> servers its own file has
    Jobs,       \* processes that run app commands
    MaxSeconds, \* bound: seconds that pass
    MaxFaults   \* bound: processes killed and writes that fail

ASSUME AppConstants ==
    /\ ServersOf \in [Apps -> SUBSET Servers]
    /\ Jobs \subseteq Procs
    /\ {MaxSeconds, MaxFaults} \subseteq Nat

VARIABLES
    appFile,  \* application -> "own", "1mcp" or "torn"
    locks,    \* applications whose lock file exists
    backups,  \* application -> second -> what was copied, and the checksum of what was read
    now,      \* the second it is
    jobs,     \* process -> the app command it is at
    collided, \* applications that had one backup written over another
    faults    \* processes killed and writes that failed

appVars == <<appFile, locks, backups, now, jobs, collided, faults>>
vars == <<fileVars, appVars>>

Seconds == 0 .. MaxSeconds
NoBackup == [copy |-> "none", sum |-> "none"]
NoApp == "no app"
NoJob == [at |-> "idle", app |-> NoApp, snapshot |-> {}, left |-> {}, sum |-> "none", second |-> 0]
Locked == {"snapshot", "import", "truncateApp", "writeApp", "unlock"}

AppsTypeOK ==
    /\ file \in Files
    /\ \A p \in Procs : procs[p].copy \in Contents
    /\ appFile \in [Apps -> {"own", "1mcp", "torn"}]
    /\ \A p \in Procs : jobs[p].at # "idle" => jobs[p].app \in Apps /\ p \in Jobs

Init ==
    /\ FileInit
    /\ appFile = [a \in Apps |-> "own"]
    /\ locks = {}
    /\ backups = [a \in Apps |-> [t \in Seconds |-> NoBackup]]
    /\ now = 0
    /\ jobs = [p \in Procs |-> NoJob]
    /\ collided = {}
    /\ faults = 0

-----------------------------------------------------------------------------
Goes(p, at) == jobs' = [jobs EXCEPT ![p].at = at]
Ends(p) == jobs' = [jobs EXCEPT ![p] = NoJob]

Begin(p, a, at) ==
    /\ p \in Jobs
    /\ procs[p].at = "idle" /\ jobs[p].at = "idle"
    /\ tasks < MaxTasks
    /\ tasks' = tasks + 1
    /\ jobs' = [jobs EXCEPT ![p] = [NoJob EXCEPT !.at = at, !.app = a,
                    !.left = IF appFile[a] = "own" THEN ServersOf[a] ELSE {}]]
    /\ UNCHANGED <<file, served, due, procs, appFile, locks, backups, now, collided, faults>>

(* consolidateApp up to its backup: an application that is consolidated is *)
(* skipped unless forced, one whose file is invalid in any case.           *)
Consolidate(p, a) ==
    /\ appFile[a] # "torn"
    /\ Begin(p, a, "sum")
    /\ named' = named \cup ServersOf[a]

(* Mutant of ReadSum: a forced run on an application takes no backup.      *)
ReadSumOnly(p) ==
    /\ jobs[p].at = "sum"
    /\ Goes(p, "lock")
    /\ UNCHANGED <<fileVars, appFile, locks, backups, now, collided, faults>>

(* createBackup: the file is read for its checksum and then copied.        *)
ReadSum(p) ==
    /\ jobs[p].at = "sum"
    /\ jobs' = [jobs EXCEPT ![p].at = "copy", ![p].sum = appFile[jobs[p].app]]
    /\ UNCHANGED <<fileVars, appFile, locks, backups, now, collided, faults>>

CopyBackup(p) ==
    LET a == jobs[p].app
    IN  /\ jobs[p].at = "copy"
        /\ backups' = [backups EXCEPT ![a][now] = [copy |-> appFile[a], sum |-> jobs[p].sum]]
        /\ collided' = IF backups[a][now] = NoBackup THEN collided ELSE collided \cup {a}
        /\ jobs' = [jobs EXCEPT ![p].at = "lock", ![p].second = now]
        /\ UNCHANGED <<fileVars, appFile, locks, now, faults>>

(* Mutant of TakeLock: the lock file is opened whether or not it is there. *)
TakeLockAnyway(p) ==
    /\ jobs[p].at = "lock"
    /\ locks' = locks \cup {jobs[p].app}
    /\ Goes(p, "snapshot")
    /\ UNCHANGED <<fileVars, appFile, backups, now, collided, faults>>

(* withFileLock: ten tries at a file that must not exist.                  *)
TakeLock(p) ==
    /\ jobs[p].at = "lock"
    /\ IF jobs[p].app \in locks THEN Ends(p) /\ UNCHANGED locks
       ELSE Goes(p, "snapshot") /\ locks' = locks \cup {jobs[p].app}
    /\ UNCHANGED <<fileVars, appFile, backups, now, collided, faults>>

(* importServersTo1mcp knows the servers of this moment, none if the file  *)
(* cannot be read.                                                         *)
Snapshot(p) ==
    /\ jobs[p].at = "snapshot"
    /\ jobs' = [jobs EXCEPT ![p].at = "import",
                            ![p].snapshot = {s \in Servers : file.has[s] # "none"}]
    /\ UNCHANGED <<fileVars, appFile, locks, backups, now, collided, faults>>

(* One server after another; one that cannot be imported is passed over.   *)
Import(p, s) ==
    /\ jobs[p].at = "import"
    /\ procs[p].at \in {"idle", "import"}
    /\ s \in jobs[p].left
    /\ jobs' = [jobs EXCEPT ![p].left = @ \ {s}]
    /\ procs' = IF s \in jobs[p].snapshot THEN procs
                ELSE [procs EXCEPT ![p] = [NoEdit EXCEPT !.at = "load", !.srv = s, !.entry = "on",
                                                         !.then = "import"]]
    /\ UNCHANGED <<file, served, due, tasks, named,
                   appFile, locks, backups, now, collided, faults>>

Imported(p) ==
    /\ jobs[p].at = "import"
    /\ procs[p].at \in {"idle", "import"}
    /\ jobs[p].left = {}
    /\ Goes(p, "truncateApp")
    /\ procs' = [procs EXCEPT ![p] = NoEdit]
    /\ UNCHANGED <<file, served, due, tasks, named,
                   appFile, locks, backups, now, collided, faults>>

(* The application's file is replaced by the generated one.                *)
TruncateApp(p) ==
    /\ jobs[p].at = "truncateApp"
    /\ appFile' = [appFile EXCEPT ![jobs[p].app] = "torn"]
    /\ Goes(p, "writeApp")
    /\ UNCHANGED <<fileVars, locks, backups, now, collided, faults>>

WriteApp(p) ==
    /\ jobs[p].at = "writeApp"
    /\ appFile' = [appFile EXCEPT ![jobs[p].app] = "1mcp"]
    /\ Goes(p, "unlock")
    /\ UNCHANGED <<fileVars, locks, backups, now, collided, faults>>

(* A write that fails is rolled back from the job's own backup.            *)
RollBack(p) ==
    LET a == jobs[p].app
    IN  /\ jobs[p].at \in {"truncateApp", "writeApp"}
        /\ faults < MaxFaults
        /\ faults' = faults + 1
        /\ appFile' = [appFile EXCEPT ![a] = backups[a][jobs[p].second].copy]
        /\ Goes(p, "unlock")
        /\ UNCHANGED <<fileVars, locks, backups, now, collided>>

Unlock(p) ==
    /\ jobs[p].at = "unlock"
    /\ locks' = locks \ {jobs[p].app}
    /\ Ends(p)
    /\ UNCHANGED <<fileVars, appFile, backups, now, collided, faults>>

-----------------------------------------------------------------------------
(* The backup listAppBackups puts first.                                   *)
Newest(a) ==
    CHOOSE t \in Seconds : /\ backups[a][t] # NoBackup
                           /\ \A u \in Seconds : backups[a][u] # NoBackup => u <= t

(* restoreSpecificApp, then rollbackFromBackup: the copy has to have the   *)
(* checksum of what was read.                                              *)
Restore(p, a) ==
    /\ \E t \in Seconds : backups[a][t] # NoBackup
    /\ backups[a][Newest(a)].copy = backups[a][Newest(a)].sum
    /\ Begin(p, a, "restore")
    /\ UNCHANGED named

RestoreTruncates(p) ==
    /\ jobs[p].at = "restore"
    /\ appFile' = [appFile EXCEPT ![jobs[p].app] = "torn"]
    /\ jobs' = [jobs EXCEPT ![p].at = "restored", ![p].second = Newest(jobs[p].app)]
    /\ UNCHANGED <<fileVars, locks, backups, now, collided, faults>>

RestoreWrites(p) ==
    /\ jobs[p].at = "restored"
    /\ appFile' = [appFile EXCEPT ![jobs[p].app] = backups[jobs[p].app][jobs[p].second].copy]
    /\ Ends(p)
    /\ UNCHANGED <<fileVars, locks, backups, now, collided, faults>>

-----------------------------------------------------------------------------
(* A process is killed wherever it is.                                     *)
Kill(p) ==
    /\ procs[p].at # "idle" \/ jobs[p].at # "idle"
    /\ faults < MaxFaults
    /\ faults' = faults + 1
    /\ procs' = [procs EXCEPT ![p] = NoEdit]
    /\ Ends(p)
    /\ UNCHANGED <<file, served, due, tasks, named, appFile, locks, backups, now, collided>>

Tick ==
    /\ now < MaxSeconds
    /\ now' = now + 1
    /\ UNCHANGED <<fileVars, appFile, locks, backups, jobs, collided, faults>>

AppNext ==
    \/ \E p \in Jobs :
          \/ \E a \in Apps : Consolidate(p, a) \/ Restore(p, a)
          \/ ReadSum(p) \/ CopyBackup(p) \/ TakeLock(p) \/ Snapshot(p)
          \/ \E s \in Servers : Import(p, s)
          \/ Imported(p) \/ TruncateApp(p) \/ WriteApp(p) \/ RollBack(p) \/ Unlock(p)
          \/ RestoreTruncates(p) \/ RestoreWrites(p)
    \/ \E p \in Procs : Kill(p)
    \/ Tick

Next == (FileNext /\ UNCHANGED appVars) \/ AppNext

(* Events of the file arrive and the debounce timer fires. *)
Spec == Init /\ [][Next]_vars /\ WF_vars(Reload /\ UNCHANGED appVars)
-----------------------------------------------------------------------------
(* A server that no command was given stays served: through torn reads,    *)
(* edits of other servers that overlap and overwrite each other, killed    *)
(* processes and imports.                                                  *)
UntouchedStaysServed == Enabled(Initial) \ named \subseteq served

(* The server comes to serve what a file that can be read says, if nothing *)
(* writes to it any more.                                                  *)
ServesTheFile ==
    \A c \in Contents : file = Whole(c) ~> (file # Whole(c) \/ served = Enabled(c))

(* What an application had of its own is in its file or in a backup, unless*)
(* one backup was written over another: whoever is killed, fails, rolls    *)
(* back or restores.                                                       *)
OriginalKept ==
    \A a \in Apps :
        \/ appFile[a] = "own"
        \/ \E t \in Seconds : backups[a][t].copy = "own"
        \/ a \in collided

(* One process at a time replaces the file of an application, and the lock *)
(* is free once no one does, unless one was killed.                        *)
LockIsSound ==
    \A a \in Apps :
        LET holders == {p \in Procs : jobs[p].app = a /\ jobs[p].at \in Locked}
        IN  /\ \A p, q \in holders : p = q
            /\ holders # {} => a \in locks
            /\ holders = {} /\ a \in locks => faults > 0

(* What the runs check of the app commands. *)
AppsAreSafe == OriginalKept /\ LockIsSound
=============================================================================
