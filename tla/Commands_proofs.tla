-------------------------- MODULE Commands_proofs ---------------------------
(***************************************************************************)
(* Proofs about the commands that edit files: the configuration file under *)
(* overlapping edits, the files of applications under consolidation and    *)
(* restore, the installation wizard, and the backups of those files; and   *)
(* about the servers that follow the configuration file when it is edited. *)
(***************************************************************************)
EXTENDS AppConsolidation, InstallWizard, AppBackups, ServerLifecycle,
    FiniteSetTheorems, WellFoundedInduction, TLAPS

-----------------------------------------------------------------------------
(* The configuration file.                                                 *)

EditStates ==
    [at : {"idle", "load", "fetch", "truncate", "write", "import"},
     srv : Servers \cup {"none"}, entry : Entries, copy : Contents,
     then : {"idle", "again", "fetch", "import"}]

FileTypeOK ==
    /\ file \in Files
    /\ procs \in [Procs -> EditStates]

(* Whatever is about to be written, and whatever can be read, has the      *)
(* servers no command was given as they were at the start: an edit changes *)
(* the one entry it names in a copy of a whole file.                       *)
KeepsUntouched(content, given) == \A s \in Servers \ given : content[s] = Initial[s]

UntouchedInv ==
    /\ FileTypeOK
    /\ \A p \in Procs : procs[p].at # "idle" => procs[p].srv \in named
    /\ \A p \in Procs : procs[p].at \in {"truncate", "write"} => KeepsUntouched(procs[p].copy, named)
    /\ file.state = "whole" => KeepsUntouched(file.has, named)
    /\ UntouchedStaysServed

(* What the readings of a file are made of.                                *)
LEMMA ContentFacts ==
    /\ NoEdit \in EditStates
    /\ \A c \in Contents : Whole(c) \in Files /\ Whole(c).state = "whole" /\ Whole(c).has = c
    /\ \A state \in {"empty", "garbled"} : Unread(state) \in Files /\ Unread(state).state = state
    /\ \A f \in Files : f.has \in Contents /\ f.state \in {"whole", "empty", "garbled"}
<1>1. "none" \in Entries /\ Initial \in Contents
  BY ConfigConstants DEF Entries
<1>2. NoEdit \in EditStates
  BY <1>1 DEF NoEdit, EditStates
<1>3. \A c \in Contents : Whole(c) \in Files /\ Whole(c).state = "whole" /\ Whole(c).has = c
  BY DEF Whole, Files
<1>4. \A state : Unread(state).state = state /\ Unread(state).has \in Contents
  BY <1>1 DEF Unread, Contents
<1>5. QED
  BY <1>2, <1>3, <1>4 DEF Files

(* A step of one edit.                                                     *)
LEMMA EditStepInv ==
    ASSUME UntouchedInv, NEW p \in Procs, NEW e \in EditStates,
           procs' = [procs EXCEPT ![p] = e],
           named \subseteq named',
           e.at # "idle" => e.srv \in named',
           e.at \in {"truncate", "write"} => KeepsUntouched(e.copy, named),
           \/ file' = file
           \/ \E state \in {"empty", "garbled"} : file' = Unread(state)
           \/ procs[p].at = "write" /\ file' = Whole(procs[p].copy),
           served' = served
    PROVE  UntouchedInv'
<1>1. /\ procs \in [Procs -> EditStates] /\ file \in Files
      /\ \A c : KeepsUntouched(c, named) => KeepsUntouched(c, named')
  BY DEF UntouchedInv, FileTypeOK, KeepsUntouched
<1>2. /\ procs' \in [Procs -> EditStates] /\ procs'[p] = e
      /\ \A q \in Procs \ {p} : procs'[q] = procs[q]
  BY <1>1
<1>3. procs[p].copy \in Contents
  BY <1>1 DEF EditStates
<1>4. file' \in Files /\ (file'.state = "whole" => KeepsUntouched(file'.has, named'))
  BY <1>1, <1>3, ContentFacts DEF UntouchedInv
<1>5. FileTypeOK'
  BY <1>2, <1>4 DEF FileTypeOK
<1>6. \A q \in Procs : procs'[q].at # "idle" => procs'[q].srv \in named'
  BY <1>2 DEF UntouchedInv
<1>7. \A q \in Procs : procs'[q].at \in {"truncate", "write"} => KeepsUntouched(procs'[q].copy, named')
  BY <1>1, <1>2 DEF UntouchedInv
<1>8. UntouchedStaysServed'
  BY DEF UntouchedInv, UntouchedStaysServed
<1>9. QED
  BY <1>4, <1>5, <1>6, <1>7, <1>8 DEF UntouchedInv

(* A process begins an edit: the server it names counts as named from then *)
(* on.                                                                     *)
LEMMA BeginsInv ==
    ASSUME UntouchedInv, NEW p \in Procs, NEW s \in Servers,
           \E r \in Servers, e \in Entries, then \in {"idle", "again", "fetch"} : Begins(p, r, e, then)
    PROVE  UntouchedInv'
<1>1. PICK r \in Servers, e \in Entries, then \in {"idle", "again", "fetch"} : Begins(p, r, e, then)
  OBVIOUS
<1> DEFINE edit == [NoEdit EXCEPT !.at = "load", !.srv = r, !.entry = e, !.then = then]
<1>2. edit \in EditStates /\ edit.at = "load" /\ edit.srv = r
  BY ContentFacts DEF EditStates
<1>3. procs' = [procs EXCEPT ![p] = edit] /\ named' = named \cup {r} /\ UNCHANGED <<file, served>>
  BY <1>1 DEF Begins
<1> HIDE DEF edit
<1>4. QED
  BY <1>2, <1>3, EditStepInv

(* A command or a tool call begins an edit of one server.                  *)
LEMMA CommandsBegin ==
    ASSUME UntouchedInv, NEW p \in Procs, NEW s \in Servers, Commands(p, s) \/ ToolCalls(p, s)
    PROVE  \E r \in Servers, e \in Entries, then \in {"idle", "again", "fetch"} : Begins(p, r, e, then)
<1>1. Seen(s) \in Entries /\ {"on", "off", "none"} \subseteq Entries
  BY ContentFacts DEF Seen, UntouchedInv, FileTypeOK, Contents, Entries
<1>2. CASE Commands(p, s)
  BY <1>1, <1>2
     DEF Commands, AddCommand, EnableCommand, DisableCommand, UpdateCommand, RemoveCommand,
         UninstallCommand, InstallCommand, RunInteractiveInstallation
<1>3. CASE ToolCalls(p, s)
  BY <1>1, <1>3
     DEF ToolCalls, EnableServer, DisableServer, UpdateServerConfig, UpdateServer, InstallServer,
         DirectPackageInstallation, UninstallServer
<1>4. QED
  BY <1>2, <1>3

(* What follows an edit is an edit of the same server, or nothing.         *)
LEMMA ThenFacts ==
    ASSUME NEW edit \in EditStates
    PROVE  /\ Then(edit) \in EditStates
           /\ Then(edit).at \in {"idle", "load", "fetch", "import"}
           /\ Then(edit).at # "idle" => Then(edit).srv = edit.srv
<1>1. Initial \in Contents
  BY ConfigConstants
<1>2. CASE edit.then = "idle"
  BY <1>2, ContentFacts DEF Then, NoEdit
<1>3. CASE edit.then = "again"
  BY <1>1, <1>3 DEF Then, EditStates
<1>4. CASE edit.then \in {"fetch", "import"}
  <2>1. Then(edit) = [edit EXCEPT !.at = edit.then, !.copy = Initial]
    BY <1>4 DEF Then
  <2>2. QED
    BY <1>1, <1>4, <2>1 DEF EditStates
<1>5. QED
  BY <1>2, <1>3, <1>4 DEF EditStates

(* A process that edits the file reads it, asks the registry, writes it in *)
(* two steps, or is killed.                                                *)
LEMMA EditInv ==
    ASSUME UntouchedInv, NEW p \in Procs,
           Abandon(p) \/ Fetched(p) \/ Load(p) \/ Truncate(p) \/ Write(p)
    PROVE  UntouchedInv'
<1>1. /\ procs \in [Procs -> EditStates] /\ procs[p] \in EditStates /\ file \in Files
      /\ procs[p].at # "idle" => procs[p].srv \in named
      /\ procs[p].at \in {"truncate", "write"} => KeepsUntouched(procs[p].copy, named)
      /\ file.state = "whole" => KeepsUntouched(file.has, named)
  BY DEF UntouchedInv, FileTypeOK
<1>2. NoEdit \in EditStates /\ NoEdit.at = "idle"
  BY ContentFacts DEF NoEdit
<1>3. CASE Abandon(p)
  BY <1>2, <1>3, EditStepInv DEF Abandon
<1>4. CASE Fetched(p)
  <2> DEFINE e == [procs[p] EXCEPT !.at = "load", !.entry = "on", !.then = "idle"]
  <2>1. e \in EditStates /\ e.at = "load" /\ e.srv = procs[p].srv
    BY <1>1 DEF EditStates, Entries
  <2>2. procs' = [procs EXCEPT ![p] = e]
    BY <1>4 DEF Fetched
  <2> HIDE DEF e
  <2>3. QED
    BY <1>1, <1>4, <2>1, <2>2, EditStepInv DEF Fetched
<1>5. CASE Load(p)
  <2> DEFINE changed == [file.has EXCEPT ![procs[p].srv] = procs[p].entry]
             e == [procs[p] EXCEPT !.at = "truncate", !.copy = changed]
  <2>1. /\ procs[p].at = "load" /\ UNCHANGED <<file, served, named>>
        /\ \/ procs' = [procs EXCEPT ![p] = NoEdit]
           \/ procs' = [procs EXCEPT ![p] = Then(procs[p])]
           \/ file.state = "whole" /\ procs' = [procs EXCEPT ![p] = e]
    BY <1>5 DEF Load
  <2>2. CASE procs' = [procs EXCEPT ![p] = NoEdit]
    BY <1>2, <2>1, <2>2, EditStepInv
  <2>3. CASE procs' = [procs EXCEPT ![p] = Then(procs[p])]
    BY <1>1, <2>1, <2>3, ThenFacts, EditStepInv
  <2>4. CASE file.state = "whole" /\ procs' = [procs EXCEPT ![p] = e]
    <3>1. file.has \in Contents /\ procs[p].entry \in Entries
      BY <1>1, ContentFacts DEF EditStates
    <3>2. changed \in Contents /\ KeepsUntouched(changed, named)
      BY <1>1, <2>1, <2>4, <3>1 DEF Contents, KeepsUntouched
    <3> HIDE DEF changed
    <3>3. e \in EditStates /\ e.at = "truncate" /\ e.srv = procs[p].srv /\ e.copy = changed
      BY <1>1, <3>2 DEF EditStates
    <3> HIDE DEF e
    <3>4. QED
      BY <1>1, <2>1, <2>4, <3>2, <3>3, EditStepInv
  <2>5. QED
    BY <2>1, <2>2, <2>3, <2>4
<1>6. CASE Truncate(p)
  <2> DEFINE e == [procs[p] EXCEPT !.at = "write"]
  <2>1. e \in EditStates /\ e.at = "write" /\ e.srv = procs[p].srv /\ e.copy = procs[p].copy
    BY <1>1 DEF EditStates
  <2>2. /\ procs' = [procs EXCEPT ![p] = e] /\ procs[p].at = "truncate"
        /\ file' = Unread("empty") /\ UNCHANGED <<served, named>>
    BY <1>6 DEF Truncate
  <2> HIDE DEF e
  <2>3. QED
    BY <1>1, <2>1, <2>2, EditStepInv
<1>7. CASE Write(p)
  <2>1. /\ procs' = [procs EXCEPT ![p] = Then(procs[p])] /\ procs[p].at = "write"
        /\ file' = Whole(procs[p].copy) \/ file' = Unread("garbled")
        /\ UNCHANGED <<served, named>>
    BY <1>7 DEF Write
  <2>2. QED
    BY <1>1, <2>1, ThenFacts, EditStepInv
<1>8. QED
  BY <1>3, <1>4, <1>5, <1>6, <1>7

(* Every step of the file keeps UntouchedInv, and none makes a server      *)
(* unnamed.                                                                *)
LEMMA FileNextInv == UntouchedInv /\ FileNext => UntouchedInv' /\ named \subseteq named'
<1> SUFFICES ASSUME UntouchedInv, FileNext PROVE UntouchedInv' /\ named \subseteq named'
  OBVIOUS
<1>1. CASE Reload
  <2>1. /\ UNCHANGED <<file, procs, named>>
        /\ served' = served \/ (file.state = "whole" /\ served' = Enabled(file.has))
    BY <1>1 DEF Reload, Parses
  <2>2. UntouchedStaysServed'
    BY <2>1 DEF UntouchedInv, UntouchedStaysServed, Enabled, KeepsUntouched
  <2>3. QED
    BY <2>1, <2>2 DEF UntouchedInv, FileTypeOK, KeepsUntouched
<1>2. ASSUME NEW p \in Procs, NEW s \in Servers, Commands(p, s) \/ ToolCalls(p, s)
      PROVE  UntouchedInv' /\ named \subseteq named'
  <2>1. UntouchedInv'
    BY <1>2, CommandsBegin, BeginsInv
  <2>2. named \subseteq named'
    BY <1>2, CommandsBegin DEF Begins
  <2>3. QED
    BY <2>1, <2>2
<1>3. ASSUME NEW p \in Procs, Abandon(p) \/ Fetched(p) \/ Load(p) \/ Truncate(p) \/ Write(p)
      PROVE  UntouchedInv' /\ named \subseteq named'
  <2>1. named' = named
    BY <1>3 DEF Abandon, Fetched, Load, Truncate, Write
  <2>2. QED
    BY <1>3, <2>1, EditInv
<1>4. QED
  BY <1>1, <1>2, <1>3 DEF FileNext

-----------------------------------------------------------------------------
(* The files of the applications.                                          *)

JobStates ==
    {"idle", "sum", "copy", "lock", "snapshot", "import", "truncateApp", "writeApp", "unlock",
     "restore", "restored"}
AppStates == {"own", "1mcp", "torn"}
JobRecords ==
    [at : JobStates, app : Apps \cup {NoApp}, snapshot : SUBSET Servers, left : SUBSET Servers,
     sum : AppStates \cup {"none"}, second : Seconds]
Copies == [copy : AppStates, sum : AppStates \cup {"none"}] \cup {NoBackup}

JobsTypeOK ==
    /\ jobs \in [Procs -> JobRecords]
    /\ appFile \in [Apps -> AppStates]
    /\ backups \in [Apps -> [Seconds -> Copies]]
    /\ now \in Seconds
    /\ faults \in Nat
    /\ \A p \in Procs : jobs[p].at # "idle" => jobs[p].app \in Apps

(* What a job is still to import was named when it began.                  *)
ImportsAreNamed ==
    \A p \in Procs :
        jobs[p].at \in {"sum", "copy", "lock", "snapshot", "import"} => jobs[p].left \subseteq named

(* What a job restores, if its write fails or because it was asked to, has *)
(* been backed up.                                                         *)
BackupIsThere ==
    \A p \in Procs :
        /\ jobs[p].at \in {"lock", "snapshot", "import", "truncateApp", "writeApp", "unlock", "restored"}
              => backups[jobs[p].app][jobs[p].second] # NoBackup
        /\ jobs[p].at = "restore" => \E t \in Seconds : backups[jobs[p].app][t] # NoBackup

HasOwn(a) == \E t \in Seconds : backups[a][t].copy = "own"

(* Until the first backup nothing touches the file of an application: the  *)
(* jobs it has are before theirs, and there is nothing to restore.         *)
OwnIsSafe ==
    \A a \in Apps :
        \/ a \in collided
        \/ HasOwn(a)
        \/ /\ appFile[a] = "own"
           /\ \A t \in Seconds : backups[a][t] = NoBackup
           /\ \A p \in Procs : jobs[p].app = a => jobs[p].at \in {"idle", "sum", "copy"}

AppInv ==
    /\ UntouchedInv
    /\ JobsTypeOK
    /\ ImportsAreNamed
    /\ BackupIsThere
    /\ OwnIsSafe
    /\ LockIsSound

(* AppInv holds before any command.                                        *)
LEMMA AppInitInv == Init => AppInv
<1> SUFFICES ASSUME Init PROVE AppInv
  OBVIOUS
<1>1. UntouchedInv
  BY ContentFacts, ConfigConstants
     DEF Init, FileInit, UntouchedInv, FileTypeOK, KeepsUntouched, UntouchedStaysServed, NoEdit,
         Enabled
<1>2. NoJob \in JobRecords /\ NoBackup \in Copies /\ 0 \in Seconds
  BY AppConstants DEF NoJob, JobRecords, JobStates, Copies, Seconds
<1>3. JobsTypeOK
  BY <1>2 DEF Init, JobsTypeOK, AppStates, NoJob
<1>4. ImportsAreNamed /\ BackupIsThere /\ OwnIsSafe /\ LockIsSound
  BY DEF Init, NoJob, ImportsAreNamed, BackupIsThere, OwnIsSafe, LockIsSound, Locked
<1>5. QED
  BY <1>1, <1>3, <1>4 DEF AppInv

(* The file of 1mcp in a step of an application's job.                     *)
LEMMA ImportStepInv ==
    ASSUME UntouchedInv, UNCHANGED <<file, served>>, named \subseteq named',
           \/ UNCHANGED procs
           \/ \E p \in Procs : procs' = [procs EXCEPT ![p] = NoEdit]
           \/ \E p \in Procs, s \in named \cap Servers :
                 procs' = [procs EXCEPT ![p] = [NoEdit EXCEPT !.at = "load", !.srv = s,
                                                  !.entry = "on", !.then = "import"]]
    PROVE  UntouchedInv'
<1>1. CASE UNCHANGED procs
  BY <1>1 DEF UntouchedInv, FileTypeOK, KeepsUntouched, UntouchedStaysServed
<1>2. ASSUME NEW p \in Procs, procs' = [procs EXCEPT ![p] = NoEdit]
      PROVE  UntouchedInv'
  <2>1. NoEdit \in EditStates /\ NoEdit.at = "idle"
    BY ContentFacts DEF NoEdit
  <2>2. QED
    BY <1>2, <2>1, EditStepInv
<1>3. ASSUME NEW p \in Procs, NEW s \in named \cap Servers,
             procs' = [procs EXCEPT ![p] = [NoEdit EXCEPT !.at = "load", !.srv = s,
                                              !.entry = "on", !.then = "import"]]
      PROVE  UntouchedInv'
  <2> DEFINE e == [NoEdit EXCEPT !.at = "load", !.srv = s, !.entry = "on", !.then = "import"]
  <2>1. e \in EditStates /\ e.at = "load" /\ e.srv = s
    BY ContentFacts DEF EditStates, Entries
  <2> HIDE DEF e
  <2>2. procs' = [procs EXCEPT ![p] = e]
    BY <1>3 DEF e
  <2>3. QED
    BY <2>1, <2>2, EditStepInv
<1>4. QED
  BY <1>1, <1>2, <1>3

(* A step of one job, which becomes j, that leaves the locks and the       *)
(* backups alone, and the file of its application unless there is a backup.*)
LEMMA JobStepInv ==
    ASSUME AppInv, UntouchedInv', NEW p \in Procs, NEW j \in JobRecords,
           jobs' = [jobs EXCEPT ![p] = j],
           UNCHANGED <<locks, backups, now, collided>>,
           \/ UNCHANGED appFile
           \/ /\ \E x \in AppStates : appFile' = [appFile EXCEPT ![jobs[p].app] = x]
              /\ \E t \in Seconds : backups[jobs[p].app][t] # NoBackup,
           named \subseteq named', faults' \in Nat,
           j.at # "idle" => j.app \in Apps,
           j.at \in {"sum", "copy", "lock", "snapshot", "import"} => j.left \subseteq named',
           j.at \in {"lock", "snapshot", "import", "truncateApp", "writeApp", "unlock", "restored"}
              => backups[j.app][j.second] # NoBackup,
           j.at = "restore" => \E t \in Seconds : backups[j.app][t] # NoBackup,
           \/ j.at \in {"idle", "sum", "copy"}
           \/ j.app = jobs[p].app /\ jobs[p].at \notin {"idle", "sum", "copy"}
           \/ \E t \in Seconds : backups[j.app][t] # NoBackup,
           \/ /\ faults' = faults \/ faults' > 0
              /\ j.at \in Locked <=> jobs[p].at \in Locked
              /\ j.at \in Locked => j.app = jobs[p].app
           \/ faults' > 0 /\ j.at \notin Locked
    PROVE  AppInv'
<1>1. /\ jobs \in [Procs -> JobRecords]
      /\ jobs' \in [Procs -> JobRecords] /\ jobs'[p] = j
      /\ \A q \in Procs \ {p} : jobs'[q] = jobs[q]
  BY DEF AppInv, JobsTypeOK
<1>2. JobsTypeOK'
  BY <1>1 DEF AppInv, JobsTypeOK
<1>3. ImportsAreNamed'
  BY <1>1 DEF AppInv, ImportsAreNamed
<1>4. BackupIsThere'
  BY <1>1 DEF AppInv, BackupIsThere
<1>5. OwnIsSafe'
  <2> SUFFICES ASSUME NEW a \in Apps, a \notin collided, ~HasOwn(a)
               PROVE  /\ appFile'[a] = "own"
                      /\ \A t \in Seconds : backups[a][t] = NoBackup
                      /\ \A q \in Procs : jobs'[q].app = a => jobs'[q].at \in {"idle", "sum", "copy"}
    BY DEF OwnIsSafe, HasOwn
  <2>1. /\ appFile[a] = "own"
        /\ \A t \in Seconds : backups[a][t] = NoBackup
        /\ \A q \in Procs : jobs[q].app = a => jobs[q].at \in {"idle", "sum", "copy"}
    BY DEF AppInv, OwnIsSafe
  <2>2. appFile'[a] = "own"
    BY <2>1 DEF AppInv, JobsTypeOK
  <2>3. j.app = a => j.at \in {"idle", "sum", "copy"}
    BY <2>1
  <2>4. QED
    BY <1>1, <2>1, <2>2, <2>3
<1>6. LockIsSound'
  BY <1>1 DEF AppInv, JobsTypeOK, LockIsSound
<1>7. QED
  BY <1>2, <1>3, <1>4, <1>5, <1>6 DEF AppInv

(* What AppInv says of one job.                                            *)
LEMMA JobFacts ==
    ASSUME AppInv, NEW p \in Procs
    PROVE  /\ jobs \in [Procs -> JobRecords] /\ jobs[p] \in JobRecords
           /\ jobs[p].at # "idle" => jobs[p].app \in Apps
           /\ NoJob \in JobRecords /\ NoJob.at = "idle" /\ faults \in Nat /\ now \in Seconds
           /\ jobs[p].at \in {"lock", "snapshot", "import", "truncateApp", "writeApp", "unlock", "restored"}
                => /\ \E t \in Seconds : backups[jobs[p].app][t] # NoBackup
                   /\ backups[jobs[p].app][jobs[p].second].copy \in AppStates
<1>1. /\ jobs \in [Procs -> JobRecords] /\ jobs[p] \in JobRecords
      /\ jobs[p].at # "idle" => jobs[p].app \in Apps
      /\ faults \in Nat /\ now \in Seconds
  BY DEF AppInv, JobsTypeOK
<1>2. NoJob \in JobRecords /\ NoJob.at = "idle"
  BY AppConstants DEF NoJob, JobRecords, JobStates, Seconds
<1>3. jobs[p].second \in Seconds
  BY <1>1 DEF JobRecords
<1>4. ASSUME jobs[p].at \in {"lock", "snapshot", "import", "truncateApp", "writeApp", "unlock", "restored"}
      PROVE  /\ \E t \in Seconds : backups[jobs[p].app][t] # NoBackup
             /\ backups[jobs[p].app][jobs[p].second].copy \in AppStates
  <2>1. backups[jobs[p].app][jobs[p].second] # NoBackup
    BY <1>4 DEF AppInv, BackupIsThere
  <2>2. backups[jobs[p].app][jobs[p].second] \in Copies
    BY <1>1, <1>3, <1>4 DEF AppInv, JobsTypeOK
  <2>3. QED
    BY <1>3, <2>1, <2>2 DEF Copies
<1>5. QED
  BY <1>1, <1>2, <1>4

(* An app command begins, from what is in the application's file.          *)
LEMMA AppBeginInv ==
    ASSUME AppInv, NEW p \in Jobs, NEW a \in Apps, Consolidate(p, a) \/ Restore(p, a)
    PROVE  AppInv'
<1> p \in Procs
  BY AppConstants
<1>1. PICK at \in {"sum", "restore"}, left \in SUBSET Servers :
          /\ jobs[p].at = "idle"
          /\ jobs' = [jobs EXCEPT ![p] = [NoJob EXCEPT !.at = at, !.app = a, !.left = left]]
          /\ at = "sum" => left \subseteq named'
          /\ at = "restore" => \E t \in Seconds : backups[a][t] # NoBackup
          /\ named \subseteq named'
          /\ UNCHANGED <<file, served, procs, appFile, locks, backups, now, collided, faults>>
  <2>1. /\ ServersOf[a] \in SUBSET Servers
        /\ (IF appFile[a] = "own" THEN ServersOf[a] ELSE {}) \in SUBSET Servers
    BY AppConstants
  <2>2. CASE Consolidate(p, a)
    BY <2>1, <2>2 DEF Consolidate, Begin
  <2>3. CASE Restore(p, a)
    BY <2>1, <2>3 DEF Restore, Begin
  <2>4. QED
    BY <2>2, <2>3
<1> DEFINE j == [NoJob EXCEPT !.at = at, !.app = a, !.left = left]
<1>2. j \in JobRecords /\ j.at = at /\ j.app = a /\ j.left = left
  BY JobFacts DEF JobRecords, JobStates
<1>3. UntouchedInv'
  BY <1>1, ImportStepInv DEF AppInv
<1> HIDE DEF j
<1>4. jobs' = [jobs EXCEPT ![p] = j] /\ faults' \in Nat
  BY <1>1, JobFacts DEF j
<1>5. at \notin Locked /\ jobs[p].at \notin Locked
  BY <1>1 DEF Locked
<1>6. QED
  BY <1>1, <1>2, <1>3, <1>4, <1>5, JobStepInv

(* A job goes on to the next of its steps, none of which makes a backup or *)
(* takes or frees a lock.                                                  *)
LEMMA GoesOnInv ==
    ASSUME AppInv, NEW p \in Procs, NEW j \in JobRecords, UntouchedInv',
           jobs' = [jobs EXCEPT ![p] = j],
           UNCHANGED <<locks, backups, now, collided, named>>,
           faults' \in Nat /\ (faults' = faults \/ faults' > 0),
           \/ UNCHANGED appFile
           \/ \E x \in AppStates : appFile' = [appFile EXCEPT ![jobs[p].app] = x],
           j.app = jobs[p].app, j.second = jobs[p].second, j.left \subseteq jobs[p].left,
           \/ <<jobs[p].at, j.at>> \in {<<"snapshot", "import">>, <<"import", "import">>,
                  <<"import", "truncateApp">>, <<"truncateApp", "writeApp">>,
                  <<"truncateApp", "unlock">>, <<"writeApp", "unlock">>}
           \/ <<jobs[p].at, j.at>> = <<"sum", "copy">> /\ UNCHANGED appFile
    PROVE  AppInv'
<1>1. /\ jobs[p].at # "idle" /\ j.at # "idle"
      /\ jobs[p].at \in Locked <=> j.at \in Locked
      /\ j.at # "restore"
  BY DEF Locked
<1>2. jobs[p].at \in {"sum", "copy", "lock", "snapshot", "import"} => j.left \subseteq named'
  BY DEF AppInv, ImportsAreNamed
<1>3. j.at \in {"sum", "copy", "lock", "snapshot", "import"} => j.left \subseteq named'
  BY <1>2
<1>4. CASE <<jobs[p].at, j.at>> = <<"sum", "copy">> /\ UNCHANGED appFile
  BY <1>1, <1>3, <1>4, JobFacts, JobStepInv
<1>5. CASE <<jobs[p].at, j.at>> # <<"sum", "copy">>
  <2>1. jobs[p].at \in {"snapshot", "import", "truncateApp", "writeApp"}
    BY <1>5
  <2>2. backups[j.app][j.second] # NoBackup
    BY <2>1 DEF AppInv, BackupIsThere
  <2>3. QED
    BY <1>1, <1>3, <2>1, <2>2, JobFacts, JobStepInv
<1>6. QED
  BY <1>4, <1>5

(* The steps of a job that read, import servers or remember the file.      *)
LEMMA ImportingInv ==
    ASSUME AppInv, NEW p \in Procs,
           ReadSum(p) \/ Snapshot(p) \/ Imported(p) \/ \E s \in Servers : Import(p, s)
    PROVE  AppInv'
<1>1. /\ jobs[p] \in JobRecords /\ jobs \in [Procs -> JobRecords] /\ faults \in Nat
      /\ appFile \in [Apps -> AppStates]
      /\ jobs[p].at # "idle" => jobs[p].app \in Apps
  BY JobFacts DEF AppInv, JobsTypeOK
<1>2. /\ UNCHANGED <<appFile, locks, backups, now, collided, faults, file, served, named>>
      /\ jobs[p].at \in {"sum", "snapshot", "import"}
  BY DEF ReadSum, Snapshot, Imported, Import, fileVars
<1>3. UntouchedInv'
  <2>1. CASE UNCHANGED procs
    BY <1>2, <2>1, ImportStepInv DEF AppInv
  <2>2. CASE Imported(p)
    BY <1>2, <2>2, ImportStepInv DEF AppInv, Imported
  <2>3. ASSUME NEW s \in Servers, Import(p, s), procs' # procs
        PROVE  UntouchedInv'
    <3>1. s \in named
      BY <2>3 DEF Import, AppInv, ImportsAreNamed
    <3>2. procs' = [procs EXCEPT ![p] = [NoEdit EXCEPT !.at = "load", !.srv = s, !.entry = "on",
                                                         !.then = "import"]]
      BY <2>3 DEF Import
    <3>3. QED
      BY <1>2, <3>1, <3>2, ImportStepInv DEF AppInv
  <2>4. QED
    BY <2>1, <2>2, <2>3 DEF ReadSum, Snapshot, fileVars
<1>4. PICK j \in JobRecords :
          /\ jobs' = [jobs EXCEPT ![p] = j]
          /\ j.app = jobs[p].app /\ j.second = jobs[p].second /\ j.left \subseteq jobs[p].left
          /\ <<jobs[p].at, j.at>> \in {<<"sum", "copy">>, <<"snapshot", "import">>,
                 <<"import", "import">>, <<"import", "truncateApp">>}
  <2>1. CASE ReadSum(p)
    <3> DEFINE j == [jobs[p] EXCEPT !.at = "copy", !.sum = appFile[jobs[p].app]]
    <3>1. appFile[jobs[p].app] \in AppStates
      BY <1>1, <1>2
    <3>2. j \in JobRecords
      BY <1>1, <3>1 DEF JobRecords, JobStates
    <3>3. jobs' = [jobs EXCEPT ![p] = j] /\ jobs[p].at = "sum"
      BY <2>1 DEF ReadSum
    <3>4. j.app = jobs[p].app /\ j.second = jobs[p].second /\ j.left = jobs[p].left /\ j.at = "copy"
      BY <1>1 DEF JobRecords
    <3> HIDE DEF j
    <3>5. QED
      BY <3>2, <3>3, <3>4
  <2>2. CASE Snapshot(p)
    <3> DEFINE j == [jobs[p] EXCEPT !.at = "import", !.snapshot = {s \in Servers : file.has[s] # "none"}]
    <3>1. j \in JobRecords
      BY <1>1 DEF JobRecords, JobStates
    <3>2. jobs' = [jobs EXCEPT ![p] = j] /\ jobs[p].at = "snapshot"
      BY <2>2 DEF Snapshot
    <3>3. j.app = jobs[p].app /\ j.second = jobs[p].second /\ j.left = jobs[p].left /\ j.at = "import"
      BY <1>1 DEF JobRecords
    <3> HIDE DEF j
    <3>4. QED
      BY <3>1, <3>2, <3>3
  <2>3. CASE Imported(p)
    <3> DEFINE j == [jobs[p] EXCEPT !.at = "truncateApp"]
    <3>1. j \in JobRecords
      BY <1>1 DEF JobRecords, JobStates
    <3>2. jobs' = [jobs EXCEPT ![p] = j] /\ jobs[p].at = "import"
      BY <2>3 DEF Imported, Goes
    <3>3. j.app = jobs[p].app /\ j.second = jobs[p].second /\ j.left = jobs[p].left
          /\ j.at = "truncateApp"
      BY <1>1 DEF JobRecords
    <3> HIDE DEF j
    <3>4. QED
      BY <3>1, <3>2, <3>3
  <2>4. ASSUME NEW s \in Servers, Import(p, s)
        PROVE  \E j \in JobRecords :
                  /\ jobs' = [jobs EXCEPT ![p] = j]
                  /\ j.app = jobs[p].app /\ j.second = jobs[p].second /\ j.left \subseteq jobs[p].left
                  /\ j.at = "import" /\ jobs[p].at = "import"
    <3> DEFINE j == [jobs[p] EXCEPT !.left = @ \ {s}]
    <3>1. j \in JobRecords
      BY <1>1 DEF JobRecords
    <3>2. jobs' = [jobs EXCEPT ![p] = j] /\ jobs[p].at = "import"
      BY <2>4 DEF Import
    <3>3. j.app = jobs[p].app /\ j.second = jobs[p].second /\ j.left \subseteq jobs[p].left
          /\ j.at = jobs[p].at
      BY <1>1 DEF JobRecords
    <3> HIDE DEF j
    <3>4. QED
      BY <3>1, <3>2, <3>3
  <2>5. QED
    BY <2>1, <2>2, <2>3, <2>4
<1>5. faults' \in Nat
  BY <1>1, <1>2
<1>6. QED
  BY <1>2, <1>3, <1>4, <1>5, GoesOnInv

(* The application's file is written, or put back.                         *)
LEMMA WritingInv ==
    ASSUME AppInv, NEW p \in Procs, TruncateApp(p) \/ WriteApp(p) \/ RollBack(p)
    PROVE  AppInv'
<1>1. jobs[p] \in JobRecords /\ jobs \in [Procs -> JobRecords] /\ faults \in Nat
  BY JobFacts
<1>2. PICK at \in {"writeApp", "unlock"}, x \in AppStates :
          /\ <<jobs[p].at, at>> \in {<<"truncateApp", "writeApp">>, <<"truncateApp", "unlock">>,
                                     <<"writeApp", "unlock">>}
          /\ jobs' = [jobs EXCEPT ![p].at = at]
          /\ appFile' = [appFile EXCEPT ![jobs[p].app] = x]
          /\ faults' = faults \/ faults' = faults + 1
          /\ UNCHANGED <<fileVars, locks, backups, now, collided>>
  <2>1. CASE TruncateApp(p)
    BY <2>1 DEF TruncateApp, Goes, AppStates
  <2>2. CASE WriteApp(p)
    BY <2>2 DEF WriteApp, Goes, AppStates
  <2>3. CASE RollBack(p)
    <3>1. backups[jobs[p].app][jobs[p].second].copy \in AppStates
      BY <2>3, JobFacts DEF RollBack
    <3>2. QED
      BY <2>3, <3>1 DEF RollBack, Goes
  <2>4. QED
    BY <2>1, <2>2, <2>3
<1> DEFINE j == [jobs[p] EXCEPT !.at = at]
<1>3. j \in JobRecords /\ j.at = at /\ j.app = jobs[p].app /\ j.second = jobs[p].second
      /\ j.left = jobs[p].left
  BY <1>1 DEF JobRecords, JobStates
<1>4. jobs' = [jobs EXCEPT ![p] = j]
  BY <1>2
<1> HIDE DEF j
<1>5. UntouchedInv' /\ UNCHANGED named
  BY <1>2, ImportStepInv DEF AppInv, fileVars
<1>6. faults' \in Nat /\ (faults' = faults \/ faults' > 0)
  BY <1>1, <1>2
<1>7. UNCHANGED <<locks, backups, now, collided, named>>
  BY <1>2, <1>5
<1>8. QED
  BY <1>2, <1>3, <1>4, <1>5, <1>6, <1>7, GoesOnInv

(* If an application has a backup it has a newest one, which restore       *)
(* takes.                                                                  *)
LEMMA NewestFacts ==
    ASSUME NEW a \in Apps, \E t \in Seconds : backups[a][t] # NoBackup
    PROVE  Newest(a) \in Seconds /\ backups[a][Newest(a)] # NoBackup
<1> DEFINE Made == {t \in Seconds : backups[a][t] # NoBackup}
           Ago == {MaxSeconds - t : t \in Made}
<1>1. MaxSeconds \in Nat /\ Made \subseteq 0 .. MaxSeconds /\ Made # {}
  BY AppConstants DEF Seconds
<1>2. Ago \subseteq Nat /\ Ago # {}
  BY <1>1
<1>3. PICK Less : Less = {ss \in Nat \X Nat : ss[1] < ss[2]} /\ IsWellFoundedOn(Less, Nat)
  BY NatLessThanWellFounded, Zenon DEF OpToRel
<1> HIDE DEF Ago
<1>a. PICK x \in Ago : \A y \in Ago : ~(<<y, x>> \in Less)
  BY <1>2, <1>3, WFMin
<1>4. ASSUME NEW y \in Ago
      PROVE  x <= y
  <2>1. x \in Nat /\ y \in Nat /\ <<y, x>> \notin Less
    BY <1>2, <1>a
  <2>2. ~(y < x)
    BY <1>3, <2>1
  <2>3. QED
    BY <2>1, <2>2
<1>5. PICK t \in Made : x = MaxSeconds - t
  BY DEF Ago
<1>6. ASSUME NEW u \in Made
      PROVE  u <= t
  <2>1. MaxSeconds - u \in Ago
    BY DEF Ago
  <2>2. x <= MaxSeconds - u
    BY <1>4, <2>1
  <2>3. u \in Int /\ t \in Int /\ MaxSeconds \in Int
    BY <1>1, <1>5
  <2> HIDE DEF Made
  <2>4. QED
    BY <1>5, <2>2, <2>3
<1>7. QED
  BY <1>5, <1>6 DEF Newest

(* A restore writes the application's file, of which there is a backup.    *)
LEMMA RestoringInv ==
    ASSUME AppInv, NEW p \in Procs, RestoreTruncates(p) \/ RestoreWrites(p)
    PROVE  AppInv'
<1>1. /\ jobs[p] \in JobRecords /\ jobs \in [Procs -> JobRecords] /\ faults \in Nat
      /\ jobs[p].app \in Apps /\ backups \in [Apps -> [Seconds -> Copies]]
  <2>1. jobs[p].at # "idle"
    BY DEF RestoreTruncates, RestoreWrites
  <2>2. QED
    BY <2>1, JobFacts DEF AppInv, JobsTypeOK
<1>2. /\ UNCHANGED <<fileVars, locks, backups, now, collided, faults>>
      /\ jobs[p].at \in {"restore", "restored"}
  BY DEF RestoreTruncates, RestoreWrites
<1>3. UntouchedInv' /\ UNCHANGED named
  BY <1>2, ImportStepInv DEF AppInv, fileVars
<1>4. CASE RestoreTruncates(p)
  <2> DEFINE a == jobs[p].app
             j == [jobs[p] EXCEPT !.at = "restored", !.second = Newest(a)]
  <2>1. \E t \in Seconds : backups[a][t] # NoBackup
    BY <1>4 DEF RestoreTruncates, AppInv, BackupIsThere
  <2>2. Newest(a) \in Seconds /\ backups[a][Newest(a)] # NoBackup
    BY <1>1, <2>1, NewestFacts
  <2>3. j \in JobRecords /\ j.at = "restored" /\ j.app = a /\ j.second = Newest(a)
    BY <1>1, <2>2 DEF JobRecords, JobStates
  <2>4. jobs' = [jobs EXCEPT ![p] = j] /\ appFile' = [appFile EXCEPT ![a] = "torn"]
        /\ jobs[p].at = "restore"
    BY <1>4 DEF RestoreTruncates
  <2> HIDE DEF j
  <2>5. "torn" \in AppStates /\ faults' \in Nat /\ "restored" \notin Locked /\ "restore" \notin Locked
    BY <1>1, <1>2 DEF AppStates, Locked
  <2>6. QED
    BY <1>1, <1>2, <1>3, <2>1, <2>2, <2>3, <2>4, <2>5, JobStepInv
<1>5. CASE RestoreWrites(p)
  <2>1. /\ jobs' = [jobs EXCEPT ![p] = NoJob] /\ jobs[p].at = "restored"
        /\ appFile' = [appFile EXCEPT ![jobs[p].app] = backups[jobs[p].app][jobs[p].second].copy]
    BY <1>5 DEF RestoreWrites, Ends
  <2>2. /\ NoJob \in JobRecords /\ NoJob.at = "idle"
        /\ backups[jobs[p].app][jobs[p].second].copy \in AppStates
        /\ \E t \in Seconds : backups[jobs[p].app][t] # NoBackup
    BY <2>1, JobFacts
  <2>3. faults' \in Nat /\ "idle" \notin Locked /\ "restored" \notin Locked
    BY <1>1, <1>2 DEF Locked
  <2>4. QED
    BY <1>2, <1>3, <2>1, <2>2, <2>3, JobStepInv
<1>6. QED
  BY <1>4, <1>5

(* A job that ends: it found the lock taken, or its process was killed.    *)
LEMMA EndingInv ==
    ASSUME AppInv, NEW p \in Procs,
           \/ TakeLock(p) /\ jobs[p].app \in locks
           \/ Kill(p)
    PROVE  AppInv'
<1>1. /\ NoJob \in JobRecords /\ NoJob.at = "idle" /\ "idle" \notin Locked /\ "lock" \notin Locked
      /\ faults \in Nat
  BY JobFacts DEF Locked
<1>2. /\ jobs' = [jobs EXCEPT ![p] = NoJob]
      /\ UNCHANGED <<file, served, named, appFile, locks, backups, now, collided>>
      /\ \/ jobs[p].at = "lock" /\ UNCHANGED <<procs, faults>>
         \/ procs' = [procs EXCEPT ![p] = NoEdit] /\ faults' = faults + 1
  BY DEF TakeLock, Kill, Ends, fileVars
<1>3. UntouchedInv'
  BY <1>2, ImportStepInv DEF AppInv
<1>4. faults' \in Nat /\ ((jobs[p].at = "lock" /\ faults' = faults) \/ faults' > 0)
  BY <1>1, <1>2
<1>5. QED
  BY <1>1, <1>2, <1>3, <1>4, JobStepInv

(* The copy that makes a backup, in a second that may be taken.            *)
LEMMA CopyBackupInv ==
    ASSUME AppInv, NEW p \in Procs, CopyBackup(p)
    PROVE  AppInv'
<1> DEFINE a == jobs[p].app
           copied == [copy |-> appFile[a], sum |-> jobs[p].sum]
           j == [jobs[p] EXCEPT !.at = "lock", !.second = now]
<1>1. /\ jobs[p].at = "copy" /\ a \in Apps
      /\ jobs \in [Procs -> JobRecords] /\ jobs[p] \in JobRecords /\ now \in Seconds
      /\ appFile \in [Apps -> AppStates] /\ backups \in [Apps -> [Seconds -> Copies]]
  <2>1. jobs[p].at = "copy"
    BY DEF CopyBackup
  <2>2. QED
    BY <2>1, JobFacts DEF AppInv, JobsTypeOK
<1>2. /\ backups' = [backups EXCEPT ![a][now] = copied]
      /\ jobs' = [jobs EXCEPT ![p] = j]
      /\ collided' = IF backups[a][now] = NoBackup THEN collided ELSE collided \cup {a}
      /\ UNCHANGED <<fileVars, appFile, locks, now, faults>>
  BY DEF CopyBackup
<1>3. /\ copied \in Copies /\ copied # NoBackup /\ copied.copy = appFile[a]
      /\ j \in JobRecords /\ j.at = "lock" /\ j.app = a /\ j.second = now /\ j.left = jobs[p].left
  <2>1. appFile[a] \in AppStates /\ jobs[p].sum \in AppStates \cup {"none"}
    BY <1>1 DEF JobRecords
  <2>2. copied \in Copies /\ copied.copy = appFile[a]
    BY <2>1 DEF Copies
  <2>3. NoBackup.copy = "none" /\ "none" \notin AppStates
    BY DEF NoBackup, AppStates
  <2>4. j \in JobRecords /\ j.at = "lock" /\ j.app = a /\ j.second = now /\ j.left = jobs[p].left
    BY <1>1 DEF JobRecords, JobStates
  <2>5. QED
    BY <2>1, <2>2, <2>3, <2>4
<1> HIDE DEF copied, j
<1>4. /\ jobs' \in [Procs -> JobRecords] /\ jobs'[p] = j
      /\ \A q \in Procs \ {p} : jobs'[q] = jobs[q]
  BY <1>1, <1>2, <1>3
<1>5. /\ backups' \in [Apps -> [Seconds -> Copies]] /\ backups'[a][now] = copied
      /\ \A b \in Apps, t \in Seconds :
            b # a \/ t # now => backups'[b][t] = backups[b][t]
      /\ collided \subseteq collided'
  BY <1>1, <1>2, <1>3
<1>6. UntouchedInv' /\ named' = named
  BY <1>2, ImportStepInv DEF AppInv, fileVars
<1>7. JobsTypeOK'
  BY <1>1, <1>2, <1>3, <1>4, <1>5 DEF AppInv, JobsTypeOK
<1>8. ImportsAreNamed'
  BY <1>1, <1>3, <1>4, <1>6 DEF AppInv, ImportsAreNamed
<1>9. \A b \in Apps, t \in Seconds : backups[b][t] # NoBackup => backups'[b][t] # NoBackup
  BY <1>3, <1>5
<1>10. BackupIsThere'
  <2> SUFFICES ASSUME NEW q \in Procs
               PROVE  /\ jobs'[q].at \in {"lock", "snapshot", "import", "truncateApp", "writeApp",
                                          "unlock", "restored"}
                            => backups'[jobs'[q].app][jobs'[q].second] # NoBackup
                      /\ jobs'[q].at = "restore" => \E t \in Seconds : backups'[jobs'[q].app][t] # NoBackup
    BY DEF BackupIsThere
  <2>1. CASE q = p
    BY <1>3, <1>4, <1>5, <2>1
  <2>2. CASE q # p
    <3>1. /\ jobs'[q] = jobs[q] /\ jobs[q].second \in Seconds
          /\ jobs[q].at # "idle" => jobs[q].app \in Apps
      BY <1>4, <2>2, JobFacts DEF JobRecords
    <3>2. QED
      BY <1>9, <3>1 DEF AppInv, BackupIsThere
  <2>3. QED
    BY <2>1, <2>2
<1>11. OwnIsSafe'
  <2> SUFFICES ASSUME NEW b \in Apps, b \notin collided', ~HasOwn(b)'
               PROVE  /\ appFile'[b] = "own"
                      /\ \A t \in Seconds : backups'[b][t] = NoBackup
                      /\ \A q \in Procs : jobs'[q].app = b => jobs'[q].at \in {"idle", "sum", "copy"}
    BY DEF OwnIsSafe
  <2>1. ~HasOwn(b)
    <3> SUFFICES ASSUME NEW t \in Seconds, backups[b][t].copy = "own" PROVE FALSE
      BY DEF HasOwn
    <3>1. backups'[b][t].copy # "own"
      BY DEF HasOwn
    <3>2. b = a /\ t = now
      BY <1>5, <3>1
    <3>3. backups[a][now] # NoBackup
      BY <3>2 DEF NoBackup
    <3>4. QED
      BY <1>2, <3>2, <3>3
  <2>2. /\ appFile[b] = "own"
        /\ \A t \in Seconds : backups[b][t] = NoBackup
        /\ \A q \in Procs : jobs[q].app = b => jobs[q].at \in {"idle", "sum", "copy"}
    BY <1>5, <2>1 DEF AppInv, OwnIsSafe
  <2>3. b # a
    <3>1. SUFFICES ASSUME b = a PROVE FALSE
      OBVIOUS
    <3>2. backups'[a][now].copy = "own"
      BY <1>3, <1>5, <2>2, <3>1
    <3>3. QED
      BY <1>1, <3>1, <3>2 DEF HasOwn
  <2>4. QED
    BY <1>2, <1>3, <1>4, <1>5, <2>2, <2>3
<1>12. LockIsSound'
  <2>1. \A q \in Procs : (jobs'[q].at \in Locked <=> jobs[q].at \in Locked)
                         /\ (jobs'[q].app = jobs[q].app)
    BY <1>1, <1>3, <1>4 DEF Locked
  <2>2. QED
    BY <1>2, <2>1 DEF AppInv, LockIsSound
<1>13. QED
  BY <1>6, <1>7, <1>8, <1>10, <1>11, <1>12 DEF AppInv

(* A job takes the lock of its application, or gives it back.              *)
LEMMA LockingInv ==
    ASSUME AppInv, NEW p \in Procs,
           (TakeLock(p) /\ jobs[p].app \notin locks) \/ Unlock(p)
    PROVE  AppInv'
<1> DEFINE a == jobs[p].app
<1>1. PICK j \in JobRecords :
          /\ jobs' = [jobs EXCEPT ![p] = j]
          /\ \/ /\ jobs[p].at = "lock" /\ a \notin locks /\ locks' = locks \cup {a}
                /\ j.at = "snapshot" /\ j.app = a /\ j.second = jobs[p].second
                /\ j.left = jobs[p].left
             \/ jobs[p].at = "unlock" /\ j.at = "idle" /\ locks' = locks \ {a}
          /\ UNCHANGED <<fileVars, appFile, backups, now, collided, faults>>
  <2>1. CASE TakeLock(p) /\ a \notin locks
    <3> DEFINE j == [jobs[p] EXCEPT !.at = "snapshot"]
    <3>1. j \in JobRecords /\ j.at = "snapshot" /\ j.app = a /\ j.second = jobs[p].second
          /\ j.left = jobs[p].left
      BY JobFacts DEF JobRecords, JobStates
    <3>2. /\ jobs' = [jobs EXCEPT ![p] = j] /\ jobs[p].at = "lock" /\ locks' = locks \cup {a}
          /\ UNCHANGED <<fileVars, appFile, backups, now, collided, faults>>
      BY <2>1 DEF TakeLock, Goes
    <3> HIDE DEF j
    <3>3. QED
      BY <2>1, <3>1, <3>2
  <2>2. CASE Unlock(p)
    BY <2>2, JobFacts DEF Unlock, Ends
  <2>3. QED
    BY <2>1, <2>2
<1>2. /\ jobs' \in [Procs -> JobRecords] /\ jobs'[p] = j
      /\ \A q \in Procs \ {p} : jobs'[q] = jobs[q]
  BY <1>1, JobFacts
<1>3. a \in Apps
  BY <1>1, JobFacts
<1>4. UntouchedInv' /\ named' = named
  BY <1>1, ImportStepInv DEF AppInv, fileVars
<1>5. JobsTypeOK' /\ ImportsAreNamed'
  BY <1>1, <1>2, <1>3, <1>4 DEF AppInv, JobsTypeOK, ImportsAreNamed
<1>6. BackupIsThere'
  BY <1>1, <1>2 DEF AppInv, BackupIsThere
<1>7. OwnIsSafe'
  BY <1>1, <1>2 DEF AppInv, OwnIsSafe, HasOwn
<1>8. LockIsSound'
  <2> SUFFICES ASSUME NEW b \in Apps
               PROVE  /\ \A q, r \in Procs :
                            /\ jobs'[q].app = b /\ jobs'[q].at \in Locked
                            /\ jobs'[r].app = b /\ jobs'[r].at \in Locked
                            => q = r
                      /\ \A q \in Procs : jobs'[q].app = b /\ jobs'[q].at \in Locked => b \in locks'
                      /\ b \in locks' /\ (\A q \in Procs : ~(jobs'[q].app = b /\ jobs'[q].at \in Locked))
                            => faults' > 0
    BY DEF LockIsSound
  <2>1. /\ \A q, r \in Procs :
              /\ jobs[q].app = b /\ jobs[q].at \in Locked
              /\ jobs[r].app = b /\ jobs[r].at \in Locked
              => q = r
        /\ \A q \in Procs : jobs[q].app = b /\ jobs[q].at \in Locked => b \in locks
        /\ b \in locks /\ (\A q \in Procs : ~(jobs[q].app = b /\ jobs[q].at \in Locked)) => faults > 0
    BY DEF AppInv, LockIsSound
  <2>2. /\ "lock" \notin Locked /\ "snapshot" \in Locked /\ "unlock" \in Locked /\ "idle" \notin Locked
    BY DEF Locked
  <2>3. CASE b # a
    BY <1>1, <1>2, <2>1, <2>2, <2>3
  <2>4. CASE b = a
    BY <1>1, <1>2, <2>1, <2>2, <2>4
  <2>5. QED
    BY <2>3, <2>4
<1>9. QED
  BY <1>4, <1>5, <1>6, <1>7, <1>8 DEF AppInv

(* Every step keeps AppInv.                                                *)
LEMMA AppNextInv == AppInv /\ [Next]_vars => AppInv'
<1> SUFFICES ASSUME AppInv, [Next]_vars PROVE AppInv'
  OBVIOUS
<1>1. ASSUME UntouchedInv', UNCHANGED <<appFile, locks, backups, jobs, collided, faults>>,
             named \subseteq named', now' \in Seconds
      PROVE  AppInv'
  <2>1. JobsTypeOK' /\ ImportsAreNamed' /\ BackupIsThere'
    BY <1>1 DEF AppInv, JobsTypeOK, ImportsAreNamed, BackupIsThere
  <2>2. OwnIsSafe' /\ LockIsSound'
    BY <1>1 DEF AppInv, OwnIsSafe, HasOwn, LockIsSound
  <2>3. QED
    BY <1>1, <2>1, <2>2 DEF AppInv
<1>2. CASE FileNext /\ UNCHANGED appVars
  <2>1. UntouchedInv' /\ named \subseteq named'
    BY <1>2, FileNextInv DEF AppInv
  <2>2. UNCHANGED <<appFile, locks, backups, jobs, collided, faults, now>>
    BY <1>2 DEF appVars
  <2>3. now' \in Seconds
    BY <2>2 DEF AppInv, JobsTypeOK
  <2>4. QED
    BY <1>1, <2>1, <2>2, <2>3
<1>3. CASE Tick
  <2>1. UNCHANGED <<file, served, procs, named, appFile, locks, backups, jobs, collided, faults>>
    BY <1>3 DEF Tick, fileVars
  <2>2. now' \in Seconds
    BY <1>3, AppConstants DEF Tick, Seconds, AppInv, JobsTypeOK
  <2>3. UntouchedInv'
    BY <2>1, ImportStepInv DEF AppInv
  <2>4. QED
    BY <1>1, <2>1, <2>2, <2>3
<1>4. CASE UNCHANGED vars
  <2>1. UNCHANGED <<file, served, procs, named, appFile, locks, backups, jobs, collided, faults, now>>
    BY <1>4 DEF vars, fileVars, appVars
  <2>2. UntouchedInv' /\ now' \in Seconds
    BY <2>1, ImportStepInv DEF AppInv, JobsTypeOK
  <2>3. QED
    BY <1>1, <2>1, <2>2
<1>5. ASSUME NEW p \in Jobs, NEW a \in Apps, Consolidate(p, a) \/ Restore(p, a)
      PROVE  AppInv'
  BY <1>5, AppBeginInv
<1>6. ASSUME NEW p \in Procs,
             ReadSum(p) \/ Snapshot(p) \/ Imported(p) \/ \E s \in Servers : Import(p, s)
      PROVE  AppInv'
  BY <1>6, ImportingInv
<1>7. ASSUME NEW p \in Procs, TruncateApp(p) \/ WriteApp(p) \/ RollBack(p)
      PROVE  AppInv'
  BY <1>7, WritingInv
<1>8. ASSUME NEW p \in Procs, RestoreTruncates(p) \/ RestoreWrites(p)
      PROVE  AppInv'
  BY <1>8, RestoringInv
<1>9. ASSUME NEW p \in Procs, TakeLock(p) \/ Unlock(p) \/ Kill(p) \/ CopyBackup(p)
      PROVE  AppInv'
  BY <1>9, EndingInv, LockingInv, CopyBackupInv
<1>10. CASE AppNext
  BY <1>10, <1>3, <1>5, <1>6, <1>7, <1>8, <1>9, AppConstants DEF AppNext
<1>11. QED
  BY <1>2, <1>4, <1>10 DEF Next

(* AppInv holds at all times.                                              *)
THEOREM AppInvariant == Spec => []AppInv
BY AppInitInv, AppNextInv, PTL DEF Spec

(* For any applications, servers and processes: the file an application    *)
(* had of its own is there or in a backup, unless two backups were made in *)
(* one second, and its lock is held by one job at a time and left behind   *)
(* only by a kill.                                                         *)
THEOREM AppsStaySafe == Spec => []AppsAreSafe
<1>1. AppInv => AppsAreSafe
  BY DEF AppInv, OwnIsSafe, HasOwn, AppsAreSafe, OriginalKept
<1>2. QED
  BY <1>1, AppInvariant, PTL

(* For any servers: one that no command was given stays served, through    *)
(* torn reads, edits that overwrite each other, killed processes and       *)
(* imports.                                                                *)
THEOREM UntouchedStayServed == Spec => []UntouchedStaysServed
<1>1. AppInv => UntouchedStaysServed
  BY DEF AppInv, UntouchedInv
<1>2. QED
  BY <1>1, AppInvariant, PTL

-----------------------------------------------------------------------------
(***************************************************************************)
(* The installation wizard.  What is agreed to is a name; the entry that is*)
(* lost is looked up by a name much later, after prompts that can be taken *)
(* back, and another round: the two are the same.                          *)
(***************************************************************************)

(* The fields that decide what becomes of an entry; the others are any.    *)
IsWizard(w) ==
    w \in [at : {w.at}, server : {w.server}, list : {w.list}, index : {w.index},
           name : Names \cup {""}, override : BOOLEAN, tags : {w.tags}, env : {w.env},
           args : {w.args}, another : {w.another}, discarded : {w.discarded}]

(* Where the wizard can be once an override was agreed to: another name    *)
(* is asked for only with the agreement forgotten.                         *)
Agreeing == {"tags", "env", "args", "confirm", "another", "install", "fetch"}

WizardTypeOK ==
    /\ IsWizard(wizard)
    /\ entries = [n \in Names |-> entries[n]]
    /\ taken \subseteq Names
    /\ others \in Nat

(* What was agreed to is the name at hand, and one that there was.         *)
AgreedIsAtHand ==
    /\ wizard.override => wizard.at \in Agreeing /\ agreed = wizard.name /\ wizard.name \in Names
    /\ wizard.at = "conflict" => wizard.name \in taken

(* While the registry is asked, the entry to be written is not there,      *)
(* unless others wrote it.                                                 *)
FetchIsFree ==
    wizard.at = "fetch" =>
        /\ ~options.dryRun
        /\ Target \in Names => entries[Target] = NoEntry \/ Target \in since

WizardInv == WizardTypeOK /\ AgreedIsAtHand /\ FetchIsFree

(* WizardInv holds when the command is given.                              *)
LEMMA WizardInitInv == WizardInit => WizardInv
<1> SUFFICES ASSUME WizardInit PROVE WizardInv
  OBVIOUS
<1>1. /\ IsWizard(wizard) /\ ~wizard.override
      /\ wizard.at # "conflict" /\ wizard.at # "fetch"
  BY DEF WizardInit, IsWizard, Blank
<1>2. entries = [n \in Names |-> entries[n]] /\ taken \subseteq Names /\ others \in Nat
  BY WizardConstants DEF WizardInit
<1>3. QED
  BY <1>1, <1>2 DEF WizardInv, WizardTypeOK, AgreedIsAtHand, FetchIsFree

(* An answer keeps WizardInv if it keeps the name that was agreed to.      *)
LEMMA WaitsInv ==
    ASSUME WizardInv, NEW w, Waits(w), IsWizard(w),
           w.override => wizard.override /\ w.name = wizard.name /\ w.at \in Agreeing,
           w.at = "conflict" => w.name \in taken,
           w.at # "fetch"
    PROVE  WizardInv'
<1>1. wizard' = w /\ UNCHANGED <<entries, taken, agreed, options, others>>
  BY DEF Waits, asideVars
<1>2. WizardTypeOK'
  BY <1>1 DEF WizardInv, WizardTypeOK, IsWizard
<1>3. AgreedIsAtHand'
  BY <1>1 DEF WizardInv, AgreedIsAtHand
<1>4. FetchIsFree'
  BY <1>1 DEF FetchIsFree
<1>5. QED
  BY <1>2, <1>3, <1>4 DEF WizardInv

(* Answers that are asked for anew have no agreement.                      *)
LEMMA BlankInv ==
    ASSUME WizardTypeOK, entries' = [n \in Names |-> entries'[n]], taken' \subseteq Names, others' \in Nat,
           IsWizard(wizard'), ~wizard'.override, wizard'.at # "conflict", wizard'.at # "fetch"
    PROVE  WizardInv'
<1>1. WizardTypeOK'
  BY DEF WizardTypeOK, IsWizard
<1>2. AgreedIsAtHand' /\ FetchIsFree'
  BY DEF AgreedIsAtHand, FetchIsFree
<1>3. QED
  BY <1>1, <1>2 DEF WizardInv

(* A round begins with no answers.                                         *)
LEMMA RunInv ==
    ASSUME WizardInv, entries' = [n \in Names |-> entries'[n]], NEW round, Run(round)
    PROVE  WizardInv'
<1>1. /\ wizard' = [Blank EXCEPT !.discarded = round] /\ taken' = There(entries')
      /\ others' = others
  BY DEF Run
<1>2. /\ IsWizard(wizard') /\ ~wizard'.override
      /\ wizard'.at # "conflict" /\ wizard'.at # "fetch"
  BY <1>1 DEF IsWizard, Blank
<1>3. taken' \subseteq Names /\ others' \in Nat
  BY <1>1 DEF There, WizardInv, WizardTypeOK
<1>4. QED
  BY <1>2, <1>3, BlankInv DEF WizardInv

(* Whatever is asked, going back and another round included.               *)
LEMMA AsksInv == WizardInv /\ Asks => WizardInv'
<1> SUFFICES ASSUME WizardInv, Asks PROVE WizardInv'
  OBVIOUS
<1>1. /\ IsWizard(wizard) /\ taken \subseteq Names
      /\ wizard.override => wizard.at \in Agreeing /\ agreed = wizard.name /\ wizard.name \in Names
      /\ wizard.at = "conflict" => wizard.name \in taken
  BY DEF WizardInv, WizardTypeOK, AgreedIsAtHand
<1>2. CASE Cancel
  <2> DEFINE w == [Blank EXCEPT !.at = IF wizard.discarded THEN "exit 1" ELSE "exit 0"]
  <2>1. IsWizard(w) /\ ~w.override /\ w.at # "conflict" /\ w.at # "fetch"
    BY DEF IsWizard, Blank
  <2>2. Waits(w)
    BY <1>2 DEF Cancel
  <2> HIDE DEF w
  <2>3. QED
    BY <2>1, <2>2, WaitsInv
(* Other answers than those about the name. *)
<1>3. ASSUME NEW w, Waits(w), IsWizard(w), w.name = wizard.name, w.override = wizard.override,
             wizard.override => w.at \in Agreeing, w.at # "conflict", w.at # "fetch"
      PROVE  WizardInv'
  BY <1>3, WaitsInv
<1>4. CASE ConfirmServerId
  <2> DEFINE w == [wizard EXCEPT !.at = "name"]
  <2>1. IsWizard(w) /\ w.name = wizard.name /\ w.override = wizard.override /\ w.at = "name"
    BY <1>1 DEF IsWizard
  <2>2. ~wizard.override
    BY <1>1, <1>4 DEF ConfirmServerId, Agreeing
  <2>3. Cancel \/ Waits(w)
    BY <1>4 DEF ConfirmServerId
  <2> HIDE DEF w
  <2>4. QED
    BY <1>2, <1>3, <2>1, <2>2, <2>3
<1>5. CASE SearchServers
  <2>1. SUFFICES ASSUME NEW list,
                        Waits([wizard EXCEPT !.at = "results", !.list = list, !.index = 1])
                 PROVE  WizardInv'
    BY <1>2, <1>5 DEF SearchServers
  <2> DEFINE w == [wizard EXCEPT !.at = "results", !.list = list, !.index = 1]
  <2>2. IsWizard(w) /\ w.name = wizard.name /\ w.override = wizard.override /\ w.at = "results"
    BY <1>1 DEF IsWizard
  <2>3. ~wizard.override
    BY <1>1, <1>5 DEF SearchServers, Agreeing
  <2>4. Waits(w)
    BY <2>1
  <2> HIDE DEF w
  <2>5. QED
    BY <1>3, <2>2, <2>3, <2>4
<1>6. CASE SelectFromResults
  <2>1. ~wizard.override /\ wizard.at = "results"
    BY <1>1, <1>6 DEF SelectFromResults, Agreeing
  <2>2. ASSUME NEW index, Waits([wizard EXCEPT !.index = index])
        PROVE  WizardInv'
    <3> DEFINE w == [wizard EXCEPT !.index = index]
    <3>1. IsWizard(w) /\ w.name = wizard.name /\ w.override = wizard.override /\ w.at = wizard.at
      BY <1>1 DEF IsWizard
    <3>2. Waits(w)
      BY <2>2
    <3> HIDE DEF w
    <3>3. QED
      BY <1>3, <2>1, <3>1, <3>2
  <2>3. CASE Up
    BY <2>2, <2>3 DEF Up
  <2>4. CASE Down
    BY <2>2, <2>4 DEF Down
  <2>5. CASE Right
    <3> DEFINE w == [wizard EXCEPT !.at = "details"]
    <3>1. IsWizard(w) /\ w.name = wizard.name /\ w.override = wizard.override /\ w.at = "details"
      BY <1>1 DEF IsWizard
    <3>2. Waits(w)
      BY <2>5 DEF Right
    <3> HIDE DEF w
    <3>3. QED
      BY <1>3, <2>1, <3>1, <3>2
  <2>6. CASE Left
    <3> DEFINE w == [wizard EXCEPT !.at = "search", !.list = <<>>]
    <3>1. IsWizard(w) /\ w.name = wizard.name /\ w.override = wizard.override /\ w.at = "search"
      BY <1>1 DEF IsWizard
    <3>2. Waits(w)
      BY <2>6 DEF Left
    <3> HIDE DEF w
    <3>3. QED
      BY <1>3, <2>1, <3>1, <3>2
  <2>7. CASE Enter
    <3> DEFINE w == [wizard EXCEPT !.at = "name", !.server = wizard.list[wizard.index],
                                   !.list = <<>>, !.index = 1]
    <3>1. IsWizard(w) /\ w.name = wizard.name /\ w.override = wizard.override /\ w.at = "name"
      BY <1>1 DEF IsWizard
    <3>2. Waits(w)
      BY <2>7 DEF Enter
    <3> HIDE DEF w
    <3>3. QED
      BY <1>3, <2>1, <3>1, <3>2
  <2>8. QED
    BY <1>2, <1>6, <2>3, <2>4, <2>5, <2>6, <2>7 DEF SelectFromResults
<1>7. CASE ShowServerDetails
  <2> DEFINE w == [wizard EXCEPT !.at = "results"]
  <2>1. IsWizard(w) /\ w.name = wizard.name /\ w.override = wizard.override /\ w.at = "results"
    BY <1>1 DEF IsWizard
  <2>2. ~wizard.override /\ Waits(w)
    BY <1>1, <1>7 DEF ShowServerDetails, Agreeing
  <2> HIDE DEF w
  <2>3. QED
    BY <1>3, <2>1, <2>2
<1>8. CASE AskName
  <2>1. SUFFICES ASSUME NEW n \in Names \cup {""},
                        Waits([wizard EXCEPT !.name = n,
                                             !.at = IF n \in taken THEN "conflict" ELSE "tags"])
                 PROVE  WizardInv'
    BY <1>2, <1>8 DEF AskName
  <2> DEFINE w == [wizard EXCEPT !.name = n, !.at = IF n \in taken THEN "conflict" ELSE "tags"]
  <2>2. /\ IsWizard(w) /\ w.name = n /\ w.override = wizard.override
        /\ w.at = "conflict" => n \in taken
        /\ w.at # "fetch"
    BY <1>1 DEF IsWizard
  <2>3. ~wizard.override
    BY <1>1, <1>8 DEF AskName, Agreeing
  <2>4. Waits(w)
    BY <2>1
  <2> HIDE DEF w
  <2>5. QED
    BY <2>2, <2>3, <2>4, WaitsInv
<1>9. CASE ConflictAction
  <2>1. CASE Override
    <3> DEFINE w == [wizard EXCEPT !.at = "tags", !.override = TRUE]
    <3>1. IsWizard(w) /\ w.name = wizard.name /\ w.override /\ w.at = "tags"
      BY <1>1 DEF IsWizard
    <3>2. /\ wizard' = w /\ agreed' = wizard.name /\ UNCHANGED <<entries, taken, others>>
          /\ wizard.name \in Names
      BY <1>1, <1>9, <2>1 DEF Override, ConflictAction, asideVars
    <3> HIDE DEF w
    <3>3. WizardTypeOK'
      BY <3>1, <3>2 DEF WizardInv, WizardTypeOK, IsWizard
    <3>4. AgreedIsAtHand' /\ FetchIsFree'
      BY <3>1, <3>2 DEF AgreedIsAtHand, FetchIsFree, Agreeing
    <3>5. QED
      BY <3>3, <3>4 DEF WizardInv
  <2>2. CASE Waits([wizard EXCEPT !.at = "name"])
    <3> DEFINE w == [wizard EXCEPT !.at = "name"]
    <3>1. IsWizard(w) /\ w.name = wizard.name /\ w.override = wizard.override /\ w.at = "name"
      BY <1>1 DEF IsWizard
    <3>2. ~wizard.override /\ Waits(w)
      BY <1>1, <1>9, <2>2 DEF ConflictAction, Agreeing
    <3> HIDE DEF w
    <3>3. QED
      BY <1>3, <3>1, <3>2
  <2>3. QED
    BY <1>2, <1>9, <2>1, <2>2 DEF ConflictAction
<1>10. CASE AskTags
  <2>1. SUFFICES ASSUME NEW tags, Waits([wizard EXCEPT !.at = "env", !.tags = tags])
                 PROVE  WizardInv'
    BY <1>2, <1>10 DEF AskTags
  <2> DEFINE w == [wizard EXCEPT !.at = "env", !.tags = tags]
  <2>2. IsWizard(w) /\ w.name = wizard.name /\ w.override = wizard.override /\ w.at = "env"
    BY <1>1 DEF IsWizard
  <2>3. Waits(w)
    BY <2>1
  <2> HIDE DEF w
  <2>4. QED
    BY <1>3, <2>2, <2>3 DEF Agreeing
<1>11. CASE ConfigureEnvVars
  <2>1. SUFFICES ASSUME NEW env, Waits([wizard EXCEPT !.at = "args", !.env = env])
                 PROVE  WizardInv'
    BY <1>2, <1>11 DEF ConfigureEnvVars
  <2> DEFINE w == [wizard EXCEPT !.at = "args", !.env = env]
  <2>2. IsWizard(w) /\ w.name = wizard.name /\ w.override = wizard.override /\ w.at = "args"
    BY <1>1 DEF IsWizard
  <2>3. Waits(w)
    BY <2>1
  <2> HIDE DEF w
  <2>4. QED
    BY <1>3, <2>2, <2>3 DEF Agreeing
<1>12. CASE ConfigureArgs
  <2>1. SUFFICES ASSUME NEW args, Waits([wizard EXCEPT !.at = "confirm", !.args = args])
                 PROVE  WizardInv'
    BY <1>2, <1>12 DEF ConfigureArgs
  <2> DEFINE w == [wizard EXCEPT !.at = "confirm", !.args = args]
  <2>2. IsWizard(w) /\ w.name = wizard.name /\ w.override = wizard.override /\ w.at = "confirm"
    BY <1>1 DEF IsWizard
  <2>3. Waits(w)
    BY <2>1
  <2> HIDE DEF w
  <2>4. QED
    BY <1>3, <2>2, <2>3 DEF Agreeing
<1>13. CASE Confirm
  <2>1. CASE GoBack
    <3>1. UNCHANGED <<entries, taken, others>>
      BY <2>1 DEF GoBack, asideVars
    <3>2. /\ IsWizard(wizard') /\ ~wizard'.override
          /\ wizard'.at # "conflict" /\ wizard'.at # "fetch"
      BY <2>1 DEF GoBack, IsWizard, Blank
    <3>3. QED
      BY <3>1, <3>2, BlankInv DEF WizardInv, WizardTypeOK
  <2>2. CASE Waits([wizard EXCEPT !.at = "another"])
    <3> DEFINE w == [wizard EXCEPT !.at = "another"]
    <3>1. IsWizard(w) /\ w.name = wizard.name /\ w.override = wizard.override /\ w.at = "another"
      BY <1>1 DEF IsWizard
    <3>2. Waits(w)
      BY <2>2
    <3> HIDE DEF w
    <3>3. QED
      BY <1>3, <3>1, <3>2 DEF Agreeing
  <2>3. QED
    BY <1>2, <1>13, <2>1, <2>2 DEF Confirm
<1>14. CASE AskInstallAnother
  <2>1. CASE UNCHANGED <<entries, copies, since>> /\ Run(FALSE)
    BY <2>1, RunInv DEF WizardInv, WizardTypeOK
  <2>2. ASSUME NEW another, Waits([wizard EXCEPT !.at = "install", !.another = another])
        PROVE  WizardInv'
    <3> DEFINE w == [wizard EXCEPT !.at = "install", !.another = another]
    <3>1. IsWizard(w) /\ w.name = wizard.name /\ w.override = wizard.override /\ w.at = "install"
      BY <1>1 DEF IsWizard
    <3>2. Waits(w)
      BY <2>2
    <3> HIDE DEF w
    <3>3. QED
      BY <1>3, <3>1, <3>2 DEF Agreeing
  <2>3. QED
    BY <1>14, <2>1, <2>2 DEF AskInstallAnother
<1>15. QED
  BY <1>4, <1>5, <1>6, <1>7, <1>8, <1>9, <1>10, <1>11, <1>12, <1>13, <1>14 DEF Asks

(* Taking a round to its end, for another one or for good.                 *)
LEMMA AnotherInv ==
    ASSUME WizardInv, entries' = [n \in Names |-> entries'[n]],
           NEW code \in {"exit 0", "exit 1"}, NEW round, Another(code, round)
    PROVE  WizardInv'
<1>1. CASE Run(round)
  BY <1>1, RunInv
<1>2. CASE wizard' = [Blank EXCEPT !.at = code] /\ UNCHANGED <<taken, others>>
  <2>1. /\ IsWizard(wizard') /\ ~wizard'.override
        /\ wizard'.at # "conflict" /\ wizard'.at # "fetch"
    BY <1>2 DEF IsWizard, Blank
  <2>2. QED
    BY <1>2, <2>1, BlankInv DEF WizardInv, WizardTypeOK
<1>3. QED
  BY <1>1, <1>2 DEF Another, asideVars

(* Installing: what goes on to the registry has its name free.             *)
LEMMA InstallInv == WizardInv /\ Install => WizardInv'
<1> SUFFICES ASSUME WizardInv, Install PROVE WizardInv'
  OBVIOUS
<1>1. IsWizard(wizard) /\ entries = [n \in Names |-> entries[n]]
  BY DEF WizardInv, WizardTypeOK
<1>2. CASE UNCHANGED entries /\ (Another("exit 0", FALSE) \/ Another("exit 1", FALSE))
  BY <1>1, <1>2, AnotherInv
<1>3. CASE /\ ~options.dryRun
           /\ wizard' = [wizard EXCEPT !.at = "fetch"]
           /\ IF Checks THEN entries' = [entries EXCEPT ![Target] = NoEntry] ELSE UNCHANGED entries
           /\ UNCHANGED <<taken, agreed, asideVars>>
  <2> DEFINE w == [wizard EXCEPT !.at = "fetch"]
  <2>1. /\ IsWizard(w) /\ w.name = wizard.name /\ w.override = wizard.override /\ w.at = "fetch"
        /\ w.server = wizard.server
    BY <1>1 DEF IsWizard
  <2>2. wizard' = w
    BY <1>3
  <2> HIDE DEF w
  <2>3. WizardTypeOK'
    <3>1. IsWizard(wizard')
      BY <2>1, <2>2
    <3>2. entries' = [n \in Names |-> entries'[n]]
      BY <1>1, <1>3
    <3>3. QED
      BY <1>3, <3>1, <3>2 DEF WizardTypeOK, IsWizard, WizardInv, asideVars
  <2>4. AgreedIsAtHand'
    BY <1>3, <2>1, <2>2 DEF WizardInv, AgreedIsAtHand, Agreeing
  <2>5. Target' = Target
    BY <2>1, <2>2 DEF Target
  <2>6. Target \in Names => entries'[Target] = NoEntry
    BY <1>1, <1>3 DEF Checks, There
  <2>7. FetchIsFree'
    BY <1>3, <2>5, <2>6 DEF FetchIsFree, asideVars
  <2>8. QED
    BY <2>3, <2>4, <2>7 DEF WizardInv
<1>4. QED
  BY <1>2, <1>3 DEF Install

(* Others write: what they make of an entry after the wizard's last look   *)
(* at the file is theirs.                                                  *)
LEMMA OthersWriteInv == WizardInv /\ OthersWrite => WizardInv'
<1> SUFFICES ASSUME WizardInv, OthersWrite PROVE WizardInv'
  OBVIOUS
<1>1. /\ entries' = [n \in Names |-> entries'[n]]
      /\ UNCHANGED <<wizard, taken, options, agreed>> /\ others' \in Nat
  BY DEF OthersWrite, WizardInv, WizardTypeOK
<1>2. WizardTypeOK' /\ AgreedIsAtHand'
  BY <1>1 DEF WizardInv, WizardTypeOK, IsWizard, AgreedIsAtHand
<1>3. Target' = Target
  BY <1>1 DEF Target
<1>4. wizard.at = "fetch" => since' = since \cup {n \in Names : entries'[n] # entries[n]}
  BY DEF OthersWrite
<1>5. FetchIsFree'
  BY <1>1, <1>3, <1>4 DEF WizardInv, FetchIsFree
<1>6. QED
  BY <1>2, <1>5 DEF WizardInv

(* Every step keeps WizardInv.                                             *)
LEMMA WizardNextInv == WizardInv /\ [WizardNext]_wizardVars => WizardInv'
<1> SUFFICES ASSUME WizardInv, [WizardNext]_wizardVars PROVE WizardInv'
  OBVIOUS
<1>1. entries = [n \in Names |-> entries[n]]
  BY DEF WizardInv, WizardTypeOK
<1>2. CASE Asks
  BY <1>2, AsksInv
<1>3. CASE Install
  BY <1>3, InstallInv
<1>4. CASE BackupFails \/ InstallFails
  BY <1>1, <1>4, AnotherInv DEF BackupFails, InstallFails, Failed
<1>5. CASE Installed
  <2>1. entries' = [n \in Names |-> entries'[n]]
    BY <1>1, <1>5 DEF Installed
  <2>2. QED
    BY <1>5, <2>1, AnotherInv DEF Installed
<1>6. CASE OthersWrite
  BY <1>6, OthersWriteInv
<1>7. CASE UNCHANGED wizardVars
  <2>1. Target' = Target
    BY <1>7 DEF Target, wizardVars
  <2>2. QED
    BY <1>7, <2>1 DEF WizardInv, WizardTypeOK, IsWizard, AgreedIsAtHand, FetchIsFree, wizardVars, asideVars
<1>8. QED
  BY <1>2, <1>3, <1>4, <1>5, <1>6, <1>7 DEF WizardNext

(* The inductive invariant of the wizard: what the user agreed to is the   *)
(* name at hand, and while the registry is asked that name is free.        *)
THEOREM WizardInvariant == WizardSpec => []WizardInv
<1>1. WizardInit => WizardInv
  BY WizardInitInv
<1>2. WizardInv /\ [WizardNext]_wizardVars => WizardInv'
  BY WizardNextInv
<1>3. QED
  BY <1>1, <1>2, PTL DEF WizardSpec

(* Whatever is answered and taken back and whatever others write, an entry *)
(* is lost to the wizard only if that name was agreed to, or --force was   *)
(* given, and it was copied before; never in a dry run.                    *)
THEOREM WizardAsks == WizardSpec => WizardAsksFirst
<1> DEFINE Asked ==
        \A n \in Names :
          /\ others' = others
          /\ entries[n] # NoEntry
          /\ entries'[n] # entries[n]
          => /\ ~options.dryRun
             /\ \/ (options.force \/ agreed = n) /\ entries \in copies'
                \/ wizard.at = "fetch" /\ n \in since
<1>1. ASSUME WizardInv, [WizardNext]_wizardVars PROVE [Asked]_wizardVars
  <2>1. SUFFICES ASSUME WizardNext, NEW n \in Names, others' = others,
                        entries[n] # NoEntry, entries'[n] # entries[n]
                 PROVE  /\ ~options.dryRun
                        /\ \/ (options.force \/ agreed = n) /\ entries \in copies'
                           \/ wizard.at = "fetch" /\ n \in since
    BY <1>1
  <2>2. entries = [m \in Names |-> entries[m]]
    BY <1>1 DEF WizardInv, WizardTypeOK
  <2>3. ~Asks
    BY <2>1 DEF Asks, ConfirmServerId, SearchServers, SelectFromResults, ShowServerDetails, AskName,
                ConflictAction, AskTags, ConfigureEnvVars, ConfigureArgs, Confirm, AskInstallAnother,
                Cancel, Waits, Up, Down, Left, Right, Enter, Override, GoBack
  <2>4. ~BackupFails /\ ~InstallFails
    BY <2>1 DEF BackupFails, InstallFails, Failed
  <2>5. CASE Install
    <3>1. /\ ~options.dryRun /\ (options.force \/ wizard.override)
          /\ copies' = copies \cup {entries} /\ entries' = [entries EXCEPT ![Target] = NoEntry]
      BY <2>1, <2>5 DEF Install, MayReplace
    <3>2. n = Target
      BY <2>1, <2>2, <3>1
    <3>3. wizard.override => agreed = Target
      BY <1>1, WizardConstants DEF WizardInv, AgreedIsAtHand, Target
    <3>4. QED
      BY <3>1, <3>2, <3>3
  <2>6. CASE Installed
    <3>1. wizard.at = "fetch" /\ \E e : entries' = [entries EXCEPT ![Target] = e]
      BY <2>6 DEF Installed
    <3>2. n = Target
      BY <2>1, <2>2, <3>1
    <3>3. QED
      BY <1>1, <2>1, <3>1, <3>2 DEF WizardInv, FetchIsFree
  <2>7. ~OthersWrite
    <3>1. others \in Nat
      BY <1>1 DEF WizardInv, WizardTypeOK
    <3>2. QED
      BY <2>1, <3>1 DEF OthersWrite
  <2>8. QED
    BY <2>1, <2>3, <2>4, <2>5, <2>6, <2>7 DEF WizardNext
<1>2. WizardSpec => [][Asked]_wizardVars
  BY <1>1, WizardInvariant, PTL DEF WizardSpec
<1>3. QED
  BY <1>2 DEF WizardAsksFirst

-----------------------------------------------------------------------------
(***************************************************************************)
(* Backups of applications' files.  Copy and metadata are two files: what  *)
(* keeps a torn or overwritten pair from being restored is the checksum,   *)
(* and what keeps an intact one right is that metadata are only ever those *)
(* of a file that was backed up with just that content.                    *)
(***************************************************************************)

IsBackup(b) == b \in [copy : {b.copy}, meta : {b.meta}]

IsStore(s) ==
    /\ s = [a \in Programs |-> s[a]]
    /\ \A a \in Programs : s[a] = [t \in Ticks |-> s[a][t]]
    /\ \A a \in Programs, t \in Ticks : IsBackup(s[a][t])

Restorable == Programs \X Ticks \X {"copy", "meta"}

IsCommand(j) ==
    /\ j \in [at : {j.at}, program : {j.program}, path : {j.path}, only : {j.only}, todo : {j.todo}]
    /\ j.at \in {"asks", "meta", "replace"} => j.program \in Programs /\ j.path \in Paths
    /\ j.at \in {"confirm", "restore"} => j.todo \in Seq(Restorable) /\ j.todo # <<>>

BackupTypeOK ==
    /\ IsStore(store)
    /\ disk = [p \in Paths |-> disk[p]]
    /\ replaced = [a \in Programs |-> replaced[a]]
    /\ clock \in Ticks
    /\ IsCommand(job)

(* Metadata are of a file and a content that were backed up.               *)
MetaIsOfSaved ==
    \A a \in Programs, t \in Ticks :
        LET m == store[a][t].meta IN m # NoMeta => <<m.path, m.sum>> \in saved

(* Between copy and metadata, and between metadata and replacement, the    *)
(* file is as it was copied; the metadata are yet to come, unless those of *)
(* a former backup are still there.                                        *)
CopyIsCurrent ==
    LET a == job.program
        c == disk[job.path]
    IN  /\ job.at \in {"meta", "replace"} =>
              c # Absent /\ store[a][clock].copy = c /\ <<job.path, c>> \in saved
        /\ job.at = "meta" /\ a \notin spoilt => store[a][clock].meta = NoMeta
        /\ job.at = "replace" => store[a][clock].meta = [path |-> job.path, sum |-> c]

(* No backup is of a time to come. *)
NoneIsLater == \A a \in Programs, t \in Ticks : t > clock => store[a][t] = NoCopy

BackupInv == BackupTypeOK /\ MetaIsOfSaved /\ CopyIsCurrent /\ NoneIsLater /\ Undoable

-----------------------------------------------------------------------------
(* A backup is its copy and its metadata.                                  *)
LEMMA PartsFacts ==
    ASSUME NEW b, IsBackup(b), NEW x, NEW c, c = [b EXCEPT !.copy = x]
    PROVE  IsBackup(c) /\ c.copy = x /\ c.meta = b.meta
<1>1. c.copy = x /\ c.meta = b.meta
  BY DEF IsBackup
<1>2. c \in [copy : {x}, meta : {b.meta}]
  BY DEF IsBackup
<1>3. QED
  BY <1>1, <1>2 DEF IsBackup

(* So it is with other metadata.                                           *)
LEMMA MetaFacts ==
    ASSUME NEW b, IsBackup(b), NEW x, NEW m, m = [b EXCEPT !.meta = x]
    PROVE  /\ IsBackup(m) /\ m.copy = b.copy /\ m.meta = x
           /\ b.meta = x => m = b
<1>1. m.copy = b.copy /\ m.meta = x /\ (b.meta = x => m = b)
  BY DEF IsBackup
<1>2. m \in [copy : {b.copy}, meta : {x}]
  BY DEF IsBackup
<1>3. QED
  BY <1>1, <1>2 DEF IsBackup

(* No backup is one as well.                                               *)
LEMMA NoCopyFacts == IsBackup(NoCopy) /\ NoCopy.copy = Absent /\ NoCopy.meta = NoMeta
BY DEF IsBackup, NoCopy

(* If a program has a backup that is listed it has a newest one.           *)
LEMMA NewestIsListed ==
    ASSUME NEW a \in Programs, Listed(a) # {}
    PROVE  /\ NewestBackup(a) \in Listed(a) /\ NewestBackup(a) \in Ticks
           /\ \A u \in Listed(a) : u <= NewestBackup(a)
<1> DEFINE Made == Listed(a)
           Ago == {MaxTicks - t : t \in Made}
<1>1. MaxTicks \in Nat /\ Made \subseteq 0 .. MaxTicks /\ Made # {}
  BY BackupConstants DEF Ticks, Listed
<1>2. Ago \subseteq Nat /\ Ago # {}
  BY <1>1
<1>3. PICK Less : Less = {ss \in Nat \X Nat : ss[1] < ss[2]} /\ IsWellFoundedOn(Less, Nat)
  BY NatLessThanWellFounded, Zenon DEF OpToRel
<1> HIDE DEF Ago
<1>a. PICK x \in Ago : \A y \in Ago : ~(<<y, x>> \in Less)
  BY <1>2, <1>3, WFMin
<1>4. ASSUME NEW y \in Ago
      PROVE  x <= y
  <2>1. x \in Nat /\ y \in Nat /\ <<y, x>> \notin Less
    BY <1>2, <1>a
  <2>2. ~(y < x)
    BY <1>3, <2>1
  <2>3. QED
    BY <2>1, <2>2
<1>5. PICK t \in Made : x = MaxTicks - t
  BY DEF Ago
<1>6. ASSUME NEW u \in Made
      PROVE  u <= t
  <2>1. MaxTicks - u \in Ago
    BY DEF Ago
  <2>2. x <= MaxTicks - u
    BY <1>4, <2>1
  <2>3. u \in Int /\ t \in Int /\ MaxTicks \in Int
    BY <1>1, <1>5
  <2> HIDE DEF Made
  <2>4. QED
    BY <1>5, <2>2, <2>3
<1>7. QED
  BY <1>1, <1>5, <1>6 DEF NewestBackup, Ticks

(* What could be undone can still be undone if nothing changes about what  *)
(* is found of the program's backups.                                      *)
LEMMA UndoableKept ==
    ASSUME Undoable,
           \A a \in Programs : a \notin spoilt' /\ replaced'[a] # Unreplaced =>
              /\ a \notin spoilt /\ replaced'[a] = replaced[a]
              /\ \A t \in Ticks : /\ Found(store'[a][t]) <=> Found(store[a][t])
                                  /\ Found(store[a][t]) => store'[a][t] = store[a][t]
    PROVE  Undoable'
<1>1. ASSUME NEW a \in Programs, a \notin spoilt', replaced'[a] # Unreplaced
      PROVE  /\ Listed(a)' # {}
             /\ LET b == store'[a][NewestBackup(a)']
                IN  Verified(b) /\ <<b.meta.path, b.copy>> = replaced'[a]
  <2>1. Listed(a) # {} /\ Verified(store[a][NewestBackup(a)])
        /\ <<store[a][NewestBackup(a)].meta.path, store[a][NewestBackup(a)].copy>> = replaced'[a]
    BY <1>1 DEF Undoable
  <2>2. Listed(a)' = Listed(a)
    BY <1>1 DEF Listed
  <2>3. NewestBackup(a)' = NewestBackup(a)
    BY <2>2 DEF NewestBackup
  <2>4. NewestBackup(a) \in Ticks /\ Found(store[a][NewestBackup(a)])
    BY <2>1, NewestIsListed DEF Listed
  <2>5. store'[a][NewestBackup(a)] = store[a][NewestBackup(a)]
    BY <1>1, <2>4
  <2>6. QED
    BY <2>1, <2>2, <2>3, <2>5
<1>2. QED
  BY <1>1 DEF Undoable, Verified, Found, Intact

(* The commands that begin, and none.                                      *)
LEMMA CommandFacts ==
    /\ IsCommand(NoCommand) /\ NoCommand.at = "idle"
    /\ \A a \in Programs, p \in Paths, only \in BOOLEAN :
          LET j == [NoCommand EXCEPT !.at = "asks", !.program = a, !.path = p, !.only = only]
          IN  IsCommand(j) /\ j.at = "asks"
    /\ \A todo \in Seq(Restorable) \ {<<>>} :
          LET j == [NoCommand EXCEPT !.at = "confirm", !.todo = todo]
          IN  IsCommand(j) /\ j.at = "confirm"
<1>1. IsCommand(NoCommand) /\ NoCommand.at = "idle"
  BY DEF IsCommand, NoCommand
<1>2. ASSUME NEW a \in Programs, NEW p \in Paths, NEW only \in BOOLEAN
      PROVE  LET j == [NoCommand EXCEPT !.at = "asks", !.program = a, !.path = p, !.only = only]
             IN  IsCommand(j) /\ j.at = "asks"
  BY DEF IsCommand, NoCommand
<1>3. ASSUME NEW todo \in Seq(Restorable), todo # <<>>
      PROVE  LET j == [NoCommand EXCEPT !.at = "confirm", !.todo = todo]
             IN  IsCommand(j) /\ j.at = "confirm"
  BY <1>3 DEF IsCommand, NoCommand
<1>4. QED
  BY <1>1, <1>2, <1>3

(* A command goes on.                                                      *)
LEMMA CommandGoesOn ==
    ASSUME NEW j, IsCommand(j), NEW at, NEW k, k = [j EXCEPT !.at = at]
    PROVE  /\ k.at = at /\ k.program = j.program /\ k.path = j.path /\ k.only = j.only /\ k.todo = j.todo
           /\ \/ at \in {"meta", "replace"} /\ j.at \in {"asks", "meta"}
              \/ at = "restore" /\ j.at = "confirm"
              => IsCommand(k)
<1>1. k.at = at /\ k.program = j.program /\ k.path = j.path /\ k.only = j.only /\ k.todo = j.todo
  BY DEF IsCommand
<1>2. k \in [at : {at}, program : {j.program}, path : {j.path}, only : {j.only}, todo : {j.todo}]
  BY DEF IsCommand
<1>3. QED
  BY <1>1, <1>2 DEF IsCommand

(* A step that leaves the backups as they are.                             *)
LEMMA QuietInv ==
    ASSUME BackupInv, UNCHANGED <<store, saved, replaced, spoilt>>, clock' \in Ticks, clock <= clock',
           disk' = [p \in Paths |-> disk'[p]], IsCommand(job'),
           \/ job'.at \notin {"meta", "replace"}
           \/ UNCHANGED <<job, disk, clock>>
    PROVE  BackupInv'
<1>1. BackupTypeOK'
  BY DEF BackupInv, BackupTypeOK, IsStore
<1>2. MetaIsOfSaved'
  BY DEF BackupInv, MetaIsOfSaved
<1>3. CopyIsCurrent'
  BY DEF BackupInv, CopyIsCurrent
<1>4. NoneIsLater'
  <2>1. clock \in Int /\ clock' \in Int /\ Ticks \subseteq Int
    BY DEF BackupInv, BackupTypeOK, Ticks
  <2>2. ASSUME NEW a \in Programs, NEW t \in Ticks, t > clock'
        PROVE  store[a][t] = NoCopy
    <3>1. t > clock
      BY <2>1, <2>2
    <3>2. QED
      BY <3>1 DEF BackupInv, NoneIsLater
  <2>3. QED
    BY <2>2 DEF NoneIsLater
<1>5. Undoable'
  BY UndoableKept DEF BackupInv
<1>6. QED
  BY <1>1, <1>2, <1>3, <1>4, <1>5 DEF BackupInv

(* What restore takes on is listed. *)
LEMMA RestoringFacts ==
    /\ \A a \in Programs : Listed(a) # {} =>
          <<<<a, NewestBackup(a), "copy">>>> \in Seq(Restorable) \ {<<>>}
    /\ \A a \in Programs : \A t \in Listed(a) : <<<<a, t, "meta">>>> \in Seq(Restorable) \ {<<>>}
    /\ (\E a \in Programs : Listed(a) # {}) => NewestOfAll \subseteq Seq(Restorable) \ {<<>>}
<1>1. \A a \in Programs : Listed(a) \subseteq Ticks
  BY DEF Listed
<1>2. ASSUME NEW a \in Programs, Listed(a) # {}
      PROVE  <<<<a, NewestBackup(a), "copy">>>> \in Seq(Restorable) \ {<<>>}
  BY <1>2, NewestIsListed DEF Restorable
<1>3. ASSUME NEW a \in Programs, NEW t \in Listed(a)
      PROVE  <<<<a, t, "meta">>>> \in Seq(Restorable) \ {<<>>}
  BY <1>1 DEF Restorable
<1>4. ASSUME NEW b \in Programs, Listed(b) # {}, NEW s \in NewestOfAll
      PROVE  s \in Seq(Restorable) \ {<<>>}
  <2> DEFINE with == {a \in Programs : Listed(a) # {}}
  <2>1. Cardinality(with) \in Nat
    BY BackupConstants, FS_Subset, FS_CardinalityType
  <2>2. s \in [1 .. Cardinality(with) -> with \X Ticks \X {"copy"}] /\ {s[i][1] : i \in DOMAIN s} = with
    BY DEF NewestOfAll
  <2>3. with \X Ticks \X {"copy"} \subseteq Restorable
    BY DEF Restorable
  <2>4. b \in with
    BY <1>4
  <2> HIDE DEF with
  <2>5. DOMAIN s # {}
    BY <2>2, <2>4
  <2>6. s \in Seq(Restorable)
    BY <2>1, <2>2, <2>3
  <2>7. QED
    BY <2>5, <2>6
<1>5. QED
  BY <1>2, <1>3, <1>4

(* The user, and the commands that begin or end.                           *)
LEMMA UserInv ==
    ASSUME BackupInv,
           \/ \E i \in Installations : Installs(i)
           \/ \E p \in Paths, c \in Texts : Changes(p, c)
           \/ SecondPasses \/ Declines \/ Confirmed
    PROVE  BackupInv'
<1>1. IsCommand(job) /\ clock \in Ticks /\ disk = [p \in Paths |-> disk[p]] /\ clock <= clock
  BY DEF BackupInv, BackupTypeOK, Ticks
<1>2. ASSUME NEW i \in Installations, Installs(i)
      PROVE  BackupInv'
  BY <1>1, <1>2, QuietInv DEF Installs
<1>3. ASSUME NEW p \in Paths, NEW c \in Texts, Changes(p, c)
      PROVE  BackupInv'
  <2>1. disk' = [q \in Paths |-> disk'[q]] /\ job'.at \notin {"meta", "replace"}
    BY <1>1, <1>3 DEF Changes, Asking
  <2>2. QED
    BY <1>1, <1>3, <2>1, QuietInv DEF Changes
<1>4. CASE SecondPasses
  <2>1. clock' \in Ticks /\ clock <= clock' /\ job'.at \notin {"meta", "replace"}
    BY <1>1, <1>4, BackupConstants DEF SecondPasses, Asking, Ticks
  <2>2. QED
    BY <1>1, <1>4, <2>1, QuietInv DEF SecondPasses
<1>5. CASE Declines
  BY <1>1, <1>5, QuietInv, CommandFacts DEF Declines
<1>6. CASE Confirmed
  <2>1. IsCommand(job') /\ job'.at = "restore"
    BY <1>1, <1>6, CommandGoesOn DEF Confirmed
  <2>2. QED
    BY <1>1, <1>6, <2>1, QuietInv DEF Confirmed
<1>7. QED
  BY <1>2, <1>3, <1>4, <1>5, <1>6

(* A command that begins has yet to do something.                          *)
LEMMA CommandBeginsInv ==
    ASSUME BackupInv,
           \/ \E a \in Programs, p \in Paths, force, only \in BOOLEAN : ConsolidateApp(a, p, force, only)
           \/ \E a \in Programs : RestoreApp(a) \/ \E t \in Ticks : RestoreFile(a, t)
           \/ RestoreAll
    PROVE  BackupInv'
<1>1. clock \in Ticks /\ disk = [p \in Paths |-> disk[p]] /\ clock <= clock
  BY DEF BackupInv, BackupTypeOK, Ticks
<1>2. ASSUME NEW j, Starts(j), IsCommand(j), j.at \in {"asks", "confirm"}
      PROVE  BackupInv'
  BY <1>1, <1>2, QuietInv DEF Starts
<1>3. ASSUME NEW todo \in Seq(Restorable) \ {<<>>}, ToRestore(todo)
      PROVE  BackupInv'
  BY <1>2, <1>3, CommandFacts DEF ToRestore
<1>4. ASSUME NEW a \in Programs, NEW p \in Paths, NEW only \in BOOLEAN,
             Starts([NoCommand EXCEPT !.at = "asks", !.program = a, !.path = p, !.only = only])
      PROVE  BackupInv'
  BY <1>2, <1>4, CommandFacts
<1>5. ASSUME NEW a \in Programs, RestoreApp(a) \/ \E t \in Ticks : RestoreFile(a, t)
      PROVE  BackupInv'
  BY <1>3, <1>5, RestoringFacts DEF RestoreApp, RestoreFile
<1>6. CASE RestoreAll
  BY <1>3, <1>6, RestoringFacts DEF RestoreAll
<1>7. QED
  BY <1>4, <1>5, <1>6 DEF ConsolidateApp

(* A restore puts into a file what a backup of it says was there.          *)
LEMMA RollBackInv ==
    ASSUME BackupInv, RollBackNext
    PROVE  /\ BackupInv'
           /\ \A p \in Paths : disk'[p] # disk[p] => <<p, disk'[p]>> \in saved
<1>1. /\ job.todo \in Seq(Restorable) /\ job.todo # <<>> /\ IsCommand(job)
      /\ disk = [p \in Paths |-> disk[p]] /\ clock \in Ticks /\ clock <= clock
      /\ IsStore(store)
  BY DEF RollBackNext, BackupInv, BackupTypeOK, IsCommand, Ticks
<1>2. PICK a \in Programs, t \in Ticks, name \in {"copy", "meta"} : Head(job.todo) = <<a, t, name>>
  BY <1>1 DEF Restorable
<1>3. PICK b : b = store[a][t]
  OBVIOUS
<1>4. disk' = Restored(b, name)
  BY <1>2, <1>3 DEF RollBackNext
<1>5. b.meta # NoMeta /\ Intact(b) => <<b.meta.path, b.copy>> \in saved
  BY <1>3 DEF BackupInv, MetaIsOfSaved, Intact
<1>6. disk' = [p \in Paths |-> disk'[p]]
  BY <1>1, <1>4 DEF Restored
<1>7. ASSUME NEW p \in Paths, disk'[p] # disk[p]
      PROVE  <<p, disk'[p]>> \in saved
  <2>1. b.meta # NoMeta /\ Intact(b) /\ disk' = [disk EXCEPT ![b.meta.path] = b.copy]
    BY <1>4, <1>7 DEF Restored
  <2>2. p = b.meta.path /\ disk'[p] = b.copy
    BY <1>1, <1>7, <2>1
  <2>3. QED
    BY <1>5, <2>1, <2>2
<1>8. IsCommand(job') /\ job'.at \notin {"meta", "replace"}
  <2>1. CASE Len(job.todo) = 1
    BY <2>1, CommandFacts DEF RollBackNext
  <2>2. CASE Len(job.todo) # 1
    <3>1. Tail(job.todo) \in Seq(Restorable) /\ Tail(job.todo) # <<>>
      <4>1. PICK q \in Seq(Restorable) : q = job.todo
        BY <1>1
      <4>2. q # <<>> /\ Len(q) \in Nat /\ Len(q) # 0
        BY <1>1, <4>1
      <4>3. Tail(q) \in Seq(Restorable) /\ Len(Tail(q)) = Len(q) - 1
        BY <4>2
      <4>4. Len(Tail(q)) # 0
        BY <2>2, <4>1, <4>2, <4>3
      <4>5. Tail(q) # <<>>
        <5>1. PICK r : r = Tail(q)
          OBVIOUS
        <5>2. Len(r) # 0
          BY <4>4, <5>1
        <5>3. r # <<>>
          BY <5>2
        <5>4. QED
          BY <5>1, <5>3
      <4>6. QED
        BY <4>1, <4>3, <4>5
    <3>2. job' = [job EXCEPT !.todo = Tail(job.todo)] /\ job.at = "restore"
      BY <2>2 DEF RollBackNext
    <3>3. /\ job' \in [at : {job.at}, program : {job.program}, path : {job.path}, only : {job.only},
                       todo : {Tail(job.todo)}]
          /\ job'.at = "restore" /\ job'.todo = Tail(job.todo)
          /\ job'.program = job.program /\ job'.path = job.path /\ job'.only = job.only
      BY <1>1, <3>2 DEF IsCommand
    <3>4. QED
      BY <3>1, <3>2, <3>3 DEF IsCommand
  <2>3. QED
    BY <2>1, <2>2
<1>9. BackupInv'
  BY <1>1, <1>6, <1>8, QuietInv DEF RollBackNext
<1>10. QED
  BY <1>7, <1>9

(* The backups with another one of a program and second.                   *)
WithBackup(s, a, t, b) == [s EXCEPT ![a][t] = b]

DiffersAt(n, s, a, t, b) ==
    \A x \in Programs, u \in Ticks : n[x][u] = IF x = a /\ u = t THEN b ELSE s[x][u]

(* A step that changes the copy or the metadata of one backup.             *)
LEMMA StoreFacts ==
    ASSUME NEW s, IsStore(s), NEW a \in Programs, NEW t \in Ticks, NEW b, IsBackup(b)
    PROVE  /\ IsStore(WithBackup(s, a, t, b))
           /\ DiffersAt(WithBackup(s, a, t, b), s, a, t, b)
<1>0. PICK n : n = WithBackup(s, a, t, b)
  OBVIOUS
<1>1. \A x \in Programs : n[x] = IF x = a THEN [s[a] EXCEPT ![t] = b] ELSE s[x]
  BY <1>0 DEF IsStore, WithBackup
<1>2. /\ n = [x \in Programs |-> n[x]]
      /\ \A x \in Programs : n[x] = [u \in Ticks |-> n[x][u]]
      /\ \A x \in Programs, u \in Ticks : n[x][u] = IF x = a /\ u = t THEN b ELSE s[x][u]
  BY <1>0, <1>1 DEF IsStore, WithBackup
<1>3. \A x \in Programs, u \in Ticks : IsBackup(n[x][u])
  BY <1>2 DEF IsStore
<1>4. IsStore(n)
  BY <1>2, <1>3 DEF IsStore
<1>5. QED
  BY <1>0, <1>2, <1>4 DEF DiffersAt

(* The copy is made; if there was none of the second none is found yet.    *)
LEMMA CopyInv == BackupInv /\ CopyFile => BackupInv'
<1> SUFFICES ASSUME BackupInv, CopyFile PROVE BackupInv'
  OBVIOUS
<1>1. PICK a, p, c : a = job.program /\ p = job.path /\ c = disk[p]
  OBVIOUS
<1>2. /\ IsStore(store) /\ IsCommand(job) /\ clock \in Ticks /\ Ticks \subseteq Int
      /\ a \in Programs /\ p \in Paths /\ job.at = "asks" /\ c # Absent
  BY <1>1 DEF CopyFile, BackupInv, BackupTypeOK, IsCommand, Ticks
<1>3. PICK b : b = [store[a][clock] EXCEPT !.copy = c]
  OBVIOUS
<1>4. IsBackup(b) /\ b.copy = c /\ b.meta = store[a][clock].meta
  <2>1. PICK o : o = store[a][clock]
    OBVIOUS
  <2>2. IsBackup(o)
    BY <1>2, <2>1 DEF IsStore
  <2>3. b = [o EXCEPT !.copy = c]
    BY <1>3, <2>1, Zenon
  <2>4. QED
    BY <2>1, <2>2, <2>3, PartsFacts
<1>5. /\ store' = [store EXCEPT ![a][clock] = b] /\ saved' = saved \cup {<<p, c>>}
      /\ spoilt' = IF store[a][clock] = NoCopy THEN spoilt ELSE spoilt \cup {a}
      /\ job' = [job EXCEPT !.at = "meta"] /\ UNCHANGED <<disk, clock, replaced>>
  BY <1>1, <1>3 DEF CopyFile
<1>6. /\ IsStore(store')
      /\ \A x \in Programs, u \in Ticks : store'[x][u] = IF x = a /\ u = clock THEN b ELSE store[x][u]
  <2>1. store' = WithBackup(store, a, clock, b)
    BY <1>5 DEF WithBackup
  <2>2. IsStore(store') /\ DiffersAt(store', store, a, clock, b)
    BY <1>2, <1>4, <2>1, StoreFacts, Zenon
  <2>3. QED
    BY <2>2 DEF DiffersAt
<1>7. IsCommand(job') /\ job'.at = "meta" /\ job'.program = a /\ job'.path = p
  BY <1>1, <1>2, <1>5, CommandGoesOn
<1>8. BackupTypeOK'
  BY <1>2, <1>5, <1>6, <1>7 DEF BackupInv, BackupTypeOK
<1>9. MetaIsOfSaved'
  <2>1. \A x \in Programs, u \in Ticks : store'[x][u].meta = store[x][u].meta
    BY <1>4, <1>6
  <2>2. QED
    BY <1>5, <2>1 DEF BackupInv, MetaIsOfSaved
<1>10. CopyIsCurrent'
  <2>1. store'[a][clock].copy = c /\ store'[a][clock].meta = store[a][clock].meta
    BY <1>2, <1>4, <1>6
  <2>2. a \notin spoilt' => store'[a][clock].meta = NoMeta
    BY <1>5, <2>1, NoCopyFacts
  <2>3. QED
    BY <1>1, <1>2, <1>5, <1>7, <2>1, <2>2 DEF CopyIsCurrent
<1>11. NoneIsLater'
  <2>1. ~(clock > clock)
    BY <1>2
  <2>2. QED
    BY <1>5, <1>6, <2>1 DEF BackupInv, NoneIsLater
<1>12. Undoable'
  <2>1. ASSUME NEW x \in Programs, x \notin spoilt', NEW u \in Ticks
        PROVE  /\ Found(store'[x][u]) <=> Found(store[x][u])
               /\ Found(store[x][u]) => store'[x][u] = store[x][u]
    <3>1. CASE x = a /\ u = clock
      <4>1. store[a][clock] = NoCopy /\ store'[x][u] = b
        BY <1>5, <1>6, <2>1, <3>1
      <4>2. ~Found(NoCopy) /\ ~Found(b)
        BY <1>4, <4>1, NoCopyFacts DEF Found
      <4>3. QED
        BY <3>1, <4>1, <4>2
    <3>2. CASE ~(x = a /\ u = clock)
      BY <1>6, <3>2
    <3>3. QED
      BY <3>1, <3>2
  <2>2. \A x \in Programs : x \notin spoilt' => x \notin spoilt /\ replaced'[x] = replaced[x]
    BY <1>5
  <2>3. QED
    BY <2>1, <2>2, UndoableKept DEF BackupInv
<1>13. QED
  BY <1>8, <1>9, <1>10, <1>11, <1>12 DEF BackupInv

(* The metadata are of the file as it was copied. *)
LEMMA MetaInv == BackupInv /\ WriteMeta => BackupInv'
<1> SUFFICES ASSUME BackupInv, WriteMeta PROVE BackupInv'
  OBVIOUS
<1>1. PICK a, p, c : a = job.program /\ p = job.path /\ c = disk[p]
  OBVIOUS
<1>2. /\ IsStore(store) /\ IsCommand(job) /\ clock \in Ticks /\ Ticks \subseteq Int
      /\ a \in Programs /\ p \in Paths /\ job.at = "meta"
      /\ c # Absent /\ store[a][clock].copy = c /\ <<p, c>> \in saved
  BY <1>1 DEF WriteMeta, BackupInv, BackupTypeOK, IsCommand, CopyIsCurrent, Ticks
<1>3. PICK m : m = [path |-> p, sum |-> c]
  OBVIOUS
<1>4. PICK b : b = [store[a][clock] EXCEPT !.meta = m]
  OBVIOUS
<1>5. IsBackup(b) /\ b.meta = m /\ b.copy = c /\ m.path = p /\ m.sum = c
  <2>1. PICK o : o = store[a][clock]
    OBVIOUS
  <2>2. IsBackup(o)
    BY <1>2, <2>1 DEF IsStore
  <2>3. b = [o EXCEPT !.meta = m]
    BY <1>4, <2>1, Zenon
  <2>4. o.copy = c /\ m.path = p /\ m.sum = c
    BY <1>2, <1>3, <2>1
  <2>5. QED
    BY <2>1, <2>2, <2>3, <2>4, MetaFacts
<1>6. /\ store' = [store EXCEPT ![a][clock] = b]
      /\ replaced' = [replaced EXCEPT ![a] = Unreplaced]
      /\ job' = IF job.only THEN NoCommand ELSE [job EXCEPT !.at = "replace"]
      /\ UNCHANGED <<disk, clock, saved, spoilt>>
  BY <1>1, <1>3, <1>4 DEF WriteMeta
<1>7. /\ IsStore(store')
      /\ \A x \in Programs, u \in Ticks : store'[x][u] = IF x = a /\ u = clock THEN b ELSE store[x][u]
  <2>1. store' = WithBackup(store, a, clock, b)
    BY <1>6 DEF WithBackup
  <2>2. IsStore(store') /\ DiffersAt(store', store, a, clock, b)
    BY <1>2, <1>5, <2>1, StoreFacts, Zenon
  <2>3. QED
    BY <2>2 DEF DiffersAt
<1>8. IsCommand(job') /\ ((job'.at = "replace" /\ job'.program = a /\ job'.path = p) \/ job'.at = "idle")
  <2>1. CASE job.only
    BY <1>6, <2>1, CommandFacts
  <2>2. CASE ~job.only
    <3>1. PICK k : k = [job EXCEPT !.at = "replace"]
      OBVIOUS
    <3>2. job' = k
      BY <1>6, <2>2, <3>1
    <3>3. QED
      BY <1>1, <1>2, <3>1, <3>2, CommandGoesOn
  <2>3. QED
    BY <2>1, <2>2
<1>9. /\ replaced' = [x \in Programs |-> replaced'[x]] /\ replaced'[a] = Unreplaced
      /\ \A x \in Programs \ {a} : replaced'[x] = replaced[x]
  BY <1>2, <1>6 DEF BackupInv, BackupTypeOK
<1>10. BackupTypeOK'
  BY <1>2, <1>6, <1>7, <1>8, <1>9 DEF BackupInv, BackupTypeOK
<1>11. MetaIsOfSaved'
  BY <1>2, <1>5, <1>6, <1>7 DEF BackupInv, MetaIsOfSaved
<1>12. CopyIsCurrent'
  <2>1. store'[a][clock] = b
    BY <1>2, <1>7
  <2>2. QED
    BY <1>1, <1>2, <1>3, <1>5, <1>6, <1>8, <2>1 DEF CopyIsCurrent
<1>13. NoneIsLater'
  <2>1. ~(clock > clock)
    BY <1>2
  <2>2. QED
    BY <1>6, <1>7, <2>1 DEF BackupInv, NoneIsLater
<1>14. Undoable'
  BY <1>6, <1>7, <1>9, UndoableKept DEF BackupInv
<1>15. QED
  BY <1>10, <1>11, <1>12, <1>13, <1>14 DEF BackupInv

(* The file is replaced by what 1mcp writes; the newest backup is of it.   *)
LEMMA ReplaceInv ==
    ASSUME BackupInv, NEW fails \in BOOLEAN, Replace(fails)
    PROVE  BackupInv'
<1>1. PICK a, p, c : a = job.program /\ p = job.path /\ c = disk[p]
  OBVIOUS
<1>2. /\ IsStore(store) /\ clock \in Ticks /\ Ticks \subseteq Int /\ clock <= clock
      /\ disk = [q \in Paths |-> disk[q]] /\ replaced = [x \in Programs |-> replaced[x]]
      /\ a \in Programs /\ p \in Paths /\ job.at = "replace"
      /\ c # Absent /\ store[a][clock].copy = c
      /\ store[a][clock].meta = [path |-> p, sum |-> c]
  BY <1>1 DEF Replace, BackupInv, BackupTypeOK, IsCommand, CopyIsCurrent, Ticks
<1>3. /\ job' = NoCommand /\ UNCHANGED <<store, clock, saved, spoilt>>
      /\ disk' = [q \in Paths |-> disk'[q]]
  BY <1>2 DEF Replace
<1>4. CASE fails
  BY <1>2, <1>3, <1>4, CommandFacts, QuietInv DEF Replace
<1>5. CASE ~fails
  <2>1. replaced' = [replaced EXCEPT ![a] = <<p, c>>]
    BY <1>1, <1>5 DEF Replace
  <2>2. /\ replaced' = [x \in Programs |-> replaced'[x]] /\ replaced'[a] = <<p, c>>
        /\ \A x \in Programs \ {a} : replaced'[x] = replaced[x]
    BY <1>2, <2>1
  <2>3. BackupTypeOK'
    BY <1>2, <1>3, <2>2, CommandFacts DEF BackupInv, BackupTypeOK, IsStore
  <2>4. MetaIsOfSaved' /\ CopyIsCurrent' /\ NoneIsLater'
    BY <1>3, CommandFacts DEF BackupInv, MetaIsOfSaved, CopyIsCurrent, NoneIsLater
  <2>5. PICK b : b = store[a][clock]
    OBVIOUS
  <2>6. Verified(b) /\ b.meta.path = p /\ b.copy = c
    <3>1. b.copy = c /\ b.meta = [path |-> p, sum |-> c]
      BY <1>2, <2>5
    <3>2. b.meta.path = p /\ b.meta.sum = c /\ NoMeta.sum = Absent
      BY <3>1 DEF NoMeta
    <3>3. b.meta # NoMeta
      BY <1>2, <3>2
    <3>4. QED
      BY <1>2, <3>1, <3>2, <3>3 DEF Verified, Found, Intact
  <2>7. clock \in Listed(a)
    BY <1>2, <2>5, <2>6 DEF Listed, Verified
  <2>8. \A u \in Listed(a) : u <= clock
    <3>1. ASSUME NEW u \in Ticks, Found(store[a][u])
          PROVE  ~(u > clock)
      BY <1>2, <3>1, NoCopyFacts DEF BackupInv, NoneIsLater, Found
    <3>2. QED
      BY <1>2, <3>1 DEF Listed
  <2>9. NewestBackup(a) = clock
    <3>1. NewestBackup(a) \in Ticks /\ clock <= NewestBackup(a) /\ NewestBackup(a) <= clock
      BY <1>2, <2>7, <2>8, NewestIsListed
    <3>2. QED
      BY <1>2, <3>1
  <2>10. Undoable'
    <3>1. ASSUME NEW x \in Programs, replaced'[x] # Unreplaced, x \notin spoilt
          PROVE  /\ Listed(x) # {} /\ Verified(store[x][NewestBackup(x)])
                 /\ <<store[x][NewestBackup(x)].meta.path, store[x][NewestBackup(x)].copy>> = replaced'[x]
      <4>1. CASE x = a
        BY <2>2, <2>5, <2>6, <2>7, <2>9, <4>1
      <4>2. CASE x # a
        BY <2>2, <3>1, <4>2 DEF BackupInv, Undoable
      <4>3. QED
        BY <4>1, <4>2
    <3>2. \A x \in Programs : Listed(x)' = Listed(x) /\ NewestBackup(x)' = NewestBackup(x)
      BY <1>3 DEF Listed, NewestBackup
    <3>3. QED
      BY <1>3, <3>1, <3>2 DEF Undoable, Verified, Found, Intact
  <2>11. QED
    BY <2>3, <2>4, <2>10 DEF BackupInv
<1>6. QED
  BY <1>4, <1>5

(* A command that is killed leaves a copy without metadata: the backup as  *)
(* it was before the metadata, unless one of the second is overwritten.    *)
LEMMA DiesInv ==
    ASSUME BackupInv, NEW torn \in BOOLEAN, Dies(torn)
    PROVE  BackupInv'
<1>1. /\ IsStore(store) /\ clock \in Ticks /\ Ticks \subseteq Int /\ clock <= clock
      /\ disk = [q \in Paths |-> disk[q]]
      /\ job' = NoCommand /\ UNCHANGED <<disk, clock, saved, replaced, spoilt>>
  BY DEF Dies, BackupInv, BackupTypeOK, Ticks
<1>2. CASE ~(torn /\ job.at = "meta")
  BY <1>1, <1>2, CommandFacts, QuietInv DEF Dies
<1>3. CASE torn /\ job.at = "meta"
  <2>1. PICK a, o, b : a = job.program /\ o = store[a][clock] /\ b = [o EXCEPT !.meta = NoMeta]
    OBVIOUS
  <2>2. a \in Programs /\ (a \notin spoilt => o.meta = NoMeta)
    BY <1>3, <2>1 DEF BackupInv, BackupTypeOK, IsCommand, CopyIsCurrent
  <2>3. IsBackup(o)
    BY <1>1, <2>1, <2>2 DEF IsStore
  <2>4. IsBackup(b) /\ b.meta = NoMeta /\ (o.meta = NoMeta => b = o)
    BY <2>1, <2>3, MetaFacts
  <2>5. store' = WithBackup(store, a, clock, b)
    BY <1>3, <2>1 DEF Dies, WithBackup
  <2>6. IsStore(store') /\ DiffersAt(store', store, a, clock, b)
    BY <1>1, <2>2, <2>4, <2>5, StoreFacts, Zenon
  <2>7. \A x \in Programs, u \in Ticks : store'[x][u] = IF x = a /\ u = clock THEN b ELSE store[x][u]
    BY <2>6 DEF DiffersAt
  <2>8. BackupTypeOK'
    BY <1>1, <2>6, CommandFacts DEF BackupInv, BackupTypeOK
  <2>9. MetaIsOfSaved'
    BY <1>1, <2>4, <2>7 DEF BackupInv, MetaIsOfSaved
  <2>10. CopyIsCurrent'
    BY <1>1, CommandFacts DEF CopyIsCurrent
  <2>11. NoneIsLater'
    <3>1. ~(clock > clock)
      BY <1>1
    <3>2. QED
      BY <1>1, <2>7, <3>1 DEF BackupInv, NoneIsLater
  <2>12. Undoable'
    <3>1. \A x \in Programs, u \in Ticks : x \notin spoilt => store'[x][u] = store[x][u]
      BY <2>1, <2>2, <2>4, <2>7
    <3>2. QED
      BY <1>1, <3>1, UndoableKept DEF BackupInv
  <2>13. QED
    BY <2>8, <2>9, <2>10, <2>11, <2>12 DEF BackupInv
<1>4. QED
  BY <1>2, <1>3

(* Only what is listed is cleaned up, and the program counts as spoilt.    *)
LEMMA CleanUpInv ==
    ASSUME BackupInv, NEW age \in 1 .. MaxTicks, NEW half \in SUBSET (Programs \X Ticks), CleanUp(age, half)
    PROVE  BackupInv'
<1>1. PICK gone \in SUBSET (Programs \X Ticks) :
        /\ gone \subseteq Old(age)
        /\ store' = [a \in Programs |-> [t \in Ticks |->
                        IF <<a, t>> \in gone
                        THEN IF <<a, t>> \in half THEN [store[a][t] EXCEPT !.copy = Absent] ELSE NoCopy
                        ELSE store[a][t]]]
        /\ spoilt' = spoilt \cup {x[1] : x \in gone}
  <2>1. Old(age) \subseteq Programs \X Ticks
    BY DEF Old
  <2>2. QED
    BY <2>1 DEF CleanUp
<1>2. /\ IsStore(store) /\ clock \in Ticks /\ disk = [q \in Paths |-> disk[q]]
      /\ job = NoCommand /\ UNCHANGED <<disk, clock, job, saved, replaced>>
  BY DEF CleanUp, BackupInv, BackupTypeOK
<1>3. ASSUME NEW a \in Programs, NEW t \in Ticks
      PROVE  /\ IsBackup(store'[a][t])
             /\ store'[a][t].meta \in {store[a][t].meta, NoMeta}
             /\ <<a, t>> \notin gone => store'[a][t] = store[a][t]
             /\ <<a, t>> \in gone => Found(store[a][t]) /\ a \in spoilt'
  <2>1. PICK o, c : o = store[a][t] /\ c = [o EXCEPT !.copy = Absent]
    OBVIOUS
  <2>2. store'[a][t] = IF <<a, t>> \in gone THEN IF <<a, t>> \in half THEN c ELSE NoCopy ELSE o
    BY <1>1, <2>1
  <2>3. IsBackup(o) /\ IsBackup(c) /\ c.meta = o.meta
    <3>1. IsBackup(o)
      BY <1>2, <2>1 DEF IsStore
    <3>2. QED
      BY <2>1, <3>1, PartsFacts
  <2>4. <<a, t>> \in gone => Found(store[a][t]) /\ a \in spoilt'
    <3>1. ASSUME <<a, t>> \in gone
          PROVE  Found(store[a][t])
      BY <1>1, <3>1 DEF Old, Listed
    <3>2. ASSUME <<a, t>> \in gone
          PROVE  a \in spoilt'
      BY <1>1, <3>2
    <3>3. QED
      BY <3>1, <3>2
  <2>5. IsBackup(store'[a][t]) /\ store'[a][t].meta \in {store[a][t].meta, NoMeta}
    BY <2>1, <2>2, <2>3, NoCopyFacts
  <2>6. QED
    BY <2>1, <2>2, <2>4, <2>5
<1>4. IsStore(store')
  <2>1. store' = [a \in Programs |-> store'[a]] /\ \A a \in Programs : store'[a] = [t \in Ticks |-> store'[a][t]]
    BY <1>1
  <2>2. QED
    BY <1>3, <2>1 DEF IsStore
<1>5. BackupTypeOK'
  BY <1>2, <1>4 DEF BackupInv, BackupTypeOK
<1>6. MetaIsOfSaved'
  BY <1>2, <1>3 DEF BackupInv, MetaIsOfSaved
<1>7. CopyIsCurrent'
  BY <1>2, CommandFacts DEF CopyIsCurrent
<1>8. NoneIsLater'
  <2>1. ASSUME NEW a \in Programs, NEW t \in Ticks, t > clock
        PROVE  store'[a][t] = NoCopy
    <3>1. store[a][t] = NoCopy
      BY <2>1 DEF BackupInv, NoneIsLater
    <3>2. ~Found(store[a][t])
      BY <3>1, NoCopyFacts DEF Found
    <3>3. QED
      BY <1>3, <3>1, <3>2
  <2>2. QED
    BY <1>2, <2>1 DEF NoneIsLater
<1>9. Undoable'
  <2>1. spoilt \subseteq spoilt'
    BY <1>1
  <2>2. QED
    BY <1>2, <1>3, <2>1, UndoableKept DEF BackupInv
<1>10. QED
  BY <1>5, <1>6, <1>7, <1>8, <1>9 DEF BackupInv

(* Before the first command there is no backup.                            *)
LEMMA BackupInitInv == BackupInit => BackupInv
<1> SUFFICES ASSUME BackupInit PROVE BackupInv
  OBVIOUS
<1>1. IsStore(store) /\ \A a \in Programs, t \in Ticks : store[a][t] = NoCopy
  BY NoCopyFacts DEF BackupInit, IsStore
<1>2. BackupTypeOK
  <2>1. clock \in Ticks
    BY BackupConstants DEF BackupInit, Ticks
  <2>2. disk = [p \in Paths |-> disk[p]] /\ replaced = [a \in Programs |-> replaced[a]]
    BY DEF BackupInit
  <2>3. IsCommand(job)
    BY CommandFacts DEF BackupInit
  <2>4. QED
    BY <1>1, <2>1, <2>2, <2>3 DEF BackupTypeOK
<1>3. MetaIsOfSaved /\ CopyIsCurrent /\ NoneIsLater /\ Undoable
  BY <1>1, CommandFacts, NoCopyFacts
  DEF BackupInit, MetaIsOfSaved, CopyIsCurrent, NoneIsLater, Undoable
<1>4. QED
  BY <1>2, <1>3 DEF BackupInv

(* What a step of a restore may do to files.                               *)
RestoredStep ==
    \A p \in Paths : job.at = "restore" /\ disk'[p] # disk[p] => <<p, disk'[p]>> \in saved

(* Every step keeps the invariant, and only RollBackNext writes to a file  *)
(* while a restore is under way.                                           *)
LEMMA BackupNextInv ==
    ASSUME BackupInv, [BackupNext]_backupVars
    PROVE  BackupInv' /\ RestoredStep
<1>1. CASE \/ \E i \in Installations : Installs(i)
           \/ \E p \in Paths, c \in Texts : Changes(p, c)
           \/ SecondPasses \/ Declines \/ Confirmed
  BY <1>1, UserInv DEF RestoredStep, Installs, Changes, Asking, SecondPasses, Declines, Confirmed
<1>2. CASE \/ \E a \in Programs, p \in Paths, force, only \in BOOLEAN : ConsolidateApp(a, p, force, only)
           \/ \E a \in Programs : RestoreApp(a) \/ \E t \in Ticks : RestoreFile(a, t)
           \/ RestoreAll
  <2>1. UNCHANGED disk
    BY <1>2 DEF ConsolidateApp, RestoreApp, RestoreFile, RestoreAll, ToRestore, Starts
  <2>2. QED
    BY <1>2, <2>1, CommandBeginsInv DEF RestoredStep
<1>3. ASSUME NEW age \in 1 .. MaxTicks, NEW half \in SUBSET (Programs \X Ticks), CleanUp(age, half)
      PROVE  BackupInv' /\ RestoredStep
  BY <1>3, CleanUpInv DEF RestoredStep, CleanUp
<1>4. CASE CopyFile
  BY <1>4, CopyInv DEF RestoredStep, CopyFile
<1>5. CASE WriteMeta
  BY <1>5, MetaInv DEF RestoredStep, WriteMeta
<1>6. CASE RollBackNext
  BY <1>6, RollBackInv DEF RestoredStep
<1>7. ASSUME NEW fails \in BOOLEAN, Replace(fails)
      PROVE  BackupInv' /\ RestoredStep
  BY <1>7, ReplaceInv DEF RestoredStep, Replace
<1>8. ASSUME NEW torn \in BOOLEAN, Dies(torn)
      PROVE  BackupInv' /\ RestoredStep
  BY <1>8, DiesInv DEF RestoredStep, Dies
<1>9. CASE UNCHANGED backupVars
  BY <1>9
  DEF RestoredStep, backupVars, BackupInv, BackupTypeOK, IsStore, MetaIsOfSaved, CopyIsCurrent,
      NoneIsLater, Undoable, Listed, NewestBackup
<1>10. QED
  BY <1>1, <1>2, <1>3, <1>4, <1>5, <1>6, <1>7, <1>8, <1>9 DEF BackupNext

(* In every state what a consolidation replaced can be undone.             *)
THEOREM BackupInvariant == BackupSpec => []BackupInv
<1>1. BackupInv /\ [BackupNext]_backupVars => BackupInv'
  BY BackupNextInv
<1>2. QED
  BY BackupInitInv, <1>1, PTL DEF BackupSpec

(* A restore writes to a file only what was in it when it was backed up,   *)
(* and the newest backup undoes the last consolidation.                    *)
THEOREM BackupsStaySound == BackupSpec => BackupsAreSound
<1>1. BackupInv /\ [BackupNext]_backupVars => [RestoredStep]_backupVars /\ [Undoable']_backupVars
  BY BackupNextInv DEF BackupInv
<1>2. QED
  BY BackupInvariant, <1>1, PTL DEF BackupSpec, BackupsAreSound, RestoredWasThere, RestoredStep

-----------------------------------------------------------------------------
(* The hot reload of the configured servers.                               *)

Requests == [server : ServerNames, type : {"added", "removed", "modified"},
             fields : {"functional", "disabled", "tags"}]
PageEntries == [mode : Modes, rev : Nat, tags : Nat]
Pages == [ServerNames -> PageEntries]
Works == [todo : Seq(Requests), at : {"next", "closing", "connecting"},
          config : Pages, transport : Nat]
Transports == [server : ServerNames, rev : Nat, tags : Nat,
               by : {"boot", "start", "retry", "other"}]
Routes == [transport : Nat, status : {"none", "connected", "error",
                                      "awaiting_oauth", "disconnected"}]

(* A handler waits for one of the n transports, or for none.               *)
AwaitsOne(h, n) == h.transport <= n /\ (h.at = "next" <=> h.transport = 0)

ReloadTypes ==
    /\ config \in Pages
    /\ handlers \in Seq(Works)
    /\ made \in Seq(Transports)
    /\ live \subseteq DOMAIN made
    /\ rejoining \subseteq DOMAIN made
    /\ contested \subseteq ServerNames
    /\ missed \subseteq ServerNames
    /\ mcpServers \in [ServerNames -> 0 .. Len(made)]
    /\ outbound \in [ServerNames -> Routes]
    /\ \A s \in ServerNames : outbound[s].transport <= Len(made)
    /\ \A j \in DOMAIN handlers : AwaitsOne(handlers[j], Len(made))
    /\ Len(handlers) <= MaxEdits
    /\ \A s \in ServerNames : config[s].rev <= Len(handlers) /\ config[s].tags <= Len(handlers)

(* What becomes of the handlers when handler j waits, or is done with a    *)
(* change.                                                                 *)
Waiting(H, j, place, id) == [H EXCEPT ![j].at = place, ![j].transport = id]
Advanced(H, j) == [H EXCEPT ![j].todo = Tail(@), ![j].at = "next", ![j].transport = 0]

(* A handler that waits keeps its changes; one that is done with a change  *)
(* has the others left.                                                    *)
LEMMA WaitingFacts ==
    ASSUME NEW H \in Seq(Works), NEW j \in DOMAIN H,
           NEW place \in {"closing", "connecting"}, NEW id \in Nat
    PROVE  LET N == Waiting(H, j, place, id)
           IN  /\ N \in Seq(Works)
               /\ Len(N) = Len(H)
               /\ DOMAIN N = DOMAIN H
               /\ N[j].todo = H[j].todo
               /\ N[j].config = H[j].config
               /\ N[j].at = place
               /\ N[j].transport = id
               /\ \A i \in DOMAIN H \ {j} : N[i] = H[i]
<1> DEFINE N == Waiting(H, j, place, id)
<1>1. H[j] \in Works
  OBVIOUS
<1>2. [H[j] EXCEPT !.at = place, !.transport = id] \in Works
  BY <1>1 DEF Works
<1>3. N = [H EXCEPT ![j] = [H[j] EXCEPT !.at = place, !.transport = id]]
  BY DEF Waiting
<1>4. N \in Seq(Works) /\ Len(N) = Len(H) /\ DOMAIN N = DOMAIN H
  BY <1>2, <1>3
<1>5. /\ N[j] = [H[j] EXCEPT !.at = place, !.transport = id]
      /\ \A i \in DOMAIN H \ {j} : N[i] = H[i]
  BY <1>3
<1>6. N[j].todo = H[j].todo /\ N[j].config = H[j].config /\ N[j].at = place /\ N[j].transport = id
  BY <1>1, <1>5 DEF Works
<1>7. QED
  BY <1>4, <1>5, <1>6

(* A handler that is done with its first change.                           *)
LEMMA AdvancedFacts ==
    ASSUME NEW H \in Seq(Works), NEW j \in DOMAIN H, H[j].todo # <<>>
    PROVE  LET N == Advanced(H, j)
           IN  /\ N \in Seq(Works)
               /\ Len(N) = Len(H)
               /\ DOMAIN N = DOMAIN H
               /\ N[j].todo = Tail(H[j].todo)
               /\ N[j].config = H[j].config
               /\ N[j].at = "next"
               /\ N[j].transport = 0
               /\ \A i \in DOMAIN H \ {j} : N[i] = H[i]
<1> DEFINE N == Advanced(H, j)
           r == [H[j] EXCEPT !.todo = Tail(@), !.at = "next", !.transport = 0]
<1> HIDE DEF N, r
<1>a. H[j] \in Works
  OBVIOUS
<1>b. H[j].todo \in Seq(Requests)
  BY <1>a DEF Works
<1>1. H[j] \in Works /\ H[j].todo \in Seq(Requests) /\ Tail(H[j].todo) \in Seq(Requests)
  BY <1>a, <1>b
<1> USE DEF N, r
<1>2. r \in Works
  BY <1>1 DEF Works
<1>3. N = [H EXCEPT ![j] = r]
  BY DEF Advanced
<1>4. N \in Seq(Works) /\ Len(N) = Len(H) /\ DOMAIN N = DOMAIN H
  BY <1>2, <1>3
<1>5. N[j] = r /\ \A i \in DOMAIN H \ {j} : N[i] = H[i]
  BY <1>3
<1>6. r.todo = Tail(H[j].todo) /\ r.config = H[j].config /\ r.at = "next" /\ r.transport = 0
  BY <1>1 DEF Works
<1>7. QED
  BY <1>4, <1>5, <1>6

(* Whichever handler moves, and whatever is made, each handler still waits *)
(* for one transport that was made, or for none.                           *)
LEMMA AwaitsOneKept ==
    ASSUME NEW H \in Seq(Works), NEW n \in Nat, \A i \in DOMAIN H : AwaitsOne(H[i], n),
           NEW j \in DOMAIN H, NEW m \in Nat, n <= m
    PROVE  /\ \A i \in DOMAIN H : AwaitsOne(H[i], m)
           /\ H[j].todo # <<>> =>
                \A i \in DOMAIN Advanced(H, j) : AwaitsOne(Advanced(H, j)[i], m)
           /\ \A place \in {"closing", "connecting"}, id \in 1 .. m :
                \A i \in DOMAIN Waiting(H, j, place, id) : AwaitsOne(Waiting(H, j, place, id)[i], m)
<1>1. \A i \in DOMAIN H : AwaitsOne(H[i], m)
  <2>a. \A w \in Works : w.transport \in Nat
    BY DEF Works
  <2>1. \A i \in DOMAIN H : H[i].transport \in Nat
    BY <2>a
  <2>2. QED
    BY <2>1 DEF AwaitsOne
<1>2. ASSUME H[j].todo # <<>>, NEW i \in DOMAIN Advanced(H, j)
      PROVE  AwaitsOne(Advanced(H, j)[i], m)
  BY <1>1, <1>2, AdvancedFacts DEF AwaitsOne
<1>3. ASSUME NEW place \in {"closing", "connecting"}, NEW id \in 1 .. m,
             NEW i \in DOMAIN Waiting(H, j, place, id)
      PROVE  AwaitsOne(Waiting(H, j, place, id)[i], m)
  BY <1>1, WaitingFacts DEF AwaitsOne
<1>4. QED
  BY <1>1, <1>2, <1>3

(* Updated tags: transports keep all the rest.                             *)
Retagged(M, ids, tags) ==
    [i \in DOMAIN M |-> IF i \in ids THEN [M[i] EXCEPT !.tags = tags] ELSE M[i]]

(* They keep their server, maker and revision.                             *)
LEMMA RetaggedFacts ==
    ASSUME NEW M \in Seq(Transports), NEW ids, NEW tags \in Nat
    PROVE  LET N == Retagged(M, ids, tags)
           IN  /\ N \in Seq(Transports)
               /\ Len(N) = Len(M)
               /\ DOMAIN N = DOMAIN M
               /\ \A i \in DOMAIN M : /\ N[i].server = M[i].server
                                      /\ N[i].by = M[i].by
                                      /\ N[i].rev = M[i].rev
                                      /\ N[i].tags = IF i \in ids THEN tags ELSE M[i].tags
<1> DEFINE N == Retagged(M, ids, tags)
<1>0. \A r \in Transports : LET n == [r EXCEPT !.tags = tags]
                             IN  /\ n \in Transports
                                 /\ n.server = r.server
                                 /\ n.by = r.by
                                 /\ n.rev = r.rev
                                 /\ n.tags = tags
  BY DEF Transports
<1>1. \A i \in DOMAIN M : M[i] \in Transports /\ [M[i] EXCEPT !.tags = tags] \in Transports
  BY <1>0
<1>2. /\ N \in [1 .. Len(M) -> Transports]
      /\ \A i \in DOMAIN M : N[i] = IF i \in ids THEN [M[i] EXCEPT !.tags = tags] ELSE M[i]
  BY <1>1 DEF Retagged
<1>3. N \in Seq(Transports) /\ Len(N) = Len(M) /\ DOMAIN N = DOMAIN M
  BY <1>2
<1>4. \A i \in DOMAIN M : /\ N[i].server = M[i].server
                          /\ N[i].by = M[i].by
                          /\ N[i].rev = M[i].rev
                          /\ N[i].tags = IF i \in ids THEN tags ELSE M[i].tags
  BY <1>0, <1>1, <1>2
<1>5. QED
  BY <1>3, <1>4

(* A transport that is made is the last one, and the others stay.          *)
LEMMA MadeFacts ==
    ASSUME NEW M \in Seq(Transports), NEW t \in Transports
    PROVE  LET N == Append(M, t)
           IN  /\ N \in Seq(Transports)
               /\ Len(N) = Len(M) + 1
               /\ N[Len(N)] = t
               /\ DOMAIN M \subseteq DOMAIN N
               /\ DOMAIN N = DOMAIN M \cup {Len(M) + 1}
               /\ \A i \in DOMAIN M : N[i] = M[i]
OBVIOUS

(* The types, as facts of their own.                                       *)
LEMMA TypeFacts ==
    ASSUME ReloadTypes
    PROVE  /\ config \in Pages
           /\ handlers \in Seq(Works)
           /\ made \in Seq(Transports)
           /\ Len(made) \in Nat
           /\ DOMAIN made = 1 .. Len(made)
           /\ Len(handlers) \in Nat
           /\ DOMAIN handlers = 1 .. Len(handlers)
           /\ live \subseteq DOMAIN made
           /\ rejoining \subseteq DOMAIN made
           /\ contested \subseteq ServerNames
           /\ missed \subseteq ServerNames
           /\ mcpServers \in [ServerNames -> 0 .. Len(made)]
           /\ outbound \in [ServerNames -> Routes]
           /\ \A s \in ServerNames : /\ outbound[s].transport \in 0 .. Len(made)
                                     /\ outbound[s] \in Routes
                                     /\ config[s] \in PageEntries
                                     /\ config[s].rev \in Nat
                                     /\ config[s].tags \in Nat
                                     /\ config[s].mode \in Modes
           /\ \A j \in DOMAIN handlers : handlers[j].transport \in 0 .. Len(made)
           /\ \A i \in DOMAIN made : /\ made[i] \in Transports
                                     /\ made[i].server \in ServerNames
<1>1. /\ config \in Pages
      /\ handlers \in Seq(Works)
      /\ made \in Seq(Transports)
      /\ Len(made) \in Nat
      /\ DOMAIN made = 1 .. Len(made)
      /\ Len(handlers) \in Nat
      /\ DOMAIN handlers = 1 .. Len(handlers)
      /\ live \subseteq DOMAIN made
      /\ rejoining \subseteq DOMAIN made
      /\ contested \subseteq ServerNames
      /\ missed \subseteq ServerNames
      /\ mcpServers \in [ServerNames -> 0 .. Len(made)]
      /\ outbound \in [ServerNames -> Routes]
  BY DEF ReloadTypes
<1>2. \A s \in ServerNames : /\ outbound[s].transport \in 0 .. Len(made)
                             /\ outbound[s] \in Routes
  BY <1>1 DEF ReloadTypes, Routes
<1>3. \A s \in ServerNames : /\ config[s] \in PageEntries
                             /\ config[s].rev \in Nat
                             /\ config[s].tags \in Nat
                             /\ config[s].mode \in Modes
  BY <1>1 DEF Pages, PageEntries
<1>4. \A j \in DOMAIN handlers : handlers[j].transport \in 0 .. Len(made)
  <2>1. \A j \in DOMAIN handlers : handlers[j] \in Works
    BY <1>1
  <2>2. QED
    BY <1>1, <2>1 DEF ReloadTypes, Works, AwaitsOne
<1>5. \A i \in DOMAIN made : made[i] \in Transports
  BY <1>1
<1>6. \A t \in Transports : t.server \in ServerNames
  BY DEF Transports
<1>7. QED
  BY <1>1, <1>2, <1>3, <1>4, <1>5, <1>6

(* The entries a save can make, and what is told of one.                   *)
Redone(old, mode) == [old EXCEPT !.mode = mode, !.rev = @ + 1]
Relabelled(old) == [old EXCEPT !.mode = "enabled", !.tags = @ + 1]
WithEnabled(old) == [old EXCEPT !.mode = "enabled"]
Told(s, entry, type, fields) ==
    [entry |-> entry, change |-> [server |-> s, type |-> type, fields |-> fields]]

(* The entries a save can make of one.                                     *)
LEMMA EntryFacts ==
    ASSUME NEW old \in PageEntries
    PROVE  /\ \A mode \in Modes :
                /\ Redone(old, mode) \in PageEntries
                /\ Redone(old, mode).mode = mode
                /\ Redone(old, mode).rev = old.rev + 1
                /\ Redone(old, mode).tags = old.tags
           /\ Relabelled(old) \in PageEntries
           /\ Relabelled(old).mode = "enabled"
           /\ Relabelled(old).rev = old.rev
           /\ Relabelled(old).tags = old.tags + 1
           /\ WithEnabled(old) \in PageEntries
           /\ WithEnabled(old).mode = "enabled"
           /\ WithEnabled(old).rev = old.rev
           /\ WithEnabled(old).tags = old.tags
           /\ old.rev \in Nat /\ old.tags \in Nat /\ old.mode \in Modes
<1>1. /\ old.rev \in Nat /\ old.tags \in Nat /\ old.mode \in Modes
      /\ old.rev + 1 \in Nat /\ old.tags + 1 \in Nat
  BY DEF PageEntries
<1>2. "enabled" \in Modes
  BY DEF Modes
<1>3. ASSUME NEW mode \in Modes
      PROVE  /\ Redone(old, mode) \in PageEntries
             /\ Redone(old, mode).mode = mode
             /\ Redone(old, mode).rev = old.rev + 1
             /\ Redone(old, mode).tags = old.tags
  BY <1>1 DEF PageEntries, Redone
<1>4. /\ Relabelled(old) \in PageEntries
      /\ Relabelled(old).mode = "enabled"
      /\ Relabelled(old).rev = old.rev
      /\ Relabelled(old).tags = old.tags + 1
  BY <1>1, <1>2 DEF PageEntries, Relabelled
<1>5. /\ WithEnabled(old) \in PageEntries
      /\ WithEnabled(old).mode = "enabled"
      /\ WithEnabled(old).rev = old.rev
      /\ WithEnabled(old).tags = old.tags
  BY <1>2 DEF PageEntries, WithEnabled
<1>6. QED
  BY <1>1, <1>3, <1>4, <1>5

(* What an edit makes of an entry, and what is told of it: that the entry  *)
(* is gone, exactly when it is; that it changed, and how; and nothing when *)
(* the disabled field alone was set to false.                              *)
LEMMA EditFacts ==
    ASSUME NEW s \in ServerNames, config[s] \in PageEntries, NEW edit \in Edits(s)
    PROVE  /\ edit.entry \in PageEntries
           /\ edit.entry.rev <= config[s].rev + 1
           /\ edit.entry.tags <= config[s].tags + 1
           /\ edit.change \in Requests
           /\ edit.change.server = s
           /\ edit.change.type = "removed" <=> edit.entry.mode = "absent"
           /\ edit.change.type = "added" => config[s].mode = "absent"
           /\ edit.change.type = "modified" /\ edit.change.fields # "disabled"
                 => edit.entry.mode = "enabled"
           /\ edit.change.type = "modified" /\ edit.change.fields = "disabled"
              /\ edit.entry.rev = config[s].rev
                 => edit.entry.mode = "enabled" /\ edit.entry.tags = config[s].tags
<1>1. PICK old \in PageEntries : old = config[s]
  OBVIOUS
<1>2. \A entry : \A type \in {"added", "removed", "modified"} :
        \A fields \in {"functional", "disabled", "tags"} :
          /\ Told(s, entry, type, fields).entry = entry
          /\ Told(s, entry, type, fields).change \in Requests
          /\ Told(s, entry, type, fields).change.server = s
          /\ Told(s, entry, type, fields).change.type = type
          /\ Told(s, entry, type, fields).change.fields = fields
  BY DEF Told, Requests
<1>3. CASE old.mode = "absent"
  <2>1. \E mode \in {"disabled", "enabled"} : edit = Told(s, Redone(old, mode), "added", "functional")
    BY <1>1, <1>3 DEF Edits, Told, Redone
  <2>2. PICK mode \in {"disabled", "enabled"} : edit = Told(s, Redone(old, mode), "added", "functional")
    BY <2>1
  <2>3. mode \in Modes /\ mode # "absent"
    BY DEF Modes
  <2>4. QED
    BY <1>1, <1>2, <1>3, <2>2, <2>3, EntryFacts
<1>4. CASE old.mode # "absent"
  <2>1. \/ edit = Told(s, Redone(old, "absent"), "removed", "functional")
        \/ edit = Told(s, Redone(old, "enabled"), "modified", "functional")
        \/ edit = Told(s, Relabelled(old), "modified", "tags")
        \/ edit = Told(s, Relabelled(Redone(old, "enabled")), "modified", "tags")
        \/ edit = Told(s, Redone(old, "disabled"), "modified", "disabled")
        \/ edit = Told(s, Redone(old, "enabled"), "modified", "disabled")
        \/ edit = Told(s, WithEnabled(old), "modified", "disabled")
    BY <1>1, <1>4 DEF Edits, Told, Redone, Relabelled, WithEnabled
  <2>2. "absent" \in Modes /\ "disabled" \in Modes /\ "enabled" \in Modes
    BY DEF Modes
  <2>3. PICK new \in PageEntries : new = Redone(old, "enabled")
    BY <2>2, EntryFacts
  <2>4. new.rev = old.rev + 1 /\ new.tags = old.tags /\ new.mode = "enabled"
    BY <2>2, <2>3, EntryFacts
  <2>5. Relabelled(new) \in PageEntries /\ Relabelled(new).mode = "enabled"
        /\ Relabelled(new).rev = new.rev /\ Relabelled(new).tags = new.tags + 1
    BY EntryFacts
  <2>6. QED
    BY <1>1, <1>2, <1>4, <2>1, <2>2, <2>3, <2>4, <2>5, EntryFacts
<1>5. QED
  BY <1>3, <1>4

(* The handler of a step is busy with a change of a server it knows.       *)
LEMMA HandlerFacts ==
    ASSUME ReloadTypes, NEW j \in DOMAIN handlers, handlers[j].todo # <<>>
    PROVE  /\ j \in Busy
           /\ handlers[j] \in Works
           /\ handlers[j].todo \in Seq(Requests)
           /\ Len(handlers[j].todo) \in Nat \ {0}
           /\ handlers[j].todo[1] \in Requests
           /\ Head(handlers[j].todo) = handlers[j].todo[1]
           /\ Server(j) = handlers[j].todo[1].server
           /\ Server(j) \in ServerNames
           /\ Wanted(j) \in PageEntries
           /\ Wanted(j) = handlers[j].config[Server(j)]
           /\ handlers[j].transport \in Nat
           /\ \A by \in {"boot", "start", "retry", "other"} :
                LET t == TransportOf(Server(j), Wanted(j), by)
                IN  /\ t \in Transports
                    /\ t.server = Server(j) /\ t.by = by
                    /\ t.rev = Wanted(j).rev /\ t.tags = Wanted(j).tags
<1>1. handlers[j] \in Works
  BY DEF ReloadTypes
<1>2. handlers[j].todo \in Seq(Requests) /\ handlers[j].config \in Pages /\ handlers[j].transport \in Nat
  BY <1>1 DEF Works
<1>3. PICK t \in Seq(Requests) : t = handlers[j].todo
  BY <1>2
<1>4. Len(t) \in Nat \ {0} /\ t[1] \in Requests /\ Head(t) = t[1]
  BY <1>3
<1>5. t[1].server \in ServerNames
  BY <1>4 DEF Requests
<1>6. \A s \in ServerNames : handlers[j].config[s] \in PageEntries
  BY <1>2 DEF Pages
<1>7. Server(j) = t[1].server /\ Server(j) \in ServerNames /\ Wanted(j) \in PageEntries
  BY <1>3, <1>4, <1>5, <1>6 DEF Server, Wanted
<1>8. \A s \in ServerNames, e \in PageEntries, by \in {"boot", "start", "retry", "other"} :
        LET r == TransportOf(s, e, by)
        IN  r \in Transports /\ r.server = s /\ r.by = by /\ r.rev = e.rev /\ r.tags = e.tags
  BY DEF TransportOf, Transports, PageEntries
<1>9. QED
  BY <1>1, <1>2, <1>3, <1>4, <1>7, <1>8 DEF Busy, Wanted

(* An entry of the table set to one of m transports.                       *)
LEMMA TableSet ==
    ASSUME NEW n \in Nat, NEW m \in Nat, n <= m, NEW f \in [ServerNames -> 0 .. n],
           NEW s, NEW v \in 0 .. m
    PROVE  [f EXCEPT ![s] = v] \in [ServerNames -> 0 .. m]
<1>1. \A t \in ServerNames : f[t] \in 0 .. m
  BY SMT
<1>2. \A t \in ServerNames : [f EXCEPT ![s] = v][t] \in 0 .. m
  BY <1>1
<1>3. QED
  BY <1>2

(* Nothing is awaited at boot, and the transports made are the ones        *)
(* started.                                                                *)
LEMMA ReloadTypesInit == LifecycleInit => ReloadTypes
<1> SUFFICES ASSUME LifecycleInit PROVE ReloadTypes
  OBVIOUS
<1>1. config \in Pages /\ \A s \in ServerNames : config[s].rev = 0 /\ config[s].tags = 0
  BY DEF LifecycleInit, Pages, PageEntries, Modes
<1>2. handlers = <<>>
  BY DEF LifecycleInit
<1>3. made \in Seq(Transports) /\ DOMAIN made = DOMAIN BootOrder /\ Len(made) \in Nat
  <2>1. BootOrder \in [1 .. Len(BootOrder) -> ServerNames] /\ Len(BootOrder) \in Nat
    BY LifecycleConstants
  <2>2. made \in [1 .. Len(BootOrder) -> Transports]
    BY <2>1 DEF LifecycleInit, TransportOf, Transports
  <2>3. QED
    BY <2>1, <2>2
<1>4. /\ live \subseteq DOMAIN made
      /\ rejoining \subseteq DOMAIN made
      /\ contested \subseteq ServerNames
      /\ missed \subseteq ServerNames
  BY <1>3 DEF LifecycleInit
<1>5. mcpServers \in [ServerNames -> 0 .. Len(made)]
  BY <1>3 DEF LifecycleInit, Untracked
<1>6. outbound \in [ServerNames -> Routes] /\ \A s \in ServerNames : outbound[s].transport <= Len(made)
  <2> SUFFICES ASSUME NEW s \in ServerNames
               PROVE  outbound[s] \in Routes /\ outbound[s].transport <= Len(made)
    BY DEF LifecycleInit
  <2>1. CASE s \in Boot
    <3>1. PICK k : k = CHOOSE i \in DOMAIN BootOrder : BootOrder[i] = s
      OBVIOUS
    <3>2. \E i \in DOMAIN BootOrder : BootOrder[i] = s
      BY <2>1 DEF Boot
    <3>3. k \in DOMAIN BootOrder
      BY <3>1, <3>2
    <3>4. k \in Nat /\ k <= Len(made)
      BY <1>3, <3>3
    <3>5. outbound[s] = [transport |-> k, status |-> "connected"]
      BY <2>1, <3>1 DEF LifecycleInit
    <3>6. QED
      BY <3>4, <3>5 DEF Routes
  <2>2. CASE s \notin Boot
    BY <1>3, <2>2 DEF LifecycleInit, Routes, NoRoute
  <2>3. QED
    BY <2>1, <2>2
<1>7. handlers \in Seq(Works) /\ Len(handlers) = 0 /\ DOMAIN handlers = {}
  BY <1>2
<1>8. QED
  BY <1>1, <1>3, <1>4, <1>5, <1>6, <1>7, LifecycleConstants DEF ReloadTypes

(* What an ended transport's client does to the map.                       *)
LEMMA MarkedFacts ==
    ASSUME ReloadTypes, NEW id
    PROVE  /\ Marked(id) \in [ServerNames -> Routes]
           /\ \A s \in ServerNames :
                 /\ Marked(id)[s].transport = outbound[s].transport
                 /\ outbound[s] = NoRoute => Marked(id)[s] = NoRoute
                 /\ Marked(id)[s] # outbound[s] => s = made[id].server /\ id \in live
<1>1. outbound \in [ServerNames -> Routes]
  BY TypeFacts
<1>2. \A r \in Routes : /\ [r EXCEPT !.status = "disconnected"] \in Routes
                        /\ [r EXCEPT !.status = "disconnected"].transport = r.transport
  BY DEF Routes
<1>3. CASE id \in live /\ outbound[made[id].server] # NoRoute
  <2>1. id \in DOMAIN made
    BY <1>3, TypeFacts
  <2>2. made[id].server \in ServerNames
    BY <2>1, TypeFacts
  <2>3. Marked(id) = [outbound EXCEPT ![made[id].server].status = "disconnected"]
    BY <1>3 DEF Marked
  <2>4. QED
    BY <1>1, <1>2, <1>3, <2>2, <2>3
<1>4. CASE ~(id \in live /\ outbound[made[id].server] # NoRoute)
  <2>1. Marked(id) = outbound
    BY <1>4 DEF Marked
  <2>2. QED
    BY <1>1, <2>1
<1>5. QED
  BY <1>3, <1>4

(* The entries of the map stay, or are removed, or are one for a transport *)
(* that was made.                                                          *)
LEMMA RoutesKept ==
    ASSUME ReloadTypes, NEW m \in Nat, Len(made) <= m,
           NEW s, NEW t \in 0 .. m,
           NEW status \in {"connected", "error", "awaiting_oauth", "disconnected"}
    PROVE  /\ \A u \in ServerNames : outbound[u].transport <= m
           /\ NoRoute \in Routes /\ NoRoute.transport <= m
           /\ LET conns == [outbound EXCEPT ![s] = NoRoute]
              IN  conns \in [ServerNames -> Routes]
                  /\ \A u \in ServerNames : conns[u].transport <= m
           /\ LET conns == [outbound EXCEPT ![s] = [transport |-> t, status |-> status]]
              IN  conns \in [ServerNames -> Routes]
                  /\ \A u \in ServerNames : conns[u].transport <= m
<1>1. outbound \in [ServerNames -> Routes] /\ \A u \in ServerNames : outbound[u].transport \in 0 .. Len(made)
  BY TypeFacts
<1>2. Len(made) \in Nat
  BY TypeFacts
<1>3. \A u \in ServerNames : outbound[u].transport <= m
  BY <1>1, <1>2
<1>4. NoRoute \in Routes /\ NoRoute.transport <= m
  BY DEF NoRoute, Routes
<1>5. PICK r : r = [transport |-> t, status |-> status]
  OBVIOUS
<1>6. r \in Routes /\ r.transport <= m
  BY <1>5 DEF Routes
<1>7. \A e \in Routes : e.transport <= m =>
         LET conns == [outbound EXCEPT ![s] = e]
         IN  conns \in [ServerNames -> Routes]
             /\ \A u \in ServerNames : conns[u].transport <= m
  <2> SUFFICES ASSUME NEW e \in Routes, e.transport <= m
               PROVE  LET conns == [outbound EXCEPT ![s] = e]
                      IN  conns \in [ServerNames -> Routes]
                          /\ \A u \in ServerNames : conns[u].transport <= m
    OBVIOUS
  <2>1. \A u \in ServerNames : LET v == [outbound EXCEPT ![s] = e][u] IN v = e \/ v = outbound[u]
    BY <1>1
  <2>2. QED
    BY <1>1, <1>3, <2>1
<1>8. QED
  BY <1>3, <1>4, <1>5, <1>6, <1>7


(* The handler goes on to a connection.                                    *)
LEMMA StartTypes ==
    ASSUME ReloadTypes, NEW j \in DOMAIN handlers, handlers[j].todo # <<>>, Start(j)
    PROVE  /\ handlers' = Waiting(handlers, j, "connecting", Len(made) + 1)
           /\ handlers' \in Seq(Works)
           /\ Len(handlers') = Len(handlers)
           /\ made' = Append(made, TransportOf(Server(j), Wanted(j), "start"))
           /\ made' \in Seq(Transports)
           /\ Len(made') = Len(made) + 1
           /\ DOMAIN made \subseteq DOMAIN made'
           /\ mcpServers' = [mcpServers EXCEPT ![Server(j)] = Len(made) + 1]
           /\ mcpServers' \in [ServerNames -> 0 .. Len(made')]
           /\ outbound' = [t \in ServerNames |-> NoRoute]
           /\ outbound' \in [ServerNames -> Routes]
           /\ \A s \in ServerNames : outbound'[s].transport <= Len(made')
           /\ \A i \in DOMAIN handlers' : AwaitsOne(handlers'[i], Len(made'))
           /\ UNCHANGED <<config, contested, missed>>
<1>1. Server(j) \in ServerNames /\ TransportOf(Server(j), Wanted(j), "start") \in Transports
  BY HandlerFacts
<1>2. made \in Seq(Transports) /\ handlers \in Seq(Works) /\ Len(made) \in Nat
  BY TypeFacts
<1>3. made' = Append(made, TransportOf(Server(j), Wanted(j), "start"))
  BY DEF Start
<1>4. /\ made' \in Seq(Transports)
      /\ Len(made') = Len(made) + 1
      /\ DOMAIN made \subseteq DOMAIN made'
  BY <1>1, <1>2, <1>3, MadeFacts
<1>5. handlers' = Waiting(handlers, j, "connecting", Len(made) + 1)
      /\ UNCHANGED <<config, contested, missed>>
  BY <1>4 DEF Start, Await, Waiting
<1>6. handlers' \in Seq(Works) /\ Len(handlers') = Len(handlers)
  BY <1>2, <1>5, WaitingFacts
<1>7. mcpServers' = [mcpServers EXCEPT ![Server(j)] = Len(made) + 1]
  BY <1>4 DEF Start
<1>8. mcpServers' \in [ServerNames -> 0 .. Len(made')]
  <2>1. mcpServers \in [ServerNames -> 0 .. Len(made)]
    BY TypeFacts
  <2>2. /\ Len(made) + 1 \in Nat
        /\ Len(made) + 1 \in 0 .. Len(made) + 1
        /\ Len(made) <= Len(made) + 1
    BY <1>2
  <2>3. mcpServers' \in [ServerNames -> 0 .. Len(made) + 1]
    BY <1>2, <1>7, <2>1, <2>2, TableSet
  <2>4. QED
    BY <1>4, <2>3
<1>9. outbound' = [t \in ServerNames |-> NoRoute]
  BY DEF Start
<1>10. /\ outbound' \in [ServerNames -> Routes]
       /\ \A s \in ServerNames : outbound'[s].transport <= Len(made')
  BY <1>2, <1>4, <1>9 DEF NoRoute, Routes
<1>11. \A i \in DOMAIN handlers : AwaitsOne(handlers[i], Len(made))
  BY DEF ReloadTypes
<1>12. \A i \in DOMAIN handlers' : AwaitsOne(handlers'[i], Len(made'))
  BY <1>2, <1>4, <1>5, <1>11, AwaitsOneKept
<1>13. QED
  BY <1>3, <1>4, <1>5, <1>6, <1>7, <1>8, <1>9, <1>10, <1>12

(* A handler that goes on to its next change awaits nothing.               *)
LEMMA AdvanceTypes ==
    ASSUME ReloadTypes, NEW j \in DOMAIN handlers, handlers[j].todo # <<>>, Advance(j),
           NEW m \in Nat, Len(made) <= m
    PROVE  /\ handlers' = Advanced(handlers, j)
           /\ handlers' \in Seq(Works)
           /\ Len(handlers') = Len(handlers)
           /\ \A i \in DOMAIN handlers' : AwaitsOne(handlers'[i], m)
           /\ UNCHANGED <<config, contested, missed>>
<1>1. handlers \in Seq(Works) /\ Len(made) \in Nat
  BY TypeFacts
<1>2. handlers' = Advanced(handlers, j) /\ UNCHANGED <<config, contested, missed>>
  BY DEF Advance, Advanced
<1>3. handlers' \in Seq(Works) /\ Len(handlers') = Len(handlers)
  BY <1>1, <1>2, AdvancedFacts
<1>4. \A i \in DOMAIN handlers : AwaitsOne(handlers[i], Len(made))
  BY DEF ReloadTypes
<1>5. \A i \in DOMAIN handlers' : AwaitsOne(handlers'[i], m)
  BY <1>1, <1>2, <1>4, AwaitsOneKept
<1>6. QED
  BY <1>2, <1>3, <1>5

(* A handler that is done with a change: what else the step did is typed.  *)
LEMMA DoneTypes ==
    ASSUME ReloadTypes, NEW j \in DOMAIN handlers, handlers[j].todo # <<>>, Advance(j),
           made' \in Seq(Transports), Len(made) <= Len(made'),
           mcpServers' \in [ServerNames -> 0 .. Len(made')],
           outbound' \in [ServerNames -> Routes],
           \A s \in ServerNames : outbound'[s].transport <= Len(made'),
           live' \subseteq DOMAIN made', rejoining' = rejoining
    PROVE  ReloadTypes'
<1>1. Len(made) \in Nat /\ DOMAIN made = 1 .. Len(made) /\ rejoining \subseteq DOMAIN made
  BY TypeFacts
<1>2. Len(made') \in Nat /\ DOMAIN made' = 1 .. Len(made')
  OBVIOUS
<1>3. rejoining' \subseteq DOMAIN made'
  BY <1>1, <1>2
<1>4. /\ handlers' \in Seq(Works)
      /\ Len(handlers') = Len(handlers)
      /\ \A i \in DOMAIN handlers' : AwaitsOne(handlers'[i], Len(made'))
      /\ UNCHANGED <<config, contested, missed>>
  BY <1>2, AdvanceTypes
<1>5. QED
  BY <1>3, <1>4 DEF ReloadTypes

(* A server that could not be started has left the table.                  *)
LEMMA StartFailsTypes ==
    ASSUME ReloadTypes, NEW j \in DOMAIN handlers, handlers[j].todo # <<>>,
           NEW conns, conns \in [ServerNames -> Routes],
           \A s \in ServerNames : conns[s].transport <= Len(made),
           mcpServers' = [mcpServers EXCEPT ![Server(j)] = Untracked],
           outbound' = conns, Advance(j), made' = made,
           live' \in SUBSET live, rejoining' = rejoining
    PROVE  ReloadTypes'
<1>1. /\ made \in Seq(Transports)
      /\ live \subseteq DOMAIN made
      /\ mcpServers \in [ServerNames -> 0 .. Len(made)]
      /\ Len(made) \in Nat
  BY TypeFacts
<1>2. Untracked \in 0 .. Len(made) /\ Len(made) <= Len(made)
  BY <1>1 DEF Untracked
<1>3. mcpServers' \in [ServerNames -> 0 .. Len(made')]
  BY <1>1, <1>2, TableSet
<1>4. QED
  BY <1>1, <1>2, <1>3, DoneTypes

(* The changes of a save, in an order.                                     *)
TodoOf(S, edits, order) == [i \in 1 .. Cardinality(S) |-> edits[order[i]].change]

(* What a save leaves: the entries as edited, and a handler that has looked *)
(* at nothing yet, with a change of every server saved and of no other.    *)
LEMMA SaveFacts ==
    ASSUME ReloadTypes, NEW S \in SUBSET ServerNames,
           NEW edits \in [S -> UNION {Edits(s) : s \in S}],
           \A s \in S : edits[s] \in Edits(s),
           config' = [s \in ServerNames |-> IF s \in S THEN edits[s].entry ELSE config[s]],
           NEW order \in Lists(S, edits),
           handlers' = Append(handlers, [todo      |-> TodoOf(S, edits, order),
                                         at        |-> "next",
                                         config    |-> config',
                                         transport |-> 0]),
           Len(handlers) < MaxEdits
    PROVE  /\ config' \in Pages
           /\ \A s \in ServerNames : config'[s].rev <= Len(handlers) + 1
                                     /\ config'[s].tags <= Len(handlers) + 1
           /\ handlers' \in Seq(Works)
           /\ Len(handlers') = Len(handlers) + 1
           /\ DOMAIN handlers' = DOMAIN handlers \cup {Len(handlers')}
           /\ \A j \in DOMAIN handlers : handlers'[j] = handlers[j]
           /\ \A j \in DOMAIN handlers' : AwaitsOne(handlers'[j], Len(made))
           /\ handlers'[Len(handlers')].at = "next"
           /\ handlers'[Len(handlers')].config = config'
           /\ handlers'[Len(handlers')].todo = TodoOf(S, edits, order)
<1>1. /\ config \in Pages
      /\ handlers \in Seq(Works)
      /\ Len(handlers) \in Nat
      /\ \A s \in ServerNames : config[s] \in PageEntries
      /\ \A s \in ServerNames : config[s].rev \in Nat /\ config[s].tags \in Nat
  BY TypeFacts
<1>2. /\ \A s \in ServerNames : config[s].rev <= Len(handlers) /\ config[s].tags <= Len(handlers)
      /\ \A i \in DOMAIN handlers : AwaitsOne(handlers[i], Len(made))
  BY DEF ReloadTypes
<1>3. \A s \in S : /\ edits[s].entry \in PageEntries
                   /\ edits[s].entry.rev <= config[s].rev + 1
                   /\ edits[s].entry.tags <= config[s].tags + 1
                   /\ edits[s].change \in Requests
  BY <1>1, EditFacts
<1>4. config' \in Pages
  BY <1>1, <1>3 DEF Pages
<1>5. \A s \in ServerNames : config'[s].rev <= Len(handlers) + 1
                             /\ config'[s].tags <= Len(handlers) + 1
  <2>1. \A s \in S : edits[s].entry.rev \in Nat /\ edits[s].entry.tags \in Nat
    BY <1>3 DEF PageEntries
  <2>2. \A s \in ServerNames : config'[s] = IF s \in S THEN edits[s].entry ELSE config[s]
    OBVIOUS
  <2>3. QED
    BY <1>1, <1>2, <1>3, <2>1, <2>2
<1>6. Cardinality(S) \in Nat
  BY FS_Subset, FS_CardinalityType, LifecycleConstants
<1>7. \A i \in 1 .. Cardinality(S) : order[i] \in S
  BY DEF Lists
<1>8. PICK changes : changes = TodoOf(S, edits, order)
  OBVIOUS
<1>9. changes \in Seq(Requests) /\ DOMAIN changes = 1 .. Cardinality(S)
      /\ \A i \in 1 .. Cardinality(S) : changes[i] = edits[order[i]].change
  <2>1. DOMAIN changes = 1 .. Cardinality(S)
        /\ \A i \in 1 .. Cardinality(S) : changes[i] = edits[order[i]].change
    BY <1>8 DEF TodoOf
  <2>2. \A i \in 1 .. Cardinality(S) : edits[order[i]].change \in Requests
    BY <1>3, <1>7
  <2>3. changes \in [1 .. Cardinality(S) -> Requests]
    BY <1>8, <2>2 DEF TodoOf
  <2>4. PICK n \in Nat : n = Cardinality(S)
    BY <1>6
  <2>5. changes \in [1 .. n -> Requests]
    BY <2>3, <2>4
  <2>6. \A f \in [1 .. n -> Requests] : f \in Seq(Requests)
    OBVIOUS
  <2>7. QED
    BY <2>1, <2>5, <2>6
<1>10. PICK page \in Pages : page = config'
  BY <1>4
<1>11. PICK work : work = [todo |-> changes, at |-> "next", config |-> page, transport |-> 0]
  OBVIOUS
<1>12. /\ work \in Works /\ work.at = "next" /\ work.transport = 0
       /\ work.todo = changes /\ work.config = page
  BY <1>9, <1>11 DEF Works
<1>13. handlers' = Append(handlers, work)
  BY <1>8, <1>10, <1>11
<1>14. AwaitsOne(work, Len(made))
  BY <1>12, TypeFacts DEF AwaitsOne
<1>15. /\ handlers' \in Seq(Works)
       /\ Len(handlers') = Len(handlers) + 1
       /\ DOMAIN handlers' = DOMAIN handlers \cup {Len(handlers')}
       /\ \A i \in DOMAIN handlers : handlers'[i] = handlers[i]
       /\ handlers'[Len(handlers')] = work
  BY <1>1, <1>12, <1>13
<1>16. \A i \in DOMAIN handlers' : AwaitsOne(handlers'[i], Len(made))
  BY <1>2, <1>14, <1>15
<1>17. QED
  BY <1>4, <1>5, <1>8, <1>10, <1>12, <1>15, <1>16

(* A save starts a handler.                                                *)
LEMMA SaveTypes ==
    ASSUME ReloadTypes, NEW S \in SUBSET ServerNames, Save(S)
    PROVE  ReloadTypes'
<1>1. PICK edits \in [S -> UNION {Edits(s) : s \in S}] :
        /\ \A s \in S : edits[s] \in Edits(s)
        /\ config' = [s \in ServerNames |-> IF s \in S THEN edits[s].entry ELSE config[s]]
        /\ \E order \in Lists(S, edits) :
              handlers' = Append(handlers, [todo      |-> [i \in 1 .. Cardinality(S) |->
                                                             edits[order[i]].change],
                                            at        |-> "next",
                                            config    |-> config',
                                            transport |-> 0])
        /\ missed' = (missed \ {s \in S : Renews(edits[s])})
                       \cup {s \in S : Unseen(s, edits[s])}
  BY DEF Save
<1>2. /\ Len(handlers) < MaxEdits
      /\ contested' = contested \cup {s \in S : Pending(s)}
      /\ UNCHANGED <<made, live, mcpServers, outbound, rejoining>>
  BY DEF Save
<1>3. PICK order \in Lists(S, edits) :
        handlers' = Append(handlers, [todo      |-> TodoOf(S, edits, order),
                                      at        |-> "next",
                                      config    |-> config',
                                      transport |-> 0])
  BY <1>1 DEF TodoOf
<1>4. /\ config' \in Pages
      /\ \A s \in ServerNames : config'[s].rev <= Len(handlers) + 1
                                /\ config'[s].tags <= Len(handlers) + 1
      /\ handlers' \in Seq(Works)
      /\ Len(handlers') = Len(handlers) + 1
      /\ \A j \in DOMAIN handlers' : AwaitsOne(handlers'[j], Len(made))
  BY <1>1, <1>2, <1>3, SaveFacts
<1>5. contested' \subseteq ServerNames /\ missed' \subseteq ServerNames
  BY <1>1, <1>2, TypeFacts
<1>6. Len(handlers') <= MaxEdits
  BY <1>2, <1>4, TypeFacts, LifecycleConstants
<1>7. QED
  BY <1>2, <1>4, <1>5, <1>6 DEF ReloadTypes

(* The other steps are a handler's, each at its first change.              *)
LEMMA HandlerTypes ==
    ASSUME ReloadTypes, NEW j \in DOMAIN handlers, HandlerSteps(j)
    PROVE  ReloadTypes'
<1>t. handlers[j].todo # <<>>
  BY DEF HandlerSteps, HandleSkip, HandleMetadata, HandleStart, HandleStop, FinishStop,
         ConnectEnds, ConnectsByRetry, At
<1>h. /\ Server(j) \in ServerNames
      /\ Wanted(j).tags \in Nat
      /\ TransportOf(Server(j), Wanted(j), "retry") \in Transports
  BY <1>t, HandlerFacts DEF PageEntries
<1>b. /\ Len(handlers) <= MaxEdits
      /\ \A s \in ServerNames : config[s].rev <= Len(handlers) /\ config[s].tags <= Len(handlers)
      /\ \A i \in DOMAIN handlers : AwaitsOne(handlers[i], Len(made))
  BY DEF ReloadTypes
<1>u. outbound \in [ServerNames -> Routes] /\ \A s \in ServerNames : outbound[s].transport <= Len(made)
  BY DEF ReloadTypes
<1>v. /\ made \in Seq(Transports) /\ Len(made) \in Nat /\ Len(made) <= Len(made)
      /\ DOMAIN made = 1 .. Len(made)
      /\ live \subseteq DOMAIN made /\ rejoining \subseteq DOMAIN made
      /\ mcpServers \in [ServerNames -> 0 .. Len(made)]
  BY TypeFacts
<1>m. \A id : /\ Marked(id) \in [ServerNames -> Routes]
              /\ \A s \in ServerNames : Marked(id)[s].transport <= Len(made)
  BY <1>u, MarkedFacts
<1>1. CASE HandleSkip(j)
  <2>1. Advance(j) /\ UNCHANGED <<made, live, mcpServers, outbound, rejoining>>
    BY <1>1 DEF HandleSkip
  <2>2. QED
    BY <1>t, <1>u, <1>v, <2>1, DoneTypes
<1>2. CASE HandleMetadata(j)
  <2>1. Advance(j) /\ UNCHANGED <<live, mcpServers, outbound, rejoining>>
    BY <1>2 DEF HandleMetadata
  <2>2. made' = Retagged(made, {mcpServers[Server(j)], outbound[Server(j)].transport}, Wanted(j).tags)
    BY <1>2 DEF HandleMetadata, Retagged
  <2>3. made' \in Seq(Transports) /\ Len(made') = Len(made) /\ DOMAIN made' = DOMAIN made
    BY <1>h, <2>2, RetaggedFacts, TypeFacts
  <2>4. QED
    BY <1>t, <1>u, <1>v, <2>1, <2>3, DoneTypes
<1>s. ASSUME Start(j), live' \in SUBSET live, rejoining' = rejoining
      PROVE  ReloadTypes'
  <2>1. DOMAIN made \subseteq DOMAIN made'
    BY <1>t, <1>s, StartTypes
  <2>2. live' \subseteq DOMAIN made' /\ rejoining' \subseteq DOMAIN made'
    BY <1>s, <1>v, <2>1
  <2>3. UNCHANGED <<config, contested, missed>> /\ Len(handlers') = Len(handlers)
    BY <1>t, <1>s, StartTypes
  <2>4. /\ config' \in Pages /\ Len(handlers') <= MaxEdits
        /\ contested' \subseteq ServerNames /\ missed' \subseteq ServerNames
        /\ \A s \in ServerNames : config'[s].rev <= Len(handlers') /\ config'[s].tags <= Len(handlers')
    BY <1>b, <2>3, TypeFacts
  <2>5. QED
    BY <1>t, <1>s, <2>2, <2>4, StartTypes DEF ReloadTypes
<1>f. ASSUME NEW conns, conns \in [ServerNames -> Routes],
             \A s \in ServerNames : conns[s].transport <= Len(made),
             StartFails(j, conns), live' \in SUBSET live, rejoining' = rejoining
      PROVE  ReloadTypes'
  BY <1>t, <1>f, StartFailsTypes DEF StartFails
<1>3. CASE HandleStart(j)
  <2>1. UNCHANGED <<live, rejoining>> /\ (Start(j) \/ StartFails(j, outbound))
    BY <1>3 DEF HandleStart
  <2>2. QED
    BY <1>s, <1>f, <1>u, <2>1
<1>4. CASE HandleStop(j)
  <2>1. /\ mcpServers[Server(j)] # Untracked
        /\ outbound' = [outbound EXCEPT ![Server(j)] = NoRoute]
        /\ UNCHANGED <<config, contested, missed, made, live, mcpServers, rejoining>>
    BY <1>4 DEF HandleStop, Await
  <2>2. handlers' = Waiting(handlers, j, "closing", mcpServers[Server(j)])
    BY <1>4 DEF HandleStop, Await, Waiting
  <2>3. mcpServers[Server(j)] \in 1 .. Len(made)
    BY <1>h, <2>1, TypeFacts DEF Untracked
  <2>a. PICK v : v = mcpServers[Server(j)]
    OBVIOUS
  <2>b. v \in Nat /\ v \in 1 .. Len(made) /\ Len(made) \in Nat /\ Len(made) <= Len(made)
    BY <2>3, <2>a, TypeFacts
  <2>c. handlers' = Waiting(handlers, j, "closing", v) /\ handlers \in Seq(Works)
    BY <2>2, <2>a, TypeFacts
  <2>4. handlers' \in Seq(Works) /\ Len(handlers') = Len(handlers)
    BY <2>b, <2>c, WaitingFacts
  <2>5. \A i \in DOMAIN handlers' : AwaitsOne(handlers'[i], Len(made))
    BY <1>b, <2>b, <2>c, AwaitsOneKept
  <2>6. /\ outbound' \in [ServerNames -> Routes]
        /\ \A s \in ServerNames : outbound'[s].transport <= Len(made)
    <3>1. 0 \in 0 .. Len(made)
      BY <1>v
    <3>2. QED
      BY <1>v, <2>1, <3>1, RoutesKept
  <2>7. QED
    BY <1>b, <1>v, <2>1, <2>4, <2>5, <2>6 DEF ReloadTypes
<1>5. CASE FinishStop(j)
  <2> DEFINE id == handlers[j].transport
  <2>1. live' \in SUBSET live /\ rejoining' = rejoining
    BY <1>5 DEF FinishStop
  <2>2. \/ Start(j)
        \/ StartFails(j, Marked(id))
        \/ /\ mcpServers' = [mcpServers EXCEPT ![Server(j)] = Untracked]
           /\ outbound' = Marked(id)
           /\ Advance(j)
           /\ made' = made
    BY <1>5 DEF FinishStop
  <2>3. QED
    BY <1>t, <1>s, <1>f, <1>m, <2>1, <2>2, StartFailsTypes
<1>6. ASSUME NEW status \in {"connected", "error", "awaiting_oauth"}, ConnectEnds(j, status)
      PROVE  ReloadTypes'
  <2>0. PICK id : id = handlers[j].transport
    OBVIOUS
  <2>1. /\ outbound' = [outbound EXCEPT ![Server(j)] = [transport |-> id, status |-> status]]
        /\ live' \in SUBSET (live \cup {id})
        /\ Advance(j)
        /\ UNCHANGED <<made, mcpServers, rejoining>>
        /\ handlers[j].at = "connecting"
    BY <1>6, <2>0 DEF ConnectEnds, At
  <2>2. id \in 1 .. Len(made) /\ id \in 0 .. Len(made)
    BY <1>b, <2>0, <2>1, TypeFacts DEF AwaitsOne
  <2>3. /\ outbound' \in [ServerNames -> Routes]
        /\ \A s \in ServerNames : outbound'[s].transport <= Len(made)
    BY <1>v, <2>1, <2>2, RoutesKept
  <2>4. live' \subseteq DOMAIN made
    BY <1>v, <2>1, <2>2
  <2>5. QED
    BY <1>t, <1>v, <2>1, <2>3, <2>4, DoneTypes
<1>7. CASE ConnectsByRetry(j)
  <2>0. PICK id : id = handlers[j].transport
    OBVIOUS
  <2>1. /\ outbound' = [outbound EXCEPT ![Server(j)] = [transport |-> id, status |-> "connected"]]
        /\ made' = Append(made, TransportOf(Server(j), Wanted(j), "retry"))
        /\ live' = live \cup {Len(made')}
        /\ Advance(j)
        /\ UNCHANGED <<mcpServers, rejoining>>
        /\ handlers[j].at = "connecting"
    BY <1>7, <2>0 DEF ConnectsByRetry, At
  <2>2. id \in 0 .. Len(made) + 1
    BY <1>v, <2>0, TypeFacts
  <2>3. /\ made' \in Seq(Transports)
        /\ Len(made') = Len(made) + 1
        /\ DOMAIN made' = DOMAIN made \cup {Len(made')}
    BY <1>h, <1>v, <2>1, MadeFacts
  <2>4. Len(made) + 1 \in Nat /\ Len(made) <= Len(made) + 1
    BY <1>v
  <2>5. /\ outbound' \in [ServerNames -> Routes]
        /\ \A s \in ServerNames : outbound'[s].transport <= Len(made) + 1
    BY <2>1, <2>2, <2>4, RoutesKept
  <2>6. live' \subseteq DOMAIN made'
    BY <1>v, <2>1, <2>3
  <2>7. mcpServers' \in [ServerNames -> 0 .. Len(made')]
    BY <1>v, <2>1, <2>3
  <2>8. QED
    BY <1>t, <1>v, <2>1, <2>3, <2>5, <2>6, <2>7, DoneTypes
<1>8. QED
  BY <1>1, <1>2, <1>3, <1>4, <1>5, <1>6, <1>7 DEF HandlerSteps

(* A transport that dies changes a status; others make a transport and     *)
(* change the entry of its server.                                         *)
LEMMA OthersTypes ==
    ASSUME ReloadTypes, UNCHANGED <<config, handlers, mcpServers, contested, missed>>,
           \/ made' = made
           \/ \E t \in Transports : made' = Append(made, t),
           live' \subseteq DOMAIN made', rejoining' \subseteq DOMAIN made',
           outbound' \in [ServerNames -> Routes],
           \A s \in ServerNames : outbound'[s].transport <= Len(made')
    PROVE  ReloadTypes'
<1>1. /\ made \in Seq(Transports) /\ Len(made) \in Nat
      /\ handlers \in Seq(Works)
      /\ mcpServers \in [ServerNames -> 0 .. Len(made)]
  BY TypeFacts
<1>2. made' \in Seq(Transports) /\ Len(made') \in Nat /\ Len(made) <= Len(made')
  BY <1>1, MadeFacts
<1>3. mcpServers' \in [ServerNames -> 0 .. Len(made')]
  BY <1>1, <1>2
<1>4. \A j \in DOMAIN handlers : AwaitsOne(handlers[j], Len(made'))
  BY <1>2, TypeFacts DEF ReloadTypes, AwaitsOne
<1>5. QED
  BY <1>2, <1>3, <1>4 DEF ReloadTypes

(* Each step by the lemma about it.                                        *)
LEMMA ReloadTypesStep ==
    ASSUME ReloadTypes, [LifecycleNext]_lifecycleVars,
           \A s \in ServerNames : outbound[s] # NoRoute => outbound[s].transport # 0
    PROVE  ReloadTypes'
<1>a. /\ made \in Seq(Transports) /\ Len(made) \in Nat /\ Len(made) <= Len(made)
      /\ DOMAIN made = 1 .. Len(made)
      /\ live \subseteq DOMAIN made /\ rejoining \subseteq DOMAIN made
  BY TypeFacts
<1>b. \A id : /\ Marked(id) \in [ServerNames -> Routes]
              /\ \A s \in ServerNames : Marked(id)[s].transport <= Len(made)
  BY MarkedFacts DEF ReloadTypes
<1>1. ASSUME NEW id \in live, TransportDies(id)
      PROVE  ReloadTypes'
  <2>1. /\ outbound' = Marked(id)
        /\ live' \subseteq DOMAIN made'
        /\ rejoining' \subseteq DOMAIN made'
        /\ UNCHANGED <<config, handlers, mcpServers, contested, missed>>
        /\ made' = made
    BY <1>a, <1>1 DEF TransportDies
  <2>2. QED
    BY <1>b, <2>1, OthersTypes
<1>2. ASSUME NEW s \in ServerNames, OthersBegin(s)
      PROVE  ReloadTypes'
  <2>0. PICK id : id = outbound[s].transport
    OBVIOUS
  <2>1. /\ made' = Append(made, [made[id] EXCEPT !.by = "other"])
        /\ rejoining' = rejoining \cup {Len(made')}
        /\ live' = live \ {id}
        /\ outbound' \in {Marked(id), [outbound EXCEPT ![s] = NoRoute]}
        /\ UNCHANGED <<config, handlers, mcpServers, contested, missed>>
    BY <1>2, <2>0 DEF OthersBegin
  <2>2. id \in DOMAIN made
    BY <1>a, <1>2, <2>0, TypeFacts DEF OthersBegin
  <2>3. made[id] \in Transports
    BY <2>2, TypeFacts
  <2>4. PICK t : t = [made[id] EXCEPT !.by = "other"]
    OBVIOUS
  <2>5. t \in Transports
    BY <2>3, <2>4 DEF Transports
  <2>6. made' = Append(made, t)
    BY <2>1, <2>4
  <2>7. Len(made') = Len(made) + 1 /\ DOMAIN made' = DOMAIN made \cup {Len(made')}
    BY <1>a, <2>5, <2>6, MadeFacts
  <2>8. live' \subseteq DOMAIN made' /\ rejoining' \subseteq DOMAIN made'
    BY <1>a, <2>1, <2>7
  <2>9. /\ outbound' \in [ServerNames -> Routes]
        /\ \A u \in ServerNames : outbound'[u].transport <= Len(made)
    <3>1. 0 \in 0 .. Len(made)
      BY <1>a
    <3>2. LET conns == [outbound EXCEPT ![s] = NoRoute]
          IN  conns \in [ServerNames -> Routes]
              /\ \A u \in ServerNames : conns[u].transport <= Len(made)
      BY <1>a, <3>1, RoutesKept
    <3>3. CASE outbound' = Marked(id)
      BY <1>b, <3>3
    <3>4. CASE outbound' = [outbound EXCEPT ![s] = NoRoute]
      BY <3>2, <3>4
    <3>5. QED
      BY <2>1, <3>3, <3>4
  <2>10. \A u \in ServerNames : outbound'[u].transport <= Len(made')
    <3>1. \A u \in ServerNames : outbound'[u].transport \in Nat
      BY <2>9 DEF Routes
    <3>2. QED
      BY <1>a, <2>7, <2>9, <3>1
  <2>11. QED
    BY <2>1, <2>5, <2>6, <2>8, <2>9, <2>10, OthersTypes
<1>3. ASSUME NEW id \in rejoining,
             NEW status \in {"none", "connected", "error", "awaiting_oauth"}, OthersEnd(id, status)
      PROVE  ReloadTypes'
  <2>1. /\ outbound' = IF status = "none" THEN outbound
                       ELSE [outbound EXCEPT ![made[id].server] =
                               [transport |-> id, status |-> status]]
        /\ live' \subseteq DOMAIN made'
        /\ rejoining' \subseteq DOMAIN made'
        /\ UNCHANGED <<config, handlers, mcpServers, contested, missed>>
        /\ made' = made
    BY <1>a, <1>3 DEF OthersEnd
  <2>2. id \in 0 .. Len(made)
    BY <1>a
  <2>3. /\ outbound' \in [ServerNames -> Routes]
        /\ \A u \in ServerNames : outbound'[u].transport <= Len(made)
    <3>1. CASE status = "none"
      BY <2>1, <3>1, TypeFacts DEF ReloadTypes
    <3>2. CASE status # "none"
      <4>1. status \in {"connected", "error", "awaiting_oauth", "disconnected"}
        BY <3>2
      <4>2. PICK s : s = made[id].server
        OBVIOUS
      <4>3. outbound' = [outbound EXCEPT ![s] = [transport |-> id, status |-> status]]
        BY <2>1, <3>2, <4>2
      <4>4. QED
        BY <1>a, <2>2, <4>1, <4>3, RoutesKept
    <3>3. QED
      BY <3>1, <3>2
  <2>4. QED
    BY <2>1, <2>3, OthersTypes
<1>4. CASE UNCHANGED lifecycleVars
  BY <1>4 DEF lifecycleVars, ReloadTypes
<1>5. QED
  BY <1>1, <1>2, <1>3, <1>4, SaveTypes, HandlerTypes DEF LifecycleNext

(* The inductive invariant, which leaves out the servers that were changed *)
(* while a change of them was being handled.                               *)

(* Change i of handler j is one of server s.                               *)
Holds(j, i, s) == /\ j \in DOMAIN handlers
                  /\ i \in DOMAIN handlers[j].todo
                  /\ handlers[j].todo[i].server = s

(* Handler j has not begun with its change i.                              *)
ToBegin(j, i) == i > 1 \/ handlers[j].at = "next"

(* The transport in the table is what the entry in the file asks for.      *)
TransportFits(s) == /\ config[s].mode = "enabled"
                    /\ made[mcpServers[s]].rev = config[s].rev
                    /\ made[mcpServers[s]].tags = config[s].tags

(* A change that is left fits the file, and what the handler will not make *)
(* right is right already.                                                 *)
ChangeFits(j, i, s) ==
    LET change == handlers[j].todo[i]
    IN  /\ handlers[j].config[s] = config[s]
        /\ change.type = "removed" <=> config[s].mode = "absent"
        /\ change.type = "modified" /\ change.fields # "disabled" => config[s].mode = "enabled"
        /\ ToBegin(j, i) /\ s \notin missed /\ mcpServers[s] # Untracked =>
              /\ change.type # "added"
              /\ change.type = "modified" /\ change.fields = "disabled" => TransportFits(s)
              /\ change.type = "modified" /\ change.fields = "tags" =>
                    made[mcpServers[s]].rev = config[s].rev

(* The changes left of a server that was never changed while it was        *)
(* handled: one at most, which fits.                                       *)
ChangesFit(s) ==
    s \notin contested =>
       /\ \A j, k : \A i, l : Holds(j, i, s) /\ Holds(k, l, s) => j = k /\ i = l
       /\ \A j : \A i : Holds(j, i, s) => ChangeFits(j, i, s)

(* What a handler awaits is a transport of its server; and, unless others  *)
(* came in between, the one in the table, which has no route any more when *)
(* it is closed, and fits the file when it is connected.                   *)
AwaitFits(j) ==
    LET s == Server(j)
        id == handlers[j].transport
    IN  handlers[j].at # "next" =>
           /\ made[id].server = s /\ made[id].by = "start"
           /\ s \notin contested =>
                 /\ id = mcpServers[s]
                 /\ handlers[j].at = "closing" =>
                       /\ Decision(j) \in {"stop", "restart"}
                       /\ outbound[s] # NoRoute => made[outbound[s].transport].by # "start"
                 /\ handlers[j].at = "connecting" => TransportFits(s)

(* A server in the table has a transport of its own made by a handler,     *)
(* which fits the file unless a change of the server is left.              *)
TableFits(s) ==
    /\ config[s].mode = "absent" => s \notin missed
    /\ mcpServers[s] # Untracked =>
          /\ made[mcpServers[s]].server = s
          /\ made[mcpServers[s]].by = "start"
          /\ Handled(s) /\ s \notin missed => TransportFits(s)

(* The entry of a server leads to a transport of its own, to that in the   *)
(* table if a handler made it; and so does what is live.                   *)
RouteFits(s) ==
    /\ outbound[s] # NoRoute =>
          /\ outbound[s].transport # 0
          /\ made[outbound[s].transport].server = s
          /\ made[outbound[s].transport].by # "retry"
          /\ made[outbound[s].transport].by = "start" /\ s \notin contested
                => outbound[s].transport = mcpServers[s]
    /\ s \notin contested =>
          \A id \in live : made[id].server = s /\ made[id].by = "start" => mcpServers[s] = id

ServerFits(s) == ChangesFit(s) /\ TableFits(s) /\ RouteFits(s)

(* An entry is shown as disconnected when its transport has ended, if only *)
(* handlers made transports for the server.                                *)
EndFits(s) ==
    s \notin contested =>
       ((\A id \in DOMAIN made : made[id].server = s => made[id].by = "start")
        => (outbound[s].status = "disconnected" => outbound[s].transport \notin live))

ReloadInv ==
    /\ ReloadTypes
    /\ \A s \in ServerNames : ServerFits(s) /\ EndFits(s)
    /\ \A j \in Busy : AwaitFits(j)
    /\ \A id \in rejoining : made[id].by = "other"


(* What a step of handler j leaves as it is: the file, the other handlers, *)
(* and what belongs to the other servers, but for routes that are cleared. *)
Leaves(j) ==
    /\ UNCHANGED <<config, contested, missed, rejoining>>
    /\ DOMAIN handlers' = DOMAIN handlers
    /\ \A k \in DOMAIN handlers \ {j} : handlers'[k] = handlers[k]
    /\ handlers'[j].config = handlers[j].config
    /\ \/ handlers'[j].todo = handlers[j].todo
       \/ handlers'[j].todo = Tail(handlers[j].todo) /\ handlers'[j].at = "next"
    /\ DOMAIN made \subseteq DOMAIN made'
    /\ \A i \in DOMAIN made : /\ made'[i].server = made[i].server
                              /\ made'[i].by = made[i].by
                              /\ made[i].server # Server(j) => made'[i] = made[i]
    /\ \A i \in DOMAIN made' \ DOMAIN made : made'[i].server = Server(j)
    /\ \A s \in ServerNames \ {Server(j)} :
          /\ mcpServers'[s] = mcpServers[s]
          /\ outbound'[s] = outbound[s] \/ outbound'[s] = NoRoute
    /\ \A id \in live' : id \in live \/ made'[id].server = Server(j)

(* The number change i of handler k had before.                            *)
Was(j, k, i) == IF k = j /\ handlers'[j].todo # handlers[j].todo THEN i + 1 ELSE i

(* A list without its first member.                                        *)
LEMMA TailFacts ==
    ASSUME NEW t \in Seq(Requests), t # <<>>
    PROVE  /\ Len(t) \in Nat \ {0}
           /\ Len(Tail(t)) = Len(t) - 1
           /\ DOMAIN t = 1 .. Len(t)
           /\ DOMAIN Tail(t) = 1 .. Len(t) - 1
           /\ \A i \in 1 .. Len(t) - 1 : Tail(t)[i] = t[i + 1]
           /\ Tail(t) # t
<1>1. Len(t) \in Nat \ {0} /\ DOMAIN t = 1 .. Len(t)
  OBVIOUS
<1>a. Tail(t) \in Seq(Requests)
  BY <1>1
<1>2. PICK q \in Seq(Requests) : q = Tail(t)
  BY <1>a
<1>3. Len(q) = Len(t) - 1 /\ \A i \in 1 .. Len(t) - 1 : q[i] = t[i + 1]
  BY <1>2
<1>4. DOMAIN q = 1 .. Len(q)
  OBVIOUS
<1>5. q # t
  BY <1>1, <1>3
<1>6. QED
  BY <1>1, <1>2, <1>3, <1>4, <1>5

(* The changes handler j leaves are those there were, but for the one it   *)
(* is done with.                                                           *)
LEMMA ChangesLeft ==
    ASSUME ReloadTypes, NEW j \in DOMAIN handlers, handlers[j].todo # <<>>, Leaves(j)
    PROVE  /\ \A k, i, s : Holds(k, i, s)' =>
                 /\ Holds(k, Was(j, k, i), s)
                 /\ handlers'[k].todo[i] = handlers[k].todo[Was(j, k, i)]
                 /\ handlers'[k].config = handlers[k].config
                 /\ k = j /\ handlers'[j].todo # handlers[j].todo => Was(j, k, i) > 1
                 /\ i \in Nat
           /\ \A k, i, s : Holds(k, i, s) /\ (k # j \/ i # 1 \/ handlers'[j].todo = handlers[j].todo)
                 => \E l : Holds(k, l, s)'
           /\ \A i, s : Holds(j, i, s) /\ s # Server(j) => i # 1
<1>0. handlers \in Seq(Works) /\ \A k \in DOMAIN handlers : handlers[k] \in Works
  BY TypeFacts
<1>1. \A k \in DOMAIN handlers : handlers[k].todo \in Seq(Requests)
  BY <1>0 DEF Works
<1>2. PICK t \in Seq(Requests) : t = handlers[j].todo
  BY <1>1
<1>3. /\ Len(t) \in Nat \ {0}
      /\ DOMAIN t = 1 .. Len(t)
      /\ DOMAIN Tail(t) = 1 .. Len(t) - 1
      /\ \A i \in 1 .. Len(t) - 1 : Tail(t)[i] = t[i + 1]
      /\ Tail(t) # t
  BY <1>2, TailFacts
<1>4. /\ DOMAIN handlers' = DOMAIN handlers
      /\ \A k \in DOMAIN handlers \ {j} : handlers'[k] = handlers[k]
      /\ handlers'[j].config = handlers[j].config
      /\ handlers'[j].todo = t \/ handlers'[j].todo = Tail(t)
  BY <1>2 DEF Leaves
<1>5. ASSUME NEW k, NEW i, NEW s, Holds(k, i, s)'
      PROVE  /\ Holds(k, Was(j, k, i), s)
             /\ handlers'[k].todo[i] = handlers[k].todo[Was(j, k, i)]
             /\ handlers'[k].config = handlers[k].config
             /\ k = j /\ handlers'[j].todo # handlers[j].todo => Was(j, k, i) > 1
             /\ i \in Nat
  <2>1. /\ k \in DOMAIN handlers
        /\ i \in DOMAIN handlers'[k].todo
        /\ handlers'[k].todo[i].server = s
    BY <1>4, <1>5 DEF Holds
  <2>2. CASE k # j
    <3>1. handlers'[k] = handlers[k] /\ Was(j, k, i) = i
      BY <1>4, <2>1, <2>2 DEF Was
    <3>2. i \in Nat
      BY <1>1, <2>1, <3>1
    <3>3. QED
      BY <2>1, <2>2, <3>1, <3>2 DEF Holds
  <2>3. CASE k = j /\ handlers'[j].todo = t
    <3>1. Was(j, k, i) = i
      BY <1>2, <2>3 DEF Was
    <3>2. QED
      BY <1>2, <1>3, <1>4, <2>1, <2>3, <3>1 DEF Holds
  <2>4. CASE k = j /\ handlers'[j].todo = Tail(t)
    <3>1. Was(j, k, i) = i + 1
      BY <1>2, <1>3, <2>4 DEF Was
    <3>a. i \in DOMAIN Tail(t)
      BY <2>1, <2>4
    <3>b. PICK n \in Nat \ {0} : n = Len(t)
      BY <1>3
    <3>c. DOMAIN Tail(t) = 1 .. n - 1
      BY <1>3, <3>b
    <3>d. i \in 1 .. n - 1
      BY <3>a, <3>c
    <3>2. i \in 1 .. n - 1 /\ i + 1 \in 1 .. n /\ i + 1 > 1 /\ i \in Nat
      BY <3>b, <3>d
    <3>3. Tail(t)[i] = t[i + 1] /\ i + 1 \in DOMAIN t /\ i + 1 > 1 /\ i \in Nat
      BY <1>3, <3>b, <3>2
    <3>4. handlers'[k].todo[i] = handlers[k].todo[i + 1] /\ i + 1 \in DOMAIN handlers[k].todo
      BY <1>2, <2>4, <3>3
    <3>5. Holds(k, i + 1, s)
      BY <2>1, <3>4 DEF Holds
    <3>6. QED
      BY <1>4, <2>4, <3>1, <3>3, <3>4, <3>5
  <2>5. QED
    BY <1>4, <2>2, <2>3, <2>4
<1>6. ASSUME NEW k, NEW i, NEW s, Holds(k, i, s),
             k # j \/ i # 1 \/ handlers'[j].todo = handlers[j].todo
      PROVE  \E l : Holds(k, l, s)'
  <2>1. /\ k \in DOMAIN handlers
        /\ i \in DOMAIN handlers[k].todo
        /\ handlers[k].todo[i].server = s
    BY <1>6 DEF Holds
  <2>2. CASE k # j \/ handlers'[j].todo = t
    <3>1. handlers'[k].todo = handlers[k].todo
      BY <1>2, <1>4, <2>1, <2>2
    <3>2. Holds(k, i, s)'
      BY <1>4, <2>1, <3>1 DEF Holds
    <3>3. QED
      BY <3>2
  <2>3. CASE k = j /\ handlers'[j].todo = Tail(t) /\ i # 1
    <3>1. i \in 1 .. Len(t) /\ i - 1 \in 1 .. Len(t) - 1 /\ (i - 1) + 1 = i
      BY <1>2, <1>3, <2>1, <2>3
    <3>2. Tail(t)[i - 1] = t[i]
      BY <1>3, <3>1
    <3>3. Holds(k, i - 1, s)'
      BY <1>2, <1>3, <1>4, <2>1, <2>3, <3>1, <3>2 DEF Holds
    <3>4. QED
      BY <3>3
  <2>4. QED
    BY <1>2, <1>3, <1>4, <1>6, <2>2, <2>3
<1>7. ASSUME NEW i, NEW s, Holds(j, i, s), s # Server(j)
      PROVE  i # 1
  BY <1>7, HandlerFacts DEF Holds
<1>8. QED
  BY <1>5, <1>6, <1>7

(* A change is left exactly if it is held.                                 *)
LEMMA PendingHolds ==
    /\ \A s : Pending(s) <=> \E k, i : Holds(k, i, s)
    /\ \A s : Pending(s)' <=> \E k, i : Holds(k, i, s)'
BY DEF Pending, Holds

(* What a handler does for one server changes nothing for the others.      *)
LEMMA OthersFit ==
    ASSUME ReloadInv, NEW j \in DOMAIN handlers, handlers[j].todo # <<>>, Leaves(j),
           NEW s \in ServerNames \ {Server(j)}
    PROVE  ServerFits(s)' /\ EndFits(s)'
<1>1. ReloadTypes /\ ServerFits(s) /\ EndFits(s)
  BY DEF ReloadInv
<1>2. /\ config' = config /\ contested' = contested /\ missed' = missed
      /\ mcpServers'[s] = mcpServers[s]
      /\ outbound'[s] = outbound[s] \/ outbound'[s] = NoRoute
  BY DEF Leaves
<1>3. /\ mcpServers[s] \in 0 .. Len(made)
      /\ outbound[s].transport \in 0 .. Len(made)
      /\ DOMAIN made = 1 .. Len(made)
      /\ live \subseteq DOMAIN made
  BY <1>1, TypeFacts
<1>4. mcpServers[s] # Untracked => /\ mcpServers[s] \in DOMAIN made
                                   /\ made[mcpServers[s]].server = s
                                   /\ made'[mcpServers'[s]] = made[mcpServers[s]]
  BY <1>1, <1>2, <1>3 DEF ServerFits, TableFits, Untracked, Leaves
<1>5. mcpServers[s] # Untracked => (TransportFits(s)' <=> TransportFits(s))
  BY <1>2, <1>4 DEF TransportFits
<1>6. Pending(s)' <=> Pending(s)
  <2>1. ASSUME Pending(s)' PROVE Pending(s)
    BY <1>1, <2>1, ChangesLeft, PendingHolds
  <2>2. ASSUME Pending(s) PROVE Pending(s)'
    <3>1. PICK k, i : Holds(k, i, s)
      BY <2>2, PendingHolds
    <3>2. k # j \/ i # 1
      BY <1>1, <3>1, ChangesLeft
    <3>3. \E l : Holds(k, l, s)'
      BY <1>1, <3>1, <3>2, ChangesLeft
    <3>4. QED
      BY <3>3, PendingHolds
  <2>3. QED
    BY <2>1, <2>2
<1>7. ChangesFit(s)'
  <2> SUFFICES ASSUME s \notin contested
               PROVE  /\ \A k, m, i, l : Holds(k, i, s)' /\ Holds(m, l, s)' => k = m /\ i = l
                      /\ \A k, i : Holds(k, i, s)' => ChangeFits(k, i, s)'
    BY <1>2 DEF ChangesFit
  <2>1. /\ \A k, m, i, l : Holds(k, i, s) /\ Holds(m, l, s) => k = m /\ i = l
        /\ \A k, i : Holds(k, i, s) => ChangeFits(k, i, s)
    BY <1>1 DEF ServerFits, ChangesFit
  <2>2. ASSUME NEW k, NEW m, NEW i, NEW l, Holds(k, i, s)', Holds(m, l, s)'
        PROVE  k = m /\ i = l
    <3>1. Holds(k, Was(j, k, i), s) /\ Holds(m, Was(j, m, l), s) /\ i \in Nat /\ l \in Nat
      BY <1>1, <2>2, ChangesLeft
    <3>2. k = m /\ Was(j, k, i) = Was(j, m, l)
      BY <2>1, <3>1
    <3>3. QED
      BY <3>1, <3>2 DEF Was
  <2>3. ASSUME NEW k, NEW i, Holds(k, i, s)'
        PROVE  ChangeFits(k, i, s)'
    <3>0. PICK w : w = Was(j, k, i)
      OBVIOUS
    <3>1. /\ Holds(k, w, s)
          /\ handlers'[k].todo[i] = handlers[k].todo[w]
          /\ handlers'[k].config = handlers[k].config
          /\ i \in Nat
      BY <1>1, <2>3, <3>0, ChangesLeft
    <3>2. ChangeFits(k, w, s)
      BY <2>1, <3>1
    <3>3. ToBegin(k, i)' => ToBegin(k, w)
      <4>1. k \in DOMAIN handlers /\ w \in DOMAIN handlers[k].todo
        BY <3>1 DEF Holds
      <4>2. CASE k # j
        <5>1. handlers'[k] = handlers[k] /\ w = i
          BY <3>0, <4>1, <4>2 DEF Leaves, Was
        <5>2. QED
          BY <5>1 DEF ToBegin
      <4>3. CASE k = j
        <5>1. w # 1 /\ w \in Nat \ {0}
          <6>1. handlers[k] \in Works
            BY <1>1, <4>1, TypeFacts
          <6>2. handlers[k].todo \in Seq(Requests)
            BY <6>1 DEF Works
          <6>3. w \in Nat \ {0}
            BY <4>1, <6>2
          <6>4. QED
            BY <1>1, <3>1, <4>3, <6>3, ChangesLeft
        <5>2. QED
          BY <5>1 DEF ToBegin
      <4>4. QED
        BY <4>2, <4>3
    <3>4. QED
      BY <1>2, <1>4, <1>5, <3>1, <3>2, <3>3 DEF ChangeFits
  <2>4. QED
    BY <2>2, <2>3
<1>8. TableFits(s)'
  BY <1>1, <1>2, <1>4, <1>5, <1>6 DEF ServerFits, TableFits, Handled
<1>9. \A id \in live' : made'[id].server = s => id \in live /\ made[id].server = s /\ made'[id] = made[id]
  <2> SUFFICES ASSUME NEW id \in live', made'[id].server = s
               PROVE  id \in live /\ made[id].server = s /\ made'[id] = made[id]
    OBVIOUS
  <2>1. id \in live
    BY DEF Leaves
  <2>2. id \in DOMAIN made
    BY <1>3, <2>1
  <2>3. QED
    BY <2>1, <2>2 DEF Leaves
<1>10. outbound[s] # NoRoute => made'[outbound[s].transport] = made[outbound[s].transport]
  <2> SUFFICES ASSUME outbound[s] # NoRoute
               PROVE  made'[outbound[s].transport] = made[outbound[s].transport]
    OBVIOUS
  <2>1. outbound[s].transport # 0 /\ made[outbound[s].transport].server = s
    BY <1>1 DEF ServerFits, RouteFits
  <2>2. outbound[s].transport \in DOMAIN made
    BY <1>3, <2>1
  <2>3. QED
    BY <2>1, <2>2 DEF Leaves
<1>11. RouteFits(s)'
  BY <1>1, <1>2, <1>9, <1>10 DEF ServerFits, RouteFits
<1>12. EndFits(s)'
  <2> SUFFICES ASSUME s \notin contested,
                      \A id \in DOMAIN made' : made'[id].server = s => made'[id].by = "start",
                      outbound'[s].status = "disconnected", outbound'[s].transport \in live'
               PROVE  FALSE
    BY <1>2 DEF EndFits
  <2>1. outbound'[s] = outbound[s]
    BY <1>2 DEF NoRoute
  <2>2. \A id \in DOMAIN made : made[id].server = s => made[id].by = "start"
    BY DEF Leaves
  <2>3. outbound[s].transport \notin live
    BY <1>1, <2>1, <2>2 DEF EndFits
  <2>4. outbound[s] # NoRoute
    BY <2>1 DEF NoRoute
  <2>5. made'[outbound[s].transport].server = s
    BY <1>1, <1>10, <2>4 DEF ServerFits, RouteFits
  <2>6. QED
    BY <1>9, <2>1, <2>3, <2>5
<1>13. QED
  BY <1>7, <1>8, <1>11, <1>12 DEF ServerFits

(* ... nor for the other handlers: where one of them is at work for the    *)
(* same server, the server is contested.                                   *)
LEMMA OthersAwait ==
    ASSUME ReloadInv, NEW j \in DOMAIN handlers, handlers[j].todo # <<>>, Leaves(j),
           NEW k \in DOMAIN handlers \ {j}, handlers[k].todo # <<>>
    PROVE  AwaitFits(k)'
<1>1. ReloadTypes /\ k \in Busy /\ AwaitFits(k)
  BY HandlerFacts DEF ReloadInv
<1>2. PICK s : s = Server(k)
  OBVIOUS
<1>3. /\ s \in ServerNames /\ Holds(k, 1, s) /\ Holds(j, 1, Server(j))
  BY <1>1, <1>2, HandlerFacts DEF Holds
<1>4. handlers'[k] = handlers[k] /\ contested' = contested /\ config' = config
  BY DEF Leaves
<1>5. Server(k)' = s /\ (Decision(k)' = Decision(k))
  BY <1>2, <1>4 DEF Server, Decision, InNewConfig, Wanted
<1>6. PICK id : id = handlers[k].transport
  OBVIOUS
<1> SUFFICES ASSUME handlers[k].at # "next"
             PROVE  /\ made'[id].server = s /\ made'[id].by = "start"
                    /\ s \notin contested =>
                          /\ id = mcpServers'[s]
                          /\ handlers[k].at = "closing" =>
                                /\ Decision(k) \in {"stop", "restart"}
                                /\ outbound'[s] # NoRoute => made'[outbound'[s].transport].by # "start"
                          /\ handlers[k].at = "connecting" => TransportFits(s)'
  BY <1>4, <1>5, <1>6 DEF AwaitFits
<1>7. /\ made[id].server = s /\ made[id].by = "start"
      /\ s \notin contested =>
            /\ id = mcpServers[s]
            /\ handlers[k].at = "closing" =>
                  /\ Decision(k) \in {"stop", "restart"}
                  /\ outbound[s] # NoRoute => made[outbound[s].transport].by # "start"
            /\ handlers[k].at = "connecting" => TransportFits(s)
  BY <1>1, <1>2, <1>6 DEF AwaitFits
<1>8. id \in DOMAIN made
  BY <1>1, <1>6, TypeFacts DEF ReloadTypes, AwaitsOne
<1>9. made'[id].server = s /\ made'[id].by = "start"
  BY <1>7, <1>8 DEF Leaves
<1>10. ASSUME s \notin contested
       PROVE  /\ id = mcpServers'[s]
              /\ handlers[k].at = "closing" =>
                    /\ Decision(k) \in {"stop", "restart"}
                    /\ outbound'[s] # NoRoute => made'[outbound'[s].transport].by # "start"
              /\ handlers[k].at = "connecting" => TransportFits(s)'
  <2>1. ServerFits(s)
    BY <1>3 DEF ReloadInv
  <2>2. s # Server(j)
    BY <1>3, <1>10, <2>1 DEF ServerFits, ChangesFit
  <2>3. mcpServers'[s] = mcpServers[s] /\ (outbound'[s] = outbound[s] \/ outbound'[s] = NoRoute)
    BY <1>3, <2>2 DEF Leaves
  <2>4. made'[id] = made[id]
    BY <1>7, <1>8, <2>2 DEF Leaves
  <2>5. TransportFits(s)' <=> TransportFits(s)
    BY <1>4, <1>7, <1>10, <2>3, <2>4 DEF TransportFits
  <2>6. outbound[s] # NoRoute => made'[outbound[s].transport].by = made[outbound[s].transport].by
    <3>1. outbound[s] # NoRoute => outbound[s].transport \in DOMAIN made
      BY <1>1, <1>3, <2>1, TypeFacts DEF ServerFits, RouteFits
    <3>2. QED
      BY <3>1 DEF Leaves
  <2>7. QED
    BY <1>7, <1>10, <2>3, <2>5, <2>6
<1>11. QED
  BY <1>9, <1>10

(* A step of a handler keeps the invariant if it does for its own server:  *)
(* done with the change, the server is as the file has it; or it is in the *)
(* middle of it, and what it awaits fits.                                  *)
LEMMA HandlerKeeps ==
    ASSUME ReloadInv, ReloadTypes', NEW j \in DOMAIN handlers, handlers[j].todo # <<>>, Leaves(j),
           NEW u \in ServerNames, u = Server(j),
           RouteFits(u)', EndFits(u)',
           mcpServers'[u] # Untracked =>
              /\ made'[mcpServers'[u]].server = u
              /\ made'[mcpServers'[u]].by = "start",
           \/ /\ handlers'[j].todo = Tail(handlers[j].todo) /\ handlers'[j].at = "next"
              /\ u \notin contested /\ u \notin missed /\ mcpServers'[u] # Untracked
                    => TransportFits(u)'
           \/ handlers'[j].todo = handlers[j].todo /\ handlers'[j].at # "next" /\ AwaitFits(j)'
    PROVE  ReloadInv'
<1>0. ReloadTypes
  BY DEF ReloadInv
<1>2. Holds(j, 1, u) /\ ServerFits(u)
  BY <1>0, HandlerFacts DEF Holds, ReloadInv
<1>3. config' = config /\ contested' = contested /\ missed' = missed /\ rejoining' = rejoining
  BY DEF Leaves
<1>4. u \notin contested => \A k, i : Holds(k, i, u) => k = j /\ i = 1
  BY <1>2 DEF ServerFits, ChangesFit
<1>5. handlers[j].todo # Tail(handlers[j].todo)
  <2>1. handlers[j].todo \in Seq(Requests)
    BY <1>0, HandlerFacts
  <2>2. QED
    BY <2>1, TailFacts
<1>6. ASSUME handlers'[j].todo = Tail(handlers[j].todo), handlers'[j].at = "next",
             u \notin contested /\ u \notin missed /\ mcpServers'[u] # Untracked
                => TransportFits(u)'
      PROVE  ChangesFit(u)' /\ TableFits(u)' /\ AwaitFits(j)'
  <2>1. u \notin contested => \A k, i : ~Holds(k, i, u)'
    <3> SUFFICES ASSUME u \notin contested, NEW k, NEW i, Holds(k, i, u)' PROVE FALSE
      OBVIOUS
    <3>1. Holds(k, Was(j, k, i), u)
      BY <1>0, ChangesLeft
    <3>2. k = j /\ Was(j, k, i) = 1
      BY <1>4, <3>1
    <3>3. Was(j, k, i) > 1
      BY <1>0, <1>5, <1>6, <3>2, ChangesLeft
    <3>4. QED
      BY <3>2, <3>3
  <2>2. ChangesFit(u)'
    BY <1>3, <2>1 DEF ChangesFit
  <2>3. TableFits(u)'
    <3>1. config[u].mode = "absent" => u \notin missed
      BY <1>2 DEF ServerFits, TableFits
    <3>2. QED
      BY <1>3, <1>6, <3>1 DEF TableFits, Handled
  <2>4. AwaitFits(j)'
    BY <1>6 DEF AwaitFits
  <2>5. QED
    BY <2>2, <2>3, <2>4
<1>7. ASSUME handlers'[j].todo = handlers[j].todo, handlers'[j].at # "next", AwaitFits(j)'
      PROVE  ChangesFit(u)' /\ TableFits(u)' /\ AwaitFits(j)'
  <2>1. \A k, i : Holds(k, i, u)' => Holds(k, i, u) /\ handlers'[k].todo[i] = handlers[k].todo[i]
                                     /\ handlers'[k].config = handlers[k].config
    BY <1>0, <1>7, ChangesLeft DEF Was
  <2>2. ChangesFit(u)'
    <3> SUFFICES ASSUME u \notin contested
                 PROVE  /\ \A k, m, i, l : Holds(k, i, u)' /\ Holds(m, l, u)' => k = m /\ i = l
                        /\ \A k, i : Holds(k, i, u)' => ChangeFits(k, i, u)'
      BY <1>3 DEF ChangesFit
    <3>1. ASSUME NEW k, NEW i, Holds(k, i, u)' PROVE ChangeFits(k, i, u)'
      <4>1. k = j /\ i = 1
        BY <1>4, <2>1, <3>1
      <4>2. ChangeFits(j, 1, u)
        BY <1>2 DEF ServerFits, ChangesFit
      <4>3. ~ToBegin(j, 1)'
        BY <1>7 DEF ToBegin
      <4>4. QED
        BY <1>3, <2>1, <3>1, <4>1, <4>2, <4>3 DEF ChangeFits
    <3>2. QED
      BY <1>4, <2>1, <3>1
  <2>3. Pending(u)'
    BY <1>0, <1>2, <1>7, ChangesLeft, PendingHolds
  <2>4. TableFits(u)'
    <3>1. config[u].mode = "absent" => u \notin missed
      BY <1>2 DEF ServerFits, TableFits
    <3>2. QED
      BY <1>3, <2>3, <3>1 DEF TableFits, Handled
  <2>5. QED
    BY <1>7, <2>2, <2>4
<1>8. ChangesFit(u)' /\ TableFits(u)' /\ AwaitFits(j)'
  BY <1>6, <1>7
<1>9. ASSUME NEW s \in ServerNames PROVE ServerFits(s)' /\ EndFits(s)'
  BY <1>8, OthersFit DEF ServerFits
<1>10. ASSUME NEW k \in Busy' PROVE AwaitFits(k)'
  <2>1. CASE k = j
    BY <1>8, <2>1
  <2>2. CASE k # j
    <3>1. k \in DOMAIN handlers \ {j} /\ handlers[k].todo # <<>>
      BY <2>2 DEF Busy, Leaves
    <3>2. QED
      BY <3>1, OthersAwait
  <2>3. QED
    BY <2>1, <2>2
<1>11. \A id \in rejoining' : made'[id].by = "other"
  BY <1>0, <1>3, TypeFacts DEF ReloadInv, Leaves
<1>12. QED
  BY <1>9, <1>10, <1>11 DEF ReloadInv

(* What becomes of the handlers when j is done with a change, or waits.    *)
LEMMA AdvanceLeaves ==
    ASSUME ReloadTypes, NEW j \in DOMAIN handlers, handlers[j].todo # <<>>, Advance(j)
    PROVE  /\ UNCHANGED <<config, contested, missed>>
           /\ DOMAIN handlers' = DOMAIN handlers
           /\ \A k \in DOMAIN handlers \ {j} : handlers'[k] = handlers[k]
           /\ handlers'[j].config = handlers[j].config
           /\ handlers'[j].todo = Tail(handlers[j].todo) /\ handlers'[j].at = "next"
<1>1. handlers' = Advanced(handlers, j) /\ UNCHANGED <<config, contested, missed>>
  BY DEF Advance, Advanced
<1>2. handlers \in Seq(Works)
  BY TypeFacts
<1>3. QED
  BY <1>1, <1>2, AdvancedFacts

(* A handler that goes on to wait keeps its changes and its configuration.  *)
LEMMA AwaitLeaves ==
    ASSUME ReloadTypes, NEW j \in DOMAIN handlers, handlers[j].todo # <<>>,
           NEW place \in {"closing", "connecting"}, NEW id \in Nat,
           handlers' = Waiting(handlers, j, place, id)
    PROVE  /\ DOMAIN handlers' = DOMAIN handlers
           /\ \A k \in DOMAIN handlers \ {j} : handlers'[k] = handlers[k]
           /\ handlers'[j].config = handlers[j].config
           /\ handlers'[j].todo = handlers[j].todo
           /\ handlers'[j].at = place
           /\ handlers'[j].transport = id
           /\ Server(j)' = Server(j)
           /\ Decision(j)' = Decision(j)
<1>1. handlers \in Seq(Works)
  BY TypeFacts
<1>2. /\ DOMAIN handlers' = DOMAIN handlers
      /\ \A k \in DOMAIN handlers \ {j} : handlers'[k] = handlers[k]
      /\ handlers'[j].config = handlers[j].config
      /\ handlers'[j].todo = handlers[j].todo
      /\ handlers'[j].at = place
      /\ handlers'[j].transport = id
  BY <1>1, WaitingFacts
<1>3. Server(j)' = Server(j) /\ Decision(j)' = Decision(j)
  BY <1>2 DEF Server, Decision, InNewConfig, Wanted
<1>4. QED
  BY <1>2, <1>3

(* What the invariant says of the handler of a step and of its server.     *)
LEMMA OwnFacts ==
    ASSUME ReloadInv, NEW j \in DOMAIN handlers, handlers[j].todo # <<>>
    PROVE  \E u \in ServerNames :
              /\ u = Server(j)
              /\ TableFits(u) /\ RouteFits(u) /\ EndFits(u) /\ AwaitFits(j)
              /\ u \notin contested => Wanted(j) = config[u]
              /\ u \notin contested /\ u \notin missed /\ mcpServers[u] # Untracked
                 /\ handlers[j].at = "next" =>
                    /\ Decision(j) # "throws"
                    /\ Decision(j) = "start" => TransportFits(u)
                    /\ Decision(j) = "metadata" => /\ config[u].mode = "enabled"
                                                   /\ made[mcpServers[u]].rev = config[u].rev
              /\ mcpServers[u] # Untracked => mcpServers[u] \in DOMAIN made
              /\ mcpServers[u] \in 0 .. Len(made)
              /\ outbound[u] # NoRoute => outbound[u].transport \in DOMAIN made
              /\ handlers[j].at # "next" => handlers[j].transport \in DOMAIN made
<1>1. ReloadTypes
  BY DEF ReloadInv
<1>2. PICK u \in ServerNames : u = Server(j)
  BY <1>1, HandlerFacts
<1>3. ServerFits(u) /\ EndFits(u) /\ AwaitFits(j)
  BY <1>1, HandlerFacts DEF ReloadInv
<1>4. PICK change \in Requests : change = handlers[j].todo[1]
  BY <1>1, HandlerFacts
<1>5. /\ change.type \in {"added", "removed", "modified"}
      /\ change.fields \in {"functional", "disabled", "tags"}
  BY <1>4 DEF Requests
<1>6. Holds(j, 1, u) /\ Head(handlers[j].todo) = change /\ Wanted(j) = handlers[j].config[u]
  BY <1>1, <1>2, <1>4, HandlerFacts DEF Holds
<1>7. Decision(j) =
        IF change.type = "added" THEN "start"
        ELSE IF change.type = "removed" THEN "stop"
        ELSE IF handlers[j].config[u].mode # "enabled" THEN "throws"
        ELSE CASE change.fields = "disabled"   -> "start"
               [] change.fields = "functional" -> "restart"
               [] OTHER                        -> "metadata"
  BY <1>6 DEF Decision, InNewConfig
<1>8. u \notin contested => ChangeFits(j, 1, u)
  BY <1>3, <1>6 DEF ServerFits, ChangesFit
<1>9. u \notin contested => Wanted(j) = config[u]
  BY <1>6, <1>8 DEF ChangeFits
<1>10. ASSUME u \notin contested, u \notin missed, mcpServers[u] # Untracked,
              handlers[j].at = "next"
       PROVE  /\ Decision(j) # "throws"
              /\ Decision(j) = "start" => TransportFits(u)
              /\ Decision(j) = "metadata" => /\ config[u].mode = "enabled"
                                             /\ made[mcpServers[u]].rev = config[u].rev
  <2>1. /\ handlers[j].config[u] = config[u]
        /\ change.type = "modified" /\ change.fields # "disabled" => config[u].mode = "enabled"
        /\ change.type # "added"
        /\ change.type = "modified" /\ change.fields = "disabled" => TransportFits(u)
        /\ change.type = "modified" /\ change.fields = "tags" =>
              made[mcpServers[u]].rev = config[u].rev
    BY <1>4, <1>8, <1>10 DEF ChangeFits, ToBegin
  <2>2. TransportFits(u) => config[u].mode = "enabled"
    BY DEF TransportFits
  <2>3. CASE change.type = "removed"
    BY <1>7, <2>1, <2>3
  <2>4. CASE change.type = "modified" /\ change.fields = "disabled"
    BY <1>7, <2>1, <2>2, <2>4
  <2>5. CASE change.type = "modified" /\ change.fields = "functional"
    BY <1>7, <2>1, <2>5
  <2>6. CASE change.type = "modified" /\ change.fields = "tags"
    BY <1>7, <2>1, <2>6
  <2>7. QED
    BY <1>5, <2>1, <2>3, <2>4, <2>5, <2>6
<1>11. /\ mcpServers[u] # Untracked => mcpServers[u] \in DOMAIN made
       /\ mcpServers[u] \in 0 .. Len(made)
       /\ outbound[u] # NoRoute => outbound[u].transport \in DOMAIN made
       /\ handlers[j].at # "next" => handlers[j].transport \in DOMAIN made
  BY <1>1, <1>3, TypeFacts DEF ServerFits, RouteFits, Untracked, ReloadTypes, AwaitsOne
<1>12. QED
  BY <1>2, <1>3, <1>9, <1>10, <1>11 DEF ServerFits

(* A change nothing comes of.                                              *)
LEMMA SkipFits ==
    ASSUME ReloadInv, ReloadTypes', NEW j \in DOMAIN handlers, HandleSkip(j)
    PROVE  ReloadInv'
<1>1. handlers[j].todo # <<>> /\ handlers[j].at = "next" /\ Advance(j) /\ ReloadTypes
      /\ UNCHANGED <<made, live, mcpServers, outbound, rejoining>>
  BY DEF HandleSkip, At, ReloadInv
<1>2. PICK u \in ServerNames :
        /\ u = Server(j)
        /\ TableFits(u) /\ RouteFits(u) /\ EndFits(u)
        /\ u \notin contested /\ u \notin missed /\ mcpServers[u] # Untracked =>
              /\ Decision(j) # "throws"
              /\ Decision(j) = "start" => TransportFits(u)
        /\ u \notin contested => Wanted(j) = config[u]
  BY <1>1, OwnFacts
<1>3. /\ UNCHANGED <<config, contested, missed>>
      /\ DOMAIN handlers' = DOMAIN handlers
      /\ \A k \in DOMAIN handlers \ {j} : handlers'[k] = handlers[k]
      /\ handlers'[j].config = handlers[j].config
      /\ handlers'[j].todo = Tail(handlers[j].todo) /\ handlers'[j].at = "next"
  BY <1>1, AdvanceLeaves
<1>4. Leaves(j)
  BY <1>1, <1>3 DEF Leaves
<1>5. RouteFits(u)' /\ EndFits(u)'
  BY <1>1, <1>2, <1>3 DEF RouteFits, EndFits
<1>6. mcpServers'[u] # Untracked => /\ made'[mcpServers'[u]].server = u
                                    /\ made'[mcpServers'[u]].by = "start"
  BY <1>1, <1>2 DEF TableFits
<1>7. ASSUME u \notin contested, u \notin missed, mcpServers'[u] # Untracked
      PROVE  TransportFits(u)'
  <2>1. Decision(j) = "start"
    BY <1>1, <1>2, <1>7 DEF HandleSkip
  <2>2. TransportFits(u)
    BY <1>1, <1>2, <1>7, <2>1
  <2>3. QED
    BY <1>1, <1>3, <2>2 DEF TransportFits
<1>8. QED
  BY <1>1, <1>2, <1>3, <1>4, <1>5, <1>6, <1>7, HandlerKeeps

(* Tags that are updated: those of the server's own transports.            *)
LEMMA MetadataFits ==
    ASSUME ReloadInv, ReloadTypes', NEW j \in DOMAIN handlers, HandleMetadata(j)
    PROVE  ReloadInv'
<1>1. handlers[j].todo # <<>> /\ handlers[j].at = "next" /\ Advance(j) /\ ReloadTypes
      /\ Decision(j) = "metadata"
      /\ UNCHANGED <<live, mcpServers, outbound, rejoining>>
  BY DEF HandleMetadata, At, ReloadInv
<1>2. PICK u \in ServerNames :
        /\ u = Server(j)
        /\ TableFits(u) /\ RouteFits(u) /\ EndFits(u)
        /\ u \notin contested /\ u \notin missed /\ mcpServers[u] # Untracked =>
              /\ config[u].mode = "enabled"
              /\ made[mcpServers[u]].rev = config[u].rev
        /\ u \notin contested => Wanted(j) = config[u]
        /\ mcpServers[u] # Untracked => mcpServers[u] \in DOMAIN made
        /\ outbound[u] # NoRoute => outbound[u].transport \in DOMAIN made
  BY <1>1, OwnFacts
<1>3. /\ UNCHANGED <<config, contested, missed>>
      /\ DOMAIN handlers' = DOMAIN handlers
      /\ \A k \in DOMAIN handlers \ {j} : handlers'[k] = handlers[k]
      /\ handlers'[j].config = handlers[j].config
      /\ handlers'[j].todo = Tail(handlers[j].todo) /\ handlers'[j].at = "next"
  BY <1>1, AdvanceLeaves
<1>4. PICK ids : ids = {mcpServers[u], outbound[u].transport}
  OBVIOUS
<1>5. PICK tags \in Nat : tags = Wanted(j).tags
  BY <1>1, HandlerFacts DEF PageEntries
<1>6. made' = Retagged(made, ids, tags)
  BY <1>2, <1>4, <1>5 DEF HandleMetadata, Retagged
<1>7. /\ DOMAIN made' = DOMAIN made
      /\ \A i \in DOMAIN made : /\ made'[i].server = made[i].server
                                /\ made'[i].by = made[i].by
                                /\ made'[i].rev = made[i].rev
                                /\ made'[i].tags = IF i \in ids THEN tags ELSE made[i].tags
                                /\ i \notin ids => made'[i] = made[i]
  <2>1. made \in Seq(Transports)
    BY <1>1, TypeFacts
  <2>2. \A i \in DOMAIN made : i \notin ids => Retagged(made, ids, tags)[i] = made[i]
    BY DEF Retagged
  <2>3. QED
    BY <1>6, <2>1, <2>2, RetaggedFacts
<1>8. \A i \in DOMAIN made : i \in ids => made[i].server = u
  <2> SUFFICES ASSUME NEW i \in DOMAIN made, i \in ids PROVE made[i].server = u
    OBVIOUS
  <2>1. i # 0
    BY <1>1, TypeFacts
  <2>2. CASE i = mcpServers[u]
    BY <1>2, <2>1, <2>2 DEF TableFits, Untracked
  <2>3. CASE i = outbound[u].transport
    <3>1. outbound[u] # NoRoute
      BY <2>1, <2>3 DEF NoRoute
    <3>2. QED
      BY <1>2, <2>3, <3>1 DEF RouteFits
  <2>4. QED
    BY <1>4, <2>2, <2>3
<1>9. Leaves(j)
  BY <1>1, <1>2, <1>3, <1>7, <1>8 DEF Leaves
<1>10. \A id \in live : id \in DOMAIN made
  BY <1>1, TypeFacts
<1>11. RouteFits(u)'
  BY <1>1, <1>2, <1>3, <1>7, <1>10 DEF RouteFits
<1>12. EndFits(u)'
  BY <1>1, <1>2, <1>3, <1>7 DEF EndFits
<1>13. mcpServers'[u] # Untracked => /\ made'[mcpServers'[u]].server = u
                                     /\ made'[mcpServers'[u]].by = "start"
  BY <1>1, <1>2, <1>7 DEF TableFits
<1>14. ASSUME u \notin contested, u \notin missed, mcpServers'[u] # Untracked
       PROVE  TransportFits(u)'
  BY <1>1, <1>2, <1>3, <1>4, <1>5, <1>7, <1>14 DEF TransportFits
<1>15. QED
  BY <1>1, <1>2, <1>3, <1>9, <1>11, <1>12, <1>13, <1>14, HandlerKeeps

(* A server that leaves the table, with no transport of its handlers left  *)
(* in the map or connected.                                                *)
LEMMA GoneKeeps ==
    ASSUME ReloadInv, ReloadTypes', NEW j \in DOMAIN handlers, handlers[j].todo # <<>>, Advance(j),
           NEW u \in ServerNames, u = Server(j),
           mcpServers' = [mcpServers EXCEPT ![Server(j)] = Untracked],
           made' = made, rejoining' = rejoining, live' \subseteq live,
           \A s \in ServerNames \ {u} : outbound'[s] = outbound[s],
           outbound'[u].transport = outbound[u].transport,
           outbound[u] = NoRoute => outbound'[u] = NoRoute,
           u \notin contested =>
              /\ outbound[u] # NoRoute => made[outbound[u].transport].by # "start"
              /\ \A id \in live' : ~(made[id].server = u /\ made[id].by = "start")
    PROVE  ReloadInv'
<1>1. ReloadTypes
  BY DEF ReloadInv
<1>2. TableFits(u) /\ RouteFits(u) /\ EndFits(u)
      /\ (outbound[u] # NoRoute => outbound[u].transport \in DOMAIN made)
  BY OwnFacts
<1>3. /\ UNCHANGED <<config, contested, missed>>
      /\ DOMAIN handlers' = DOMAIN handlers
      /\ \A k \in DOMAIN handlers \ {j} : handlers'[k] = handlers[k]
      /\ handlers'[j].config = handlers[j].config
      /\ handlers'[j].todo = Tail(handlers[j].todo) /\ handlers'[j].at = "next"
  BY <1>1, AdvanceLeaves
<1>4. mcpServers'[u] = Untracked /\ \A s \in ServerNames \ {u} : mcpServers'[s] = mcpServers[s]
  BY <1>1, TypeFacts
<1>5. Leaves(j)
  BY <1>3, <1>4 DEF Leaves
<1>6. RouteFits(u)'
  BY <1>2, <1>3, <1>4 DEF RouteFits
<1>7. EndFits(u)'
  <2> SUFFICES ASSUME u \notin contested,
                      \A id \in DOMAIN made : made[id].server = u => made[id].by = "start",
                      outbound'[u].status = "disconnected"
               PROVE  FALSE
    BY <1>3 DEF EndFits
  <2>1. outbound[u] # NoRoute
    BY DEF NoRoute
  <2>2. QED
    BY <1>2, <2>1 DEF RouteFits
<1>8. QED
  BY <1>3, <1>4, <1>5, <1>6, <1>7, HandlerKeeps

(* A server that enters the table with a new transport.                    *)
LEMMA StartKeeps ==
    ASSUME ReloadInv, ReloadTypes', NEW j \in DOMAIN handlers, handlers[j].todo # <<>>, Start(j),
           InNewConfig(j), NEW u \in ServerNames, u = Server(j),
           live' \subseteq live, rejoining' = rejoining,
           u \notin contested =>
              \A id \in live' : ~(made[id].server = u /\ made[id].by = "start")
    PROVE  ReloadInv'
<1>1. ReloadTypes
  BY DEF ReloadInv
<1>2. PICK t \in Transports : t = TransportOf(Server(j), Wanted(j), "start")
  BY <1>1, HandlerFacts
<1>3. t.server = u /\ t.by = "start" /\ t.rev = Wanted(j).rev /\ t.tags = Wanted(j).tags
  BY <1>1, <1>2, HandlerFacts
<1>4. PICK id \in Nat : id = Len(made) + 1
  BY <1>1, TypeFacts
<1>5. /\ handlers' = Waiting(handlers, j, "connecting", id)
      /\ made' = Append(made, t)
      /\ mcpServers' = [mcpServers EXCEPT ![u] = id]
      /\ outbound' = [s \in ServerNames |-> NoRoute]
      /\ UNCHANGED <<config, contested, missed>>
  BY <1>1, <1>2, <1>4, StartTypes
<1>6. /\ DOMAIN handlers' = DOMAIN handlers
      /\ \A k \in DOMAIN handlers \ {j} : handlers'[k] = handlers[k]
      /\ handlers'[j].config = handlers[j].config
      /\ handlers'[j].todo = handlers[j].todo
      /\ handlers'[j].at = "connecting"
      /\ handlers'[j].transport = id
      /\ Server(j)' = u
  BY <1>1, <1>5, AwaitLeaves
<1>7. /\ DOMAIN made' = DOMAIN made \cup {id} /\ id \notin DOMAIN made
      /\ made'[id] = t
      /\ \A i \in DOMAIN made : made'[i] = made[i]
  BY <1>1, <1>4, <1>5, MadeFacts, TypeFacts
<1>8. /\ mcpServers'[u] = id
      /\ \A s \in ServerNames \ {u} : mcpServers'[s] = mcpServers[s]
      /\ \A s \in ServerNames : outbound'[s] = NoRoute
  BY <1>1, <1>5, TypeFacts
<1>9. Leaves(j)
  BY <1>3, <1>5, <1>6, <1>7, <1>8 DEF Leaves
<1>10. RouteFits(u)'
  <2>1. \A i \in live' : i \in DOMAIN made
    BY <1>1, TypeFacts
  <2>2. QED
    BY <1>5, <1>7, <1>8, <2>1 DEF RouteFits
<1>11. EndFits(u)'
  BY <1>8 DEF EndFits, NoRoute
<1>12. AwaitFits(j)'
  <2>1. u \notin contested => TransportFits(u)'
    <3>1. u \notin contested => Wanted(j) = config[u]
      BY OwnFacts
    <3>2. Wanted(j).mode = "enabled"
      BY DEF InNewConfig
    <3>3. QED
      BY <1>3, <1>5, <1>7, <1>8, <3>1, <3>2 DEF TransportFits
  <2>2. QED
    BY <1>3, <1>5, <1>6, <1>7, <1>8, <2>1 DEF AwaitFits
<1>13. QED
  BY <1>3, <1>6, <1>7, <1>8, <1>9, <1>10, <1>11, <1>12, HandlerKeeps

(* A start, and the first half of a stop.                                  *)
LEMMA HandleStartFits ==
    ASSUME ReloadInv, ReloadTypes', NEW j \in DOMAIN handlers, HandleStart(j)
    PROVE  ReloadInv'
<1>1. /\ handlers[j].todo # <<>> /\ handlers[j].at = "next" /\ ReloadTypes
      /\ InNewConfig(j) /\ mcpServers[Server(j)] = Untracked
      /\ Start(j) \/ StartFails(j, outbound)
      /\ UNCHANGED <<live, rejoining>>
  BY DEF HandleStart, At, ReloadInv
<1>2. PICK u \in ServerNames : u = Server(j) /\ RouteFits(u)
  BY <1>1, OwnFacts
<1>3. live \subseteq DOMAIN made /\ 0 \notin DOMAIN made
  BY <1>1, TypeFacts
<1>4. u \notin contested =>
         /\ outbound[u] # NoRoute => made[outbound[u].transport].by # "start"
         /\ \A id \in live' : ~(made[id].server = u /\ made[id].by = "start")
  BY <1>1, <1>2, <1>3 DEF RouteFits, Untracked
<1>5. CASE Start(j)
  BY <1>1, <1>2, <1>4, <1>5, StartKeeps
<1>6. CASE StartFails(j, outbound)
  <2>1. /\ mcpServers' = [mcpServers EXCEPT ![Server(j)] = Untracked]
        /\ outbound' = outbound /\ Advance(j) /\ made' = made
    BY <1>6 DEF StartFails
  <2>2. QED
    BY <1>1, <1>2, <1>4, <2>1, GoneKeeps
<1>7. QED
  BY <1>1, <1>5, <1>6

(* A stop that begins takes the route of its server only.                  *)
LEMMA HandleStopFits ==
    ASSUME ReloadInv, ReloadTypes', NEW j \in DOMAIN handlers, HandleStop(j)
    PROVE  ReloadInv'
<1>1. /\ handlers[j].todo # <<>> /\ ReloadTypes
      /\ Decision(j) \in {"stop", "restart"} /\ mcpServers[Server(j)] # Untracked
      /\ outbound' = [outbound EXCEPT ![Server(j)] = NoRoute]
      /\ UNCHANGED <<made, live, mcpServers, rejoining, config, contested, missed>>
  BY DEF HandleStop, At, Await, ReloadInv
<1>2. PICK u \in ServerNames :
        /\ u = Server(j)
        /\ TableFits(u) /\ RouteFits(u)
        /\ mcpServers[u] \in DOMAIN made
  BY <1>1, OwnFacts
<1>3. PICK id \in Nat : id = mcpServers[u]
  BY <1>1, <1>2, TypeFacts
<1>4. handlers' = Waiting(handlers, j, "closing", id)
  BY <1>2, <1>3 DEF HandleStop, Await, Waiting
<1>5. /\ DOMAIN handlers' = DOMAIN handlers
      /\ \A k \in DOMAIN handlers \ {j} : handlers'[k] = handlers[k]
      /\ handlers'[j].config = handlers[j].config
      /\ handlers'[j].todo = handlers[j].todo
      /\ handlers'[j].at = "closing"
      /\ handlers'[j].transport = id
      /\ Server(j)' = u
      /\ Decision(j)' = Decision(j)
  BY <1>1, <1>2, <1>4, AwaitLeaves
<1>6. outbound'[u] = NoRoute /\ \A s \in ServerNames \ {u} : outbound'[s] = outbound[s]
  BY <1>1, <1>2, TypeFacts
<1>7. Leaves(j)
  BY <1>1, <1>2, <1>5, <1>6 DEF Leaves
<1>8. RouteFits(u)' /\ EndFits(u)'
  BY <1>1, <1>2, <1>6 DEF RouteFits, EndFits, NoRoute
<1>9. made[id].server = u /\ made[id].by = "start"
  BY <1>1, <1>2, <1>3 DEF TableFits
<1>10. AwaitFits(j)'
  BY <1>1, <1>2, <1>3, <1>5, <1>6, <1>9 DEF AwaitFits
<1>11. QED
  BY <1>1, <1>2, <1>3, <1>5, <1>7, <1>8, <1>9, <1>10, HandlerKeeps

(* The other half of a stop: what was closed was the only transport of the *)
(* server a handler made.                                                  *)
LEMMA FinishStopFits ==
    ASSUME ReloadInv, ReloadTypes', NEW j \in DOMAIN handlers, FinishStop(j)
    PROVE  ReloadInv'
<1>0. PICK id : id = handlers[j].transport
  OBVIOUS
<1>1. /\ handlers[j].todo # <<>> /\ handlers[j].at = "closing" /\ ReloadTypes
      /\ live' = live \ {id} /\ rejoining' = rejoining
      /\ \/ /\ Decision(j) = "stop"
            /\ mcpServers' = [mcpServers EXCEPT ![Server(j)] = Untracked]
            /\ outbound' = Marked(id)
            /\ Advance(j)
            /\ made' = made
         \/ /\ Decision(j) = "restart"
            /\ Start(j) \/ StartFails(j, Marked(id))
  BY <1>0 DEF FinishStop, At, ReloadInv
<1>2. PICK u \in ServerNames :
        /\ u = Server(j)
        /\ RouteFits(u) /\ AwaitFits(j)
        /\ handlers[j].transport \in DOMAIN made
  BY <1>1, OwnFacts
<1>3. /\ made[id].server = u
      /\ u \notin contested =>
            /\ id = mcpServers[u]
            /\ outbound[u] # NoRoute => made[outbound[u].transport].by # "start"
  BY <1>0, <1>1, <1>2 DEF AwaitFits
<1>4. u \notin contested =>
         /\ outbound[u] # NoRoute => made[outbound[u].transport].by # "start"
         /\ \A i \in live' : ~(made[i].server = u /\ made[i].by = "start")
  BY <1>1, <1>2, <1>3 DEF RouteFits
<1>5. /\ \A s \in ServerNames \ {u} : Marked(id)[s] = outbound[s]
      /\ Marked(id)[u].transport = outbound[u].transport
      /\ outbound[u] = NoRoute => Marked(id)[u] = NoRoute
  BY <1>1, <1>3, MarkedFacts
<1>6. CASE Decision(j) = "restart" /\ Start(j)
  <2>1. InNewConfig(j)
    BY <1>6 DEF Decision
  <2>2. QED
    BY <1>1, <1>2, <1>4, <1>6, <2>1, StartKeeps
<1>7. CASE Decision(j) = "restart" /\ StartFails(j, Marked(id))
  <2>1. /\ mcpServers' = [mcpServers EXCEPT ![Server(j)] = Untracked]
        /\ outbound' = Marked(id) /\ Advance(j) /\ made' = made
    BY <1>7 DEF StartFails
  <2>2. QED
    BY <1>1, <1>2, <1>4, <1>5, <2>1, GoneKeeps
<1>8. CASE Decision(j) = "stop"
  <2>1. /\ mcpServers' = [mcpServers EXCEPT ![Server(j)] = Untracked]
        /\ outbound' = Marked(id) /\ Advance(j) /\ made' = made
    BY <1>1, <1>8
  <2>2. QED
    BY <1>1, <1>2, <1>4, <1>5, <2>1, GoneKeeps
<1>9. QED
  BY <1>1, <1>6, <1>7, <1>8

(* A connection that is over: the entry names the transport in the table.  *)
LEMMA ConnectFits ==
    ASSUME ReloadInv, ReloadTypes', NEW j \in DOMAIN handlers, handlers[j].todo # <<>>,
           handlers[j].at = "connecting", Advance(j), mcpServers' = mcpServers,
           rejoining' = rejoining,
           NEW status \in {"connected", "error", "awaiting_oauth"},
           outbound' = [outbound EXCEPT ![Server(j)] =
                          [transport |-> handlers[j].transport, status |-> status]],
           \/ made' = made /\ live' \subseteq live \cup {handlers[j].transport}
           \/ /\ made' = Append(made, TransportOf(Server(j), Wanted(j), "retry"))
              /\ live' = live \cup {Len(made')}
    PROVE  ReloadInv'
<1>1. ReloadTypes
  BY DEF ReloadInv
<1>2. PICK id : id = handlers[j].transport
  OBVIOUS
<1>3. PICK u \in ServerNames :
        /\ u = Server(j)
        /\ TableFits(u) /\ RouteFits(u) /\ EndFits(u) /\ AwaitFits(j)
        /\ mcpServers[u] # Untracked => mcpServers[u] \in DOMAIN made
        /\ handlers[j].transport \in DOMAIN made
  BY OwnFacts
<1>4. /\ made[id].server = u /\ made[id].by = "start" /\ id \in DOMAIN made /\ id # 0
      /\ u \notin contested => id = mcpServers[u] /\ TransportFits(u)
  BY <1>1, <1>2, <1>3, TypeFacts DEF AwaitFits
<1>5. /\ UNCHANGED <<config, contested, missed>>
      /\ DOMAIN handlers' = DOMAIN handlers
      /\ \A k \in DOMAIN handlers \ {j} : handlers'[k] = handlers[k]
      /\ handlers'[j].config = handlers[j].config
      /\ handlers'[j].todo = Tail(handlers[j].todo) /\ handlers'[j].at = "next"
  BY <1>1, AdvanceLeaves
<1>6. /\ outbound'[u] = [transport |-> id, status |-> status]
      /\ \A s \in ServerNames \ {u} : outbound'[s] = outbound[s]
  BY <1>1, <1>2, <1>3, TypeFacts
<1>7. /\ DOMAIN made \subseteq DOMAIN made'
      /\ \A i \in DOMAIN made : made'[i] = made[i]
      /\ \A i \in DOMAIN made' \ DOMAIN made : made'[i].server = u /\ made'[i].by = "retry"
      /\ \A i \in live' : i \in live \/ i = id \/ i \in DOMAIN made' \ DOMAIN made
  <2>1. CASE made' = made /\ live' \subseteq live \cup {handlers[j].transport}
    BY <1>2, <2>1
  <2>2. CASE /\ made' = Append(made, TransportOf(Server(j), Wanted(j), "retry"))
             /\ live' = live \cup {Len(made')}
    <3>1. PICK t \in Transports : t = TransportOf(Server(j), Wanted(j), "retry")
      BY <1>1, HandlerFacts
    <3>2. t.server = u /\ t.by = "retry"
      BY <1>1, <1>3, <3>1, HandlerFacts
    <3>3. made' = Append(made, t)
      BY <2>2, <3>1
    <3>4. /\ DOMAIN made' = DOMAIN made \cup {Len(made')}
          /\ Len(made') = Len(made) + 1
          /\ made'[Len(made')] = t
          /\ \A i \in DOMAIN made : made'[i] = made[i]
      BY <1>1, <3>3, MadeFacts, TypeFacts
    <3>5. Len(made') \notin DOMAIN made
      BY <1>1, <3>4, TypeFacts
    <3>6. QED
      BY <2>2, <3>2, <3>4, <3>5
  <2>3. QED
    BY <2>1, <2>2
<1>8. Leaves(j)
  BY <1>3, <1>4, <1>5, <1>6, <1>7 DEF Leaves
<1>9. RouteFits(u)'
  <2>1. \A i \in live : i \in DOMAIN made
    BY <1>1, TypeFacts
  <2>2. ASSUME u \notin contested, NEW i \in live', made'[i].server = u, made'[i].by = "start"
        PROVE  mcpServers'[u] = i
    BY <1>3, <1>4, <1>7, <2>1, <2>2 DEF RouteFits
  <2>3. QED
    BY <1>4, <1>5, <1>6, <1>7, <2>2 DEF RouteFits
<1>10. EndFits(u)'
  BY <1>6 DEF EndFits
<1>11. mcpServers'[u] # Untracked => /\ made'[mcpServers'[u]].server = u
                                     /\ made'[mcpServers'[u]].by = "start"
  BY <1>3, <1>7 DEF TableFits
<1>12. ASSUME u \notin contested PROVE TransportFits(u)'
  BY <1>4, <1>5, <1>7, <1>12 DEF TransportFits
<1>13. QED
  BY <1>3, <1>5, <1>8, <1>9, <1>10, <1>11, <1>12, HandlerKeeps

(* The end of a connection brings its server a transport of its entry, and *)
(* a route to it.                                                          *)
LEMMA ConnectEndsFits ==
    ASSUME ReloadInv, ReloadTypes', NEW j \in DOMAIN handlers,
           \/ \E status \in {"connected", "error", "awaiting_oauth"} : ConnectEnds(j, status)
           \/ ConnectsByRetry(j)
    PROVE  ReloadInv'
<1>1. ASSUME NEW status \in {"connected", "error", "awaiting_oauth"}, ConnectEnds(j, status)
      PROVE  ReloadInv'
  <2>1. /\ handlers[j].todo # <<>> /\ handlers[j].at = "connecting" /\ Advance(j)
        /\ outbound' = [outbound EXCEPT ![Server(j)] =
                          [transport |-> handlers[j].transport, status |-> status]]
        /\ live' \subseteq live \cup {handlers[j].transport}
        /\ UNCHANGED <<made, mcpServers, rejoining>>
    BY <1>1 DEF ConnectEnds, At
  <2>2. QED
    BY <2>1, ConnectFits
<1>2. CASE ConnectsByRetry(j)
  <2>1. /\ handlers[j].todo # <<>> /\ handlers[j].at = "connecting" /\ Advance(j)
        /\ outbound' = [outbound EXCEPT ![Server(j)] =
                          [transport |-> handlers[j].transport, status |-> "connected"]]
        /\ made' = Append(made, TransportOf(Server(j), Wanted(j), "retry"))
        /\ live' = live \cup {Len(made')}
        /\ UNCHANGED <<mcpServers, rejoining>>
    BY <1>2 DEF ConnectsByRetry, At
  <2>2. "connected" \in {"connected", "error", "awaiting_oauth"}
    OBVIOUS
  <2>3. QED
    BY <2>1, <2>2, ConnectFits
<1>3. QED
  BY <1>1, <1>2

(* What others do changes the entry of one server: to none, to one with    *)
(* the same transport, or to one with a transport of theirs; and ends or   *)
(* begins connections, of which a handler made none.                       *)
LEMMA OthersKeep ==
    ASSUME ReloadInv, ReloadTypes', UNCHANGED <<config, handlers, mcpServers, contested, missed>>,
           DOMAIN made \subseteq DOMAIN made', \A i \in DOMAIN made : made'[i] = made[i],
           \A i \in rejoining' : i \in rejoining \/ made'[i].by = "other",
           \A i \in live' : i \in live \/ made'[i].by # "start",
           \A s \in ServerNames :
              \/ outbound'[s] = NoRoute
              \/ outbound[s] # NoRoute /\ outbound'[s].transport = outbound[s].transport
              \/ /\ outbound'[s].transport # 0
                 /\ made'[outbound'[s].transport].server = s
                 /\ made'[outbound'[s].transport].by = "other",
           \A s \in ServerNames : EndFits(s)'
    PROVE  ReloadInv'
<1>1. ReloadTypes
  BY DEF ReloadInv
<1>2. \A s \in ServerNames : /\ mcpServers[s] # Untracked => mcpServers[s] \in DOMAIN made
                             /\ outbound[s] # NoRoute => outbound[s].transport \in DOMAIN made
  BY <1>1, TypeFacts DEF ReloadInv, ServerFits, RouteFits, Untracked
<1>3. live \subseteq DOMAIN made /\ rejoining \subseteq DOMAIN made
  BY <1>1, TypeFacts
<1>4. \A s \in ServerNames : mcpServers[s] # Untracked => (TransportFits(s)' <=> TransportFits(s))
  BY <1>2 DEF TransportFits
<1>5. ASSUME NEW s \in ServerNames PROVE ServerFits(s)'
  <2>1. ServerFits(s)
    BY DEF ReloadInv
  <2>2. \A k, i : /\ Holds(k, i, s)' <=> Holds(k, i, s)
                  /\ ToBegin(k, i)' <=> ToBegin(k, i)
    BY DEF Holds, ToBegin
  <2>3. \A k, i : ChangeFits(k, i, s) => ChangeFits(k, i, s)'
    BY <1>2, <1>4, <2>2 DEF ChangeFits
  <2>4. ChangesFit(s)'
    BY <2>1, <2>2, <2>3 DEF ServerFits, ChangesFit
  <2>5. Handled(s)' <=> Handled(s)
    BY DEF Handled, Pending
  <2>6. TableFits(s)'
    BY <1>2, <1>4, <2>1, <2>5 DEF ServerFits, TableFits
  <2>7. RouteFits(s)'
    BY <1>2, <1>3, <2>1 DEF ServerFits, RouteFits
  <2>8. QED
    BY <2>4, <2>6, <2>7 DEF ServerFits
<1>6. ASSUME NEW k \in Busy' PROVE AwaitFits(k)'
  <2>1. k \in DOMAIN handlers /\ handlers[k].todo # <<>> /\ k \in Busy
    BY DEF Busy
  <2>2. AwaitFits(k) /\ Server(k)' = Server(k) /\ Decision(k)' = Decision(k)
        /\ Server(k) \in ServerNames
    BY <1>1, <2>1, HandlerFacts DEF ReloadInv, Server, Decision, InNewConfig, Wanted
  <2>3. handlers[k].at # "next" => handlers[k].transport \in DOMAIN made
    BY <1>1, <2>1, TypeFacts DEF ReloadTypes, AwaitsOne
  <2>4. PICK s \in ServerNames : s = Server(k)
    BY <2>2
  <2>5. PICK id : id = handlers[k].transport
    OBVIOUS
  <2> SUFFICES ASSUME handlers[k].at # "next"
               PROVE  /\ made'[id].server = s /\ made'[id].by = "start"
                      /\ s \notin contested =>
                            /\ id = mcpServers[s]
                            /\ handlers[k].at = "closing" =>
                                  /\ Decision(k) \in {"stop", "restart"}
                                  /\ outbound'[s] # NoRoute => made'[outbound'[s].transport].by # "start"
                            /\ handlers[k].at = "connecting" => TransportFits(s)'
    BY <2>2, <2>4, <2>5 DEF AwaitFits
  <2>6. /\ made[id].server = s /\ made[id].by = "start"
        /\ s \notin contested =>
              /\ id = mcpServers[s]
              /\ handlers[k].at = "closing" =>
                    /\ Decision(k) \in {"stop", "restart"}
                    /\ outbound[s] # NoRoute => made[outbound[s].transport].by # "start"
              /\ handlers[k].at = "connecting" => TransportFits(s)
    BY <2>2, <2>4, <2>5 DEF AwaitFits
  <2>7. made'[id] = made[id]
    BY <2>3, <2>5
  <2>8. s \notin contested => (TransportFits(s)' <=> TransportFits(s))
    BY <2>6, <2>7 DEF TransportFits
  <2>9. QED
    BY <1>2, <2>6, <2>7, <2>8
<1>7. \A id \in rejoining' : made'[id].by = "other"
  BY <1>3 DEF ReloadInv
<1>8. QED
  BY <1>5, <1>6, <1>7 DEF ReloadInv

(* A transport that dies: an entry is shown as disconnected for the one it *)
(* names, when only handlers made transports for the server.               *)
LEMMA DiesFits ==
    ASSUME ReloadInv, ReloadTypes', NEW id \in live, TransportDies(id)
    PROVE  ReloadInv'
<1>1. /\ ReloadTypes
      /\ outbound' = Marked(id) /\ live' = live \ {id}
      /\ UNCHANGED <<config, handlers, made, mcpServers, rejoining, contested, missed>>
  BY DEF TransportDies, ReloadInv
<1>2. \A s \in ServerNames :
         /\ outbound'[s].transport = outbound[s].transport
         /\ outbound[s] = NoRoute => outbound'[s] = NoRoute
         /\ outbound'[s] # outbound[s] => s = made[id].server /\ id \in live
  BY <1>1, MarkedFacts
<1>3. ASSUME NEW s \in ServerNames PROVE EndFits(s)'
  <2> SUFFICES ASSUME s \notin contested,
                      \A i \in DOMAIN made : made[i].server = s => made[i].by = "start",
                      outbound'[s].status = "disconnected", outbound'[s].transport \in live \ {id}
               PROVE  FALSE
    BY <1>1 DEF EndFits
  <2>1. RouteFits(s) /\ EndFits(s)
    BY DEF ReloadInv, ServerFits
  <2>2. CASE outbound'[s] = outbound[s]
    BY <2>1, <2>2 DEF EndFits
  <2>3. CASE outbound'[s] # outbound[s]
    <3>1. s = made[id].server /\ outbound[s] # NoRoute /\ id \in DOMAIN made
      BY <1>1, <1>2, <2>3, TypeFacts
    <3>2. mcpServers[s] = id
      BY <2>1, <3>1 DEF RouteFits
    <3>3. outbound[s].transport \in DOMAIN made
      BY <1>1, <2>1, <3>1, TypeFacts DEF RouteFits
    <3>4. outbound[s].transport = mcpServers[s]
      BY <2>1, <3>1, <3>3 DEF RouteFits
    <3>5. QED
      BY <1>2, <3>2, <3>4
  <2>4. QED
    BY <2>2, <2>3
<1>4. QED
  BY <1>1, <1>2, <1>3, OthersKeep

(* Others take up the server of an entry.                                  *)
LEMMA OthersBeginFits ==
    ASSUME ReloadInv, ReloadTypes', NEW s \in ServerNames, OthersBegin(s)
    PROVE  ReloadInv'
<1>0. PICK id : id = outbound[s].transport
  OBVIOUS
<1>1. /\ ReloadTypes
      /\ outbound[s] # NoRoute
      /\ made' = Append(made, [made[id] EXCEPT !.by = "other"])
      /\ rejoining' = rejoining \cup {Len(made')}
      /\ live' = live \ {id}
      /\ outbound' \in {Marked(id), [outbound EXCEPT ![s] = NoRoute]}
      /\ UNCHANGED <<config, handlers, mcpServers, contested, missed>>
  BY <1>0 DEF OthersBegin, ReloadInv
<1>2. id \in DOMAIN made /\ made[id].server = s
  BY <1>0, <1>1, TypeFacts DEF ReloadInv, ServerFits, RouteFits
<1>3. made[id] \in Transports
  BY <1>1, <1>2, TypeFacts
<1>4. PICK t \in Transports : t = [made[id] EXCEPT !.by = "other"]
  BY <1>3 DEF Transports
<1>5. t.server = s /\ t.by = "other"
  BY <1>2, <1>3, <1>4 DEF Transports
<1>6. made' = Append(made, t)
  BY <1>1, <1>4
<1>7. /\ DOMAIN made' = DOMAIN made \cup {Len(made')}
      /\ made'[Len(made')] = t
      /\ \A i \in DOMAIN made : made'[i] = made[i]
  BY <1>1, <1>6, MadeFacts, TypeFacts
<1>8. \A u \in ServerNames :
         \/ outbound'[u] = NoRoute
         \/ outbound[u] # NoRoute /\ outbound'[u].transport = outbound[u].transport
  <2>1. CASE outbound' = Marked(id)
    BY <1>1, <2>1, MarkedFacts
  <2>2. CASE outbound' = [outbound EXCEPT ![s] = NoRoute]
    BY <1>1, <2>2, TypeFacts
  <2>3. QED
    BY <1>1, <2>1, <2>2
<1>9. \A u \in ServerNames \ {s} : outbound'[u] = outbound[u]
  <2>1. CASE outbound' = Marked(id)
    BY <1>1, <1>2, <2>1, MarkedFacts
  <2>2. CASE outbound' = [outbound EXCEPT ![s] = NoRoute]
    BY <1>1, <2>2, TypeFacts
  <2>3. QED
    BY <1>1, <2>1, <2>2
<1>10. ASSUME NEW u \in ServerNames PROVE EndFits(u)'
  <2>1. CASE u = s
    BY <1>5, <1>7, <2>1 DEF EndFits
  <2>2. CASE u # s
    <3>1. outbound'[u] = outbound[u] /\ EndFits(u)
      BY <1>9, <2>2 DEF ReloadInv
    <3>2. QED
      BY <1>1, <1>7, <3>1 DEF EndFits
  <2>3. QED
    BY <2>1, <2>2
<1>11. \A i \in rejoining' : i \in rejoining \/ made'[i].by = "other"
  BY <1>1, <1>5, <1>7
<1>12. QED
  BY <1>1, <1>7, <1>8, <1>10, <1>11, OthersKeep

(* ... and are done with it.                                               *)
LEMMA OthersEndFits ==
    ASSUME ReloadInv, ReloadTypes', NEW id \in rejoining,
           NEW status \in {"none", "connected", "error", "awaiting_oauth"}, OthersEnd(id, status)
    PROVE  ReloadInv'
<1>0. PICK s : s = made[id].server
  OBVIOUS
<1>1. /\ ReloadTypes
      /\ rejoining' = rejoining \ {id}
      /\ outbound' = IF status = "none" THEN outbound
                     ELSE [outbound EXCEPT ![s] = [transport |-> id, status |-> status]]
      /\ live' \subseteq live \cup {id}
      /\ UNCHANGED <<config, handlers, made, mcpServers, contested, missed>>
  BY <1>0 DEF OthersEnd, ReloadInv
<1>2. id \in DOMAIN made /\ id # 0 /\ s \in ServerNames /\ made[id].by = "other"
  BY <1>0, <1>1, TypeFacts DEF ReloadInv
<1>3. \A u \in ServerNames :
         \/ outbound'[u] = outbound[u]
         \/ u = s /\ outbound'[u] = [transport |-> id, status |-> status]
  BY <1>1, TypeFacts
<1>4. \A u \in ServerNames :
         \/ outbound'[u] = NoRoute
         \/ outbound[u] # NoRoute /\ outbound'[u].transport = outbound[u].transport
         \/ /\ outbound'[u].transport # 0
            /\ made'[outbound'[u].transport].server = u
            /\ made'[outbound'[u].transport].by = "other"
  BY <1>0, <1>1, <1>2, <1>3
<1>5. ASSUME NEW u \in ServerNames PROVE EndFits(u)'
  <2>1. CASE u = s
    BY <1>0, <1>1, <1>2, <2>1 DEF EndFits
  <2>2. CASE u # s
    <3> SUFFICES ASSUME u \notin contested,
                        \A i \in DOMAIN made : made[i].server = u => made[i].by = "start",
                        outbound'[u].status = "disconnected", outbound'[u].transport \in live'
                 PROVE  FALSE
      BY <1>1 DEF EndFits
    <3>1. outbound'[u] = outbound[u] /\ EndFits(u) /\ RouteFits(u)
      BY <1>3, <2>2 DEF ReloadInv, ServerFits
    <3>2. outbound[u] # NoRoute
      BY <3>1 DEF NoRoute
    <3>3. outbound[u].transport # id
      BY <1>0, <2>2, <3>1, <3>2 DEF RouteFits
    <3>4. QED
      BY <1>1, <3>1, <3>3 DEF EndFits
  <2>3. QED
    BY <2>1, <2>2
<1>6. \A i \in live' : i \in live \/ made'[i].by # "start"
  BY <1>1, <1>2
<1>7. QED
  BY <1>1, <1>4, <1>5, <1>6, OthersKeep

(* As many changes as servers saved, each of another one of them, are      *)
(* changes of all of them.                                                 *)
LEMMA ChangesCover ==
    ASSUME NEW S \in SUBSET ServerNames, NEW f \in [1 .. Cardinality(S) -> S],
           \A i, k \in 1 .. Cardinality(S) : f[i] = f[k] => i = k,
           NEW s \in S
    PROVE  \E i \in 1 .. Cardinality(S) : f[i] = s
<1> SUFFICES ASSUME \A i \in 1 .. Cardinality(S) : f[i] # s PROVE FALSE
  OBVIOUS
<1>1. IsFiniteSet(S) /\ Cardinality(S) \in Nat
  BY FS_Subset, FS_CardinalityType, LifecycleConstants
<1>2. IsFiniteSet(S \ {s}) /\ Cardinality(S \ {s}) = Cardinality(S) - 1
  BY <1>1, FS_RemoveElement
<1>3. IsFiniteSet(1 .. Cardinality(S)) /\ Cardinality(1 .. Cardinality(S)) = Cardinality(S)
  BY <1>1, FS_Interval
<1>4. f \in [1 .. Cardinality(S) -> S \ {s}]
  OBVIOUS
<1>5. Cardinality(S \ {s}) < Cardinality(1 .. Cardinality(S))
  BY <1>1, <1>2, <1>3
<1> DEFINE A == 1 .. Cardinality(S)
           B == S \ {s}
<1>6. IsFiniteSet(A) /\ IsFiniteSet(B) /\ Cardinality(B) < Cardinality(A) /\ f \in [A -> B]
  BY <1>2, <1>3, <1>4, <1>5
<1>7. \A i, k \in A : f[i] = f[k] => i = k
  OBVIOUS
<1> HIDE DEF A, B
<1>8. \E i, k \in A : i # k /\ f[i] = f[k]
  BY <1>6, FS_PigeonHole
<1>9. QED
  BY <1>7, <1>8

(* A save leaves a change of every server it saves, which fits; unless one *)
(* was being handled, which makes the server contested.                    *)
LEMMA SaveFits ==
    ASSUME ReloadInv, ReloadTypes', NEW S \in SUBSET ServerNames, Save(S)
    PROVE  ReloadInv'
<1>1. PICK edits \in [S -> UNION {Edits(s) : s \in S}] :
        /\ \A s \in S : edits[s] \in Edits(s)
        /\ config' = [s \in ServerNames |-> IF s \in S THEN edits[s].entry ELSE config[s]]
        /\ \E order \in Lists(S, edits) :
              handlers' = Append(handlers, [todo      |-> [i \in 1 .. Cardinality(S) |->
                                                             edits[order[i]].change],
                                            at        |-> "next",
                                            config    |-> config',
                                            transport |-> 0])
        /\ missed' = (missed \ {s \in S : Renews(edits[s])})
                       \cup {s \in S : Unseen(s, edits[s])}
  BY DEF Save
<1>2. /\ ReloadTypes
      /\ Len(handlers) < MaxEdits
      /\ contested' = contested \cup {s \in S : Pending(s)}
      /\ UNCHANGED <<made, live, mcpServers, outbound, rejoining>>
  BY DEF Save, ReloadInv
<1>3. PICK order \in Lists(S, edits) :
        handlers' = Append(handlers, [todo      |-> TodoOf(S, edits, order),
                                      at        |-> "next",
                                      config    |-> config',
                                      transport |-> 0])
  BY <1>1 DEF TodoOf
<1>4. PICK new : new = Len(handlers')
  OBVIOUS
<1>5. /\ DOMAIN handlers' = DOMAIN handlers \cup {new}
      /\ new \notin DOMAIN handlers
      /\ \A k \in DOMAIN handlers : handlers'[k] = handlers[k]
      /\ handlers'[new].at = "next"
      /\ handlers'[new].config = config'
      /\ DOMAIN handlers'[new].todo = 1 .. Cardinality(S)
      /\ \A i \in 1 .. Cardinality(S) :
            order[i] \in S /\ handlers'[new].todo[i] = edits[order[i]].change
  <2>1. Len(handlers') = Len(handlers) + 1 /\ DOMAIN handlers = 1 .. Len(handlers) /\ Len(handlers) \in Nat
    BY <1>1, <1>2, <1>3, SaveFacts, TypeFacts
  <2>2. new \notin DOMAIN handlers
    BY <1>4, <2>1
  <2>a. /\ DOMAIN handlers' = DOMAIN handlers \cup {Len(handlers')}
        /\ \A k \in DOMAIN handlers : handlers'[k] = handlers[k]
        /\ handlers'[Len(handlers')].at = "next"
    BY <1>1, <1>2, <1>3, SaveFacts
  <2>b. /\ handlers'[Len(handlers')].config = config'
        /\ handlers'[Len(handlers')].todo = TodoOf(S, edits, order)
    BY <1>1, <1>2, <1>3, SaveFacts
  <2>c. \A i \in 1 .. Cardinality(S) : order[i] \in S
    BY DEF Lists
  <2>3. QED
    BY <1>4, <2>2, <2>a, <2>b, <2>c DEF TodoOf
<1>6. \A s \in S : config[s] \in PageEntries
  BY <1>2, TypeFacts
<1>7. ASSUME NEW s \in S
      PROVE  /\ config'[s] = edits[s].entry
             /\ edits[s].change.server = s
             /\ edits[s].change.type = "removed" <=> config'[s].mode = "absent"
             /\ edits[s].change.type = "added" => config[s].mode = "absent"
             /\ edits[s].change.type = "modified" /\ edits[s].change.fields # "disabled"
                   => config'[s].mode = "enabled"
             /\ edits[s].change.type = "modified" /\ edits[s].change.fields = "disabled"
                /\ config'[s].rev = config[s].rev
                   => config'[s].mode = "enabled" /\ config'[s].tags = config[s].tags
             /\ edits[s].change \in Requests
  BY <1>1, <1>6, EditFacts
<1>8. \A s \in ServerNames \ S : /\ config'[s] = config[s]
                                 /\ s \in missed' <=> s \in missed
                                 /\ s \in contested' <=> s \in contested
  BY <1>1, <1>2
<1>9. ASSUME NEW s \in S, config'[s].mode = "absent" PROVE s \notin missed'
  BY <1>1, <1>7, <1>9 DEF Renews, Unseen
<1>10. \A k, i, s : Holds(k, i, s)' <=> \/ Holds(k, i, s)
                                        \/ k = new /\ i \in 1 .. Cardinality(S) /\ order[i] = s
  <2> SUFFICES ASSUME NEW k, NEW i, NEW s
               PROVE  Holds(k, i, s)' <=> \/ Holds(k, i, s)
                                          \/ k = new /\ i \in 1 .. Cardinality(S) /\ order[i] = s
    OBVIOUS
  <2>1. CASE k \in DOMAIN handlers
    <3>1. handlers'[k] = handlers[k] /\ k \in DOMAIN handlers' /\ k # new
      BY <1>5, <2>1
    <3>2. QED
      BY <3>1, <2>1 DEF Holds
  <2>2. CASE k = new
    <3>1. ~Holds(k, i, s)
      BY <1>5, <2>2 DEF Holds
    <3>2. Holds(k, i, s)' <=> i \in 1 .. Cardinality(S) /\ handlers'[new].todo[i].server = s
      BY <1>5, <2>2 DEF Holds
    <3>3. i \in 1 .. Cardinality(S) => handlers'[new].todo[i].server = order[i]
      BY <1>5, <1>7
    <3>4. QED
      BY <2>2, <3>1, <3>2, <3>3
  <2>3. CASE k \notin DOMAIN handlers /\ k # new
    BY <1>5, <2>3 DEF Holds
  <2>4. QED
    BY <2>1, <2>2, <2>3
<1>11. \A k, i, s : Holds(k, i, s) => k # new /\ k \in DOMAIN handlers
  BY <1>5 DEF Holds
<1>12. \A s \in ServerNames : s \in contested => s \in contested'
  BY <1>2
<1>13. ASSUME NEW s \in ServerNames PROVE ChangesFit(s)'
  <2> SUFFICES ASSUME s \notin contested'
               PROVE  /\ \A k, m, i, l : Holds(k, i, s)' /\ Holds(m, l, s)' => k = m /\ i = l
                      /\ \A k, i : Holds(k, i, s)' => ChangeFits(k, i, s)'
    BY DEF ChangesFit
  <2>0. ServerFits(s) /\ s \notin contested
    BY <1>12 DEF ReloadInv
  <2>1. CASE s \notin S
    <3>1. \A k, i : Holds(k, i, s)' => Holds(k, i, s)
      BY <1>5, <1>10, <2>1
    <3>2. ASSUME NEW k, NEW i, Holds(k, i, s) PROVE ChangeFits(k, i, s)'
      <4>1. ChangeFits(k, i, s) /\ handlers'[k] = handlers[k]
        BY <1>5, <1>11, <2>0, <3>2 DEF ServerFits, ChangesFit
      <4>2. TransportFits(s)' <=> TransportFits(s)
        BY <1>2, <1>8, <2>1 DEF TransportFits
      <4>3. QED
        BY <1>2, <1>8, <2>1, <4>1, <4>2 DEF ChangeFits, ToBegin
    <3>3. QED
      BY <2>0, <3>1, <3>2 DEF ServerFits, ChangesFit
  <2>2. CASE s \in S
    <3>1. ~Pending(s)
      BY <1>2, <2>2
    <3>2. \A k, i : Holds(k, i, s)' => k = new /\ i \in 1 .. Cardinality(S) /\ order[i] = s
      BY <1>10, <3>1, PendingHolds
    <3>3. \A i, l \in 1 .. Cardinality(S) : order[i] = order[l] => i = l
      BY DEF Lists
    <3>4. ASSUME NEW k, NEW i, Holds(k, i, s)' PROVE ChangeFits(k, i, s)'
      <4>1. PICK change : change = edits[s].change
        OBVIOUS
      <4>2. handlers'[k].todo[i] = change /\ handlers'[k].config = config'
        BY <1>5, <3>2, <3>4, <4>1
      <4>3. ASSUME s \notin missed', mcpServers[s] # Untracked
            PROVE  /\ change.type # "added"
                   /\ change.type = "modified" /\ change.fields = "disabled" => TransportFits(s)'
                   /\ change.type = "modified" /\ change.fields = "tags" =>
                         made[mcpServers[s]].rev = config'[s].rev
        <5>1. Handled(s)
          BY <2>0, <3>1 DEF Handled
        <5>2. CASE s \in missed
          <6>1. change.type # "modified" \/ change.fields = "functional"
            BY <1>1, <2>2, <4>1, <4>3, <5>2 DEF Renews
          <6>2. config[s].mode # "absent"
            BY <2>0, <5>2 DEF ServerFits, TableFits
          <6>3. QED
            BY <1>7, <2>2, <4>1, <6>1, <6>2
        <5>3. CASE s \notin missed
          <6>1. TransportFits(s)
            BY <2>0, <4>3, <5>1, <5>3 DEF ServerFits, TableFits
          <6>2. config[s].mode = "enabled"
            BY <6>1 DEF TransportFits
          <6>3. change.type = "modified" /\ change.fields # "functional" => config'[s].rev = config[s].rev
            BY <1>1, <1>7, <2>2, <4>1, <4>3, <6>2 DEF Unseen
          <6>4. QED
            BY <1>2, <1>7, <2>2, <4>1, <6>1, <6>2, <6>3 DEF TransportFits
        <5>4. QED
          BY <5>2, <5>3
      <4>4. QED
        BY <1>2, <1>7, <2>2, <4>1, <4>2, <4>3 DEF ChangeFits
    <3>5. QED
      BY <3>2, <3>3, <3>4
  <2>3. QED
    BY <2>1, <2>2
<1>14. ASSUME NEW s \in ServerNames PROVE TableFits(s)'
  <2>1. TableFits(s)
    BY DEF ReloadInv, ServerFits
  <2>2. config'[s].mode = "absent" => s \notin missed'
    BY <1>8, <1>9, <2>1 DEF TableFits
  <2>3. ASSUME mcpServers[s] # Untracked, Handled(s)', s \notin missed'
        PROVE  TransportFits(s)'
    <3>1. s \notin S
      <4> SUFFICES ASSUME s \in S PROVE FALSE
        OBVIOUS
      <4>1. \A i, l \in 1 .. Cardinality(S) : order[i] = order[l] => i = l
        BY DEF Lists
      <4>2. order \in [1 .. Cardinality(S) -> S]
        BY DEF Lists
      <4>3. \E i \in 1 .. Cardinality(S) : order[i] = s
        BY <4>1, <4>2, ChangesCover
      <4>4. Pending(s)'
        BY <1>10, <4>3, PendingHolds
      <4>5. QED
        BY <2>3, <4>4 DEF Handled
    <3>2. Pending(s) => Pending(s)'
      BY <1>10, PendingHolds
    <3>3. Handled(s)
      BY <1>12, <2>3, <3>2 DEF Handled
    <3>4. TransportFits(s)
      BY <1>8, <2>1, <2>3, <3>1, <3>3 DEF TableFits
    <3>5. QED
      BY <1>2, <1>8, <3>1, <3>4 DEF TransportFits
  <2>4. QED
    BY <1>2, <2>1, <2>2, <2>3 DEF TableFits
<1>15. ASSUME NEW s \in ServerNames PROVE RouteFits(s)' /\ EndFits(s)'
  <2>1. RouteFits(s) /\ EndFits(s)
    BY DEF ReloadInv, ServerFits
  <2>2. QED
    BY <1>2, <1>12, <2>1 DEF RouteFits, EndFits
<1>16. ASSUME NEW k \in Busy' PROVE AwaitFits(k)'
  <2>1. k \in DOMAIN handlers' /\ handlers'[k].todo # <<>>
    BY DEF Busy
  <2>2. CASE k = new
    BY <1>5, <2>2 DEF AwaitFits
  <2>3. CASE k # new
    <3>1. k \in DOMAIN handlers /\ handlers'[k] = handlers[k] /\ handlers[k].todo # <<>>
      BY <1>5, <2>1, <2>3
    <3>2. /\ k \in Busy /\ AwaitFits(k) /\ Server(k) \in ServerNames
          /\ Holds(k, 1, Server(k))
      BY <1>2, <3>1, HandlerFacts DEF ReloadInv, Holds
    <3>3. Server(k)' = Server(k) /\ Decision(k)' = Decision(k)
      BY <3>1 DEF Server, Decision, InNewConfig, Wanted
    <3>4. PICK s \in ServerNames : s = Server(k)
      BY <3>2
    <3>5. s \notin contested' => s \notin contested /\ config'[s] = config[s]
      BY <1>2, <1>8, <3>2, <3>4, PendingHolds
    <3>6. s \notin contested' => (TransportFits(s)' <=> TransportFits(s))
      BY <1>2, <3>5 DEF TransportFits
    <3>7. QED
      BY <1>2, <3>1, <3>2, <3>3, <3>4, <3>5, <3>6 DEF AwaitFits
  <2>4. QED
    BY <2>2, <2>3
<1>17. \A id \in rejoining' : made'[id].by = "other"
  BY <1>2 DEF ReloadInv
<1>18. QED
  BY <1>13, <1>14, <1>15, <1>16, <1>17 DEF ReloadInv, ServerFits

(* With nothing changed, every server is as the file has it.               *)
LEMMA ReloadInvInit == LifecycleInit => ReloadInv
<1> SUFFICES ASSUME LifecycleInit PROVE ReloadInv
  OBVIOUS
<1>1. ReloadTypes
  BY ReloadTypesInit
<1>2. /\ DOMAIN handlers = {} /\ Busy = {} /\ rejoining = {} /\ missed = {}
      /\ \A s \in ServerNames : mcpServers[s] = Untracked
  BY DEF LifecycleInit, Busy
<1>3. \A i \in DOMAIN BootOrder : made[i].by = "boot" /\ made[i].server = BootOrder[i]
  BY DEF LifecycleInit, TransportOf
<1>4. DOMAIN made = DOMAIN BootOrder /\ DOMAIN made = 1 .. Len(made) /\ live = DOMAIN made
  BY <1>1, TypeFacts DEF LifecycleInit
<1>5. ASSUME NEW s \in ServerNames
      PROVE  ServerFits(s) /\ EndFits(s)
  <2>1. outbound[s] # NoRoute =>
           /\ outbound[s].transport \in DOMAIN made
           /\ made[outbound[s].transport].server = s
           /\ made[outbound[s].transport].by = "boot"
    <3> SUFFICES ASSUME outbound[s] # NoRoute
                 PROVE  /\ outbound[s].transport \in DOMAIN made
                        /\ made[outbound[s].transport].server = s
                        /\ made[outbound[s].transport].by = "boot"
      OBVIOUS
    <3>1. s \in Boot
      BY DEF LifecycleInit
    <3>2. PICK k : k = CHOOSE i \in DOMAIN BootOrder : BootOrder[i] = s
      OBVIOUS
    <3>3. \E i \in DOMAIN BootOrder : BootOrder[i] = s
      BY <3>1 DEF Boot
    <3>4. k \in DOMAIN BootOrder /\ BootOrder[k] = s
      BY <3>2, <3>3
    <3>5. outbound[s] = [transport |-> k, status |-> "connected"]
      BY <3>1, <3>2 DEF LifecycleInit
    <3>6. QED
      BY <1>3, <1>4, <3>4, <3>5
  <2>2. ChangesFit(s)
    BY <1>2 DEF ChangesFit, Holds
  <2>3. TableFits(s)
    BY <1>2 DEF TableFits
  <2>4. RouteFits(s)
    BY <1>3, <1>4, <2>1 DEF RouteFits
  <2>5. EndFits(s)
    <3>1. outbound[s].status # "disconnected"
      BY DEF LifecycleInit, NoRoute
    <3>2. QED
      BY <3>1 DEF EndFits
  <2>6. QED
    BY <2>2, <2>3, <2>4, <2>5 DEF ServerFits
<1>6. QED
  BY <1>1, <1>2, <1>5 DEF ReloadInv

(* Each step by the lemma about it.                                        *)
LEMMA ReloadInvStep == ReloadInv /\ [LifecycleNext]_lifecycleVars => ReloadInv'
<1> SUFFICES ASSUME ReloadInv, [LifecycleNext]_lifecycleVars PROVE ReloadInv'
  OBVIOUS
<1>1. ReloadTypes'
  <2>1. \A s \in ServerNames : outbound[s] # NoRoute => outbound[s].transport # 0
    BY DEF ReloadInv, ServerFits, RouteFits
  <2>2. QED
    BY <2>1, ReloadTypesStep DEF ReloadInv
<1>2. ASSUME NEW j \in DOMAIN handlers, HandlerSteps(j)
      PROVE  ReloadInv'
  BY <1>1, <1>2, SkipFits, MetadataFits, HandleStartFits, HandleStopFits, FinishStopFits,
     ConnectEndsFits DEF HandlerSteps
<1>3. CASE UNCHANGED lifecycleVars
  BY <1>3 DEF lifecycleVars, ReloadInv, ReloadTypes, ServerFits, ChangesFit, ChangeFits, TableFits,
     RouteFits, EndFits, AwaitFits, TransportFits, Holds, ToBegin, Handled, Pending, Busy, Server,
     Decision, InNewConfig, Wanted
<1>4. CASE LifecycleNext
  BY <1>1, <1>2, <1>4, SaveFits, DiesFits, OthersBeginFits, OthersEndFits DEF LifecycleNext
<1>5. QED
  BY <1>3, <1>4

(* The state of the hot reload is what it should be made of, whoever saves *)
(* the file and when, and whoever else makes connections.                  *)
THEOREM LifecycleTyped == LifecycleSpec => []LifecycleTypeOK
<1>1. ASSUME ReloadInv PROVE LifecycleTypeOK
  <2>0. ReloadTypes
    BY <1>1 DEF ReloadInv
  <2>1. config \in [ServerNames -> [mode : Modes, rev : 0 .. MaxEdits, tags : 0 .. MaxEdits]]
    <3>1. \A s \in ServerNames : config[s].rev <= MaxEdits /\ config[s].tags <= MaxEdits
      BY <2>0, TypeFacts, LifecycleConstants DEF ReloadTypes
    <3>2. \A s \in ServerNames : config[s] \in [mode : Modes, rev : 0 .. MaxEdits, tags : 0 .. MaxEdits]
      BY <2>0, <3>1, TypeFacts, LifecycleConstants DEF PageEntries
    <3>3. QED
      BY <2>0, <3>2, TypeFacts DEF Pages
  <2>2. \A j \in DOMAIN handlers : /\ handlers[j].at \in {"next", "closing", "connecting"}
                                   /\ handlers[j].transport \in 0 .. Len(made)
                                   /\ handlers[j].at = "next" <=> handlers[j].transport = 0
    <3>1. \A j \in DOMAIN handlers : handlers[j] \in Works
      BY <2>0, TypeFacts
    <3>2. QED
      BY <2>0, <3>1, TypeFacts DEF ReloadTypes, Works, AwaitsOne
  <2>3. \A s \in ServerNames : outbound[s].status \in {"none", "connected", "error",
                                                       "awaiting_oauth", "disconnected"}
    BY <2>0, TypeFacts DEF Routes
  <2>4. QED
    BY <2>0, <2>1, <2>2, <2>3, TypeFacts DEF LifecycleTypeOK
<1>2. QED
  BY <1>1, ReloadInvInit, ReloadInvStep, PTL DEF LifecycleSpec

(* The table fits the file once the changes of a server have been handled, *)
(* whatever was connected at the start and however many handlers are at    *)
(* work for other servers.                                                 *)
THEOREM TableFollowsFile == LifecycleSpec => []TableFitsFile
<1>1. ASSUME ReloadInv PROVE TableFitsFile
  BY <1>1 DEF ReloadInv, ServerFits, TableFits, TransportFits, TableFitsFile, Tracked
<1>2. QED
  BY <1>1, ReloadInvInit, ReloadInvStep, PTL DEF LifecycleSpec

(* And so do transports and routes: all four agree.                        *)
THEOREM AllFollowFile == LifecycleSpec => []ServersFollowFile
<1>1. ASSUME ReloadInv PROVE ConnectionsAreTracked
  <2>0. ReloadTypes
    BY <1>1 DEF ReloadInv
  <2>1. LiveIsTracked
    <3> SUFFICES ASSUME NEW id \in live, Handled(made[id].server), made[id].by = "start"
                 PROVE  mcpServers[made[id].server] = id
      BY DEF LiveIsTracked
    <3>1. made[id].server \in ServerNames
      BY <2>0, TypeFacts
    <3>2. QED
      BY <1>1, <3>1 DEF ReloadInv, ServerFits, RouteFits, Handled
  <2>2. RoutedIsTracked
    BY <1>1 DEF ReloadInv, ServerFits, RouteFits, RoutedIsTracked
  <2>3. DisconnectedHasEnded
    BY <1>1 DEF ReloadInv, EndFits, DisconnectedHasEnded
  <2>4. QED
    BY <2>1, <2>2, <2>3 DEF ConnectionsAreTracked
<1>2. TableFitsFile /\ ConnectionsAreTracked => ServersFollowFile
  BY DEF ServersFollowFile
<1>3. QED
  BY <1>1, <1>2, TableFollowsFile, ReloadInvInit, ReloadInvStep, PTL DEF LifecycleSpec

(* And a server that is gone from the file has no route left that its      *)
(* handlers made.                                                          *)
THEOREM RemovedHaveNoRoute == LifecycleSpec => []RemovedServersStop
<1>1. ASSUME ReloadInv PROVE RemovedServersStop
  <2> SUFFICES ASSUME NEW s \in ServerNames, config[s].mode = "absent", Handled(s),
                      outbound[s] # NoRoute
               PROVE  made[outbound[s].transport].by \in {"boot", "other"}
    BY DEF RemovedServersStop
  <2>1. ReloadTypes /\ TableFits(s) /\ RouteFits(s)
    BY <1>1 DEF ReloadInv, ServerFits
  <2>2. made[outbound[s].transport] \in Transports
    BY <2>1, TypeFacts DEF RouteFits
  <2>3. made[outbound[s].transport].by \in {"boot", "start", "retry", "other"}
    BY <2>2 DEF Transports
  <2>4. made[outbound[s].transport].by # "start"
    <3> SUFFICES ASSUME made[outbound[s].transport].by = "start" PROVE FALSE
      OBVIOUS
    <3>1. outbound[s].transport = mcpServers[s] /\ outbound[s].transport # 0
      BY <2>1 DEF RouteFits, Handled
    <3>2. TransportFits(s)
      BY <2>1, <3>1 DEF TableFits, Untracked
    <3>3. QED
      BY <3>2 DEF TransportFits
  <2>5. QED
    BY <2>1, <2>3, <2>4 DEF RouteFits
<1>2. QED
  BY <1>1, ReloadInvInit, ReloadInvStep, PTL DEF LifecycleSpec

=============================================================================
