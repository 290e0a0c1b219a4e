----------------------------- MODULE PresetFiles -----------------------------
(***************************************************************************)
(* presets.json: the running server and the commands that edit presets     *)
(* (domains/preset/manager/presetManager.ts, commands/preset/*.ts).        *)
(*                                                                         *)
(* Every process has a PresetManager of its own: it holds all presets in   *)
(* memory, saves by writing all of them, and watches the file.  A save     *)
(* suspends before it takes what is in memory, and truncates the file      *)
(* before it writes.  The server compares the server lists of before and   *)
(* after a reload, which suspends to read the file, and tells the clients  *)
(* of the presets whose list is another one.                               *)
(*                                                                         *)
(* The debounce has one reference to its timer, which the end of a reload  *)
(* clears, whatever timer it is of: two timers may then be pending, and    *)
(* their reloads overlap.  A timer that is set while a reload is under way *)
(* does not fire before the end of that reload, which the delay of half a  *)
(* second is long for.  Events outstanding at once are one.                *)
(*                                                                         *)
(* What a query is, how one is made and whom it selects is a parameter:    *)
(* TagQueries has it.  The theorem at the end holds of any queries.        *)
(***************************************************************************)
EXTENDS Integers, Sequences, SequencesExt, FiniteSets, TLAPS

CONSTANTS
    Presets,      \* preset names
    Initial,      \* the file the server is started with
    Editors,      \* processes of preset commands
    Strategies,   \* of a selection
    ServersOf(_, _), \* of the configured servers, those a preset's query selects
    Configured,   \* the servers configured, as the configuration may be
    AtFirst,      \* ... and as it is at first
    QueryOfText(_),         \* what `preset create` makes of a filter
    SelectionOf(_),         \* query -> tag -> its state in a selection
    QueryOfSelection(_, _), \* and back, by a strategy
    Symbols,      \* bound: what is typed
    Followed,     \* bound: queries that `preset create` saves in this instance
    MaxSymbols,   \* bound: symbols typed
    MaxPresses,   \* bound: keys pressed in a selection
    MaxTasks,     \* bound: commands
    MaxTimers,    \* bound: timers pending
    MaxReloads    \* bound: reloads of the server under way

None == [op |-> "no preset"]
Server == "server"
Procs == Editors \cup {Server}

ASSUME PresetConstants ==
    /\ Server \notin Editors
    /\ AtFirst \in Configured
    /\ MaxReloads \in Nat

VARIABLES
    file,       \* presets.json
    memory,     \* process -> presets it holds
    due,        \* processes with an event outstanding, editors with a timer too
    timers,     \* the server's pending timers in order, each with the reloads
                \* that were under way when it was set
    held,       \* reloadTimeout is the last of them
    reloads,    \* the server's: the lists of before, what each has read
    moved,      \* reload -> presets whose list has changed since it began
    available,  \* the servers configured
    editors,    \* process -> the command it is at
    typed,      \* the filter of the first `preset create`
    tasks,      \* commands so far
    told,       \* preset -> the servers its clients were last told of
    behind      \* presets whose list changed behind the back of a reload since

debounceVars == <<timers, held>>
serverVars == <<debounceVars, reloads, moved, available, told, behind>>
vars == <<file, memory, due, editors, typed, tasks, serverVars>>

Whole(content) == [state |-> "whole", has |-> content]
Unread(state) == [state |-> state, has |-> [n \in Presets |-> None]]
Idle == [at |-> "idle"]
Running == {e \in Editors : editors[e] # Idle}
NoReload == [at |-> "none"]
Slots == 1 .. MaxReloads
UnderWay == {r \in Slots : reloads[r].at # "none"}

Lists(content) == [n \in Presets |-> ServersOf(available, content[n])]

Init ==
    /\ file = Whole(Initial)
    /\ memory = [p \in Procs |-> Initial]
    /\ due = {}
    /\ timers = <<>> /\ held = FALSE
    /\ reloads = [r \in Slots |-> NoReload]
    /\ moved = [r \in Slots |-> {}]
    /\ available = AtFirst
    /\ editors = [e \in Editors |-> Idle]
    /\ typed = <<>>
    /\ tasks = 0
    /\ told = Lists(Initial)
    /\ behind = {}

-----------------------------------------------------------------------------
(* The first command is typed before anything else happens.                *)
Type(symbol) ==
    /\ tasks = 0
    /\ Len(typed) < MaxSymbols
    /\ typed' = Append(typed, symbol)
    /\ UNCHANGED <<file, memory, due, editors, tasks, serverVars>>

(* initialize: it fails on a file that cannot be read.                     *)
Start(e) ==
    /\ editors[e] = Idle
    /\ tasks < MaxTasks
    /\ file.state = "whole"
    /\ tasks' = tasks + 1
    /\ memory' = [memory EXCEPT ![e] = file.has]
    /\ editors' = [editors EXCEPT ![e] = [at |-> "open"]]
    /\ typed' = IF QueryOfText(typed) \in Followed THEN typed ELSE <<>>
    /\ UNCHANGED <<file, due, serverVars>>

(* savePreset and deletePreset change what is in memory and go on to save. *)
Saves(e, n, query) ==
    /\ memory' = [memory EXCEPT ![e][n] = query]
    /\ editors' = [editors EXCEPT ![e] = [at |-> "saving"]]

Create(e, n) ==
    /\ editors[e].at = "open"
    /\ typed # <<>>
    /\ Saves(e, n, QueryOfText(typed))
    /\ typed' = <<>>
    /\ UNCHANGED <<file, due, tasks, serverVars>>

deletePreset(e, n) == memory[e][n] # None /\ Saves(e, n, None)

Delete(e, n) ==
    /\ editors[e].at = "open"
    /\ deletePreset(e, n)
    /\ UNCHANGED <<file, due, typed, tasks, serverVars>>

(* editCommand and selectTagsInteractive; the query is the one of the file *)
(* when the selection opened.                                              *)
Edit(e, n, strategy) ==
    /\ editors[e].at = "open"
    /\ memory[e][n] # None
    /\ editors' = [editors EXCEPT ![e] =
           [at |-> "select", name |-> n, strategy |-> strategy, query |-> memory[e][n],
            selection |-> SelectionOf(memory[e][n]), presses |-> 0]]
    /\ UNCHANGED <<file, memory, due, typed, tasks, serverVars>>

CycleTagState(state) ==
    CASE state = "empty" -> "selected"
      [] state = "selected" -> "not-selected"
      [] state = "not-selected" -> "empty"

Press(e) ==
    /\ editors[e].at = "select"
    /\ editors[e].presses < MaxPresses
    /\ \E t \in DOMAIN editors[e].selection :
          editors' = [editors EXCEPT ![e].selection[t] = CycleTagState(@), ![e].presses = @ + 1]
    /\ UNCHANGED <<file, memory, due, typed, tasks, serverVars>>

Enter(e) ==
    /\ editors[e].at = "select"
    /\ Saves(e, editors[e].name, QueryOfSelection(editors[e].selection, editors[e].strategy))
    /\ UNCHANGED <<file, due, typed, tasks, serverVars>>

Back(e) ==
    /\ editors[e].at = "select"
    /\ editors' = [editors EXCEPT ![e] = [at |-> "open"]]
    /\ UNCHANGED <<file, memory, due, typed, tasks, serverVars>>

Ends(e) ==
    /\ editors' = [editors EXCEPT ![e] = Idle]
    /\ memory' = [memory EXCEPT ![e] = Initial]

(* savePresets, after it has awaited the directory.                        *)
Truncate(e) ==
    /\ editors[e].at = "saving"
    /\ editors' = [editors EXCEPT ![e] = [at |-> "writing", copy |-> memory[e]]]
    /\ file' = Unread("empty")
    /\ due' = Running \cup {Server}
    /\ UNCHANGED <<memory, typed, tasks, serverVars>>

Write(e) ==
    /\ editors[e].at = "writing"
    /\ \/ file' = Whole(editors[e].copy)
       \/ file.state # "empty" /\ file' = Unread("garbled")
    /\ Ends(e)
    /\ due' = (Running \ {e}) \cup {Server}
    /\ UNCHANGED <<typed, tasks, serverVars>>

(* The command ends, by Escape, Ctrl-C or a signal.                        *)
Quit(e) ==
    /\ editors[e] # Idle
    /\ Ends(e)
    /\ due' = due \ {e}
    /\ UNCHANGED <<file, typed, tasks, serverVars>>

-----------------------------------------------------------------------------
(* An editor's reload; its server lists are of no interest to anyone.      *)
EditorReloads(e) ==
    /\ e \in due
    /\ due' = due \ {e}
    /\ memory' = IF file.state = "whole" THEN [memory EXCEPT ![e] = file.has] ELSE memory
    /\ UNCHANGED <<file, editors, typed, tasks, serverVars>>

(* The watcher's callback: the timer that is held is stopped, and another  *)
(* set.                                                                    *)
Watch ==
    /\ Server \in due
    /\ held \/ Len(timers) < MaxTimers
    /\ due' = due \ {Server}
    /\ timers' = Append(IF held THEN Front(timers) ELSE timers, UnderWay)
    /\ held' = TRUE
    /\ UNCHANGED <<file, memory, editors, typed, tasks, reloads, moved, available, told, behind>>

(* The first timer fires: reloadAndNotifyChanges up to its await.          *)
Fire(r) ==
    /\ timers # <<>> /\ Head(timers) = {}
    /\ r \notin UnderWay /\ \A q \in 1 .. r - 1 : q \in UnderWay
    /\ timers' = Tail(timers)
    /\ held' = (held /\ Len(timers) > 1)
    /\ reloads' = [reloads EXCEPT ![r] = [at |-> "reading", before |-> Lists(memory[Server])]]
    /\ UNCHANGED <<file, memory, due, editors, typed, tasks, moved, available, told, behind>>

Read(r) ==
    /\ reloads[r].at = "reading"
    /\ reloads' = [reloads EXCEPT ![r] =
           [at |-> "read", before |-> reloads[r].before, copy |-> file]]
    /\ UNCHANGED <<file, memory, due, editors, typed, tasks, debounceVars, moved, available, told, behind>>

(* The lists of some presets change under these reloads.                   *)
Move(ns, rs) == moved' = [r \in Slots |-> IF r \in rs THEN moved[r] \cup ns ELSE {}]

(* Mutant of Tells: a list of the same length counts as the same.          *)
TellsByLength(n, content, before) ==
    \/ content[n] = None
    \/ Cardinality(ServersOf(available, content[n])) # Cardinality(before[n])

(* Whether a reload tells the clients of a preset; those of one that was   *)
(* deleted find out by an error.                                           *)
Tells(n, content, before) ==
    content[n] = None \/ ServersOf(available, content[n]) # before[n]

(* Mutant of EndsReload: the timer of an event that came in while it read  *)
(* is stopped.                                                             *)
EndsReloadAndTimer(r) ==
    /\ timers' = LET left == IF held THEN Front(timers) ELSE timers
                 IN  [i \in DOMAIN left |-> left[i] \ {r}]
    /\ held' = FALSE

(* finally: the reference is cleared, not the timer.                       *)
EndsReload(r) ==
    /\ timers' = [i \in DOMAIN timers |-> timers[i] \ {r}]
    /\ held' = FALSE

(* loadPresets has read the file; one that is broken changes nothing.      *)
Reload(r) ==
    /\ reloads[r].at = "read"
    /\ EndsReload(r)
    /\ reloads' = [reloads EXCEPT ![r] = NoReload]
    /\ LET content == reloads[r].copy.has
           telling == {n \in Presets : Tells(n, content, reloads[r].before)}
           change  == {n \in Presets : Lists(content)[n] # Lists(memory[Server])[n]}
       IN  IF reloads[r].copy.state = "whole"
           THEN /\ memory' = [memory EXCEPT ![Server] = content]
                /\ told' = [n \in Presets |-> IF n \in telling THEN Lists(content)[n] ELSE told[n]]
                /\ behind' = (behind \cup moved[r]) \ telling
                /\ Move(change, UnderWay \ {r})
           ELSE Move({}, UnderWay \ {r}) /\ UNCHANGED <<memory, told, behind>>
    /\ UNCHANGED <<file, due, editors, typed, tasks, available>>

(* The configuration of the servers, which testPreset reads, changes, once *)
(* in this instance.                                                       *)
Reconfigure ==
    /\ tasks > 0 /\ available = AtFirst
    /\ \E c \in Configured :
          LET change == {n \in Presets :
                            ServersOf(c, memory[Server][n]) # Lists(memory[Server])[n]}
          IN  /\ available' = c
              /\ behind' = behind \cup change
              /\ Move(change, UnderWay)
    /\ UNCHANGED <<file, memory, due, editors, typed, tasks, debounceVars, reloads, told>>

Next ==
    \/ \E symbol \in Symbols : Type(symbol)
    \/ \E e \in Editors :
          \/ Start(e) \/ Truncate(e) \/ Write(e) \/ Quit(e) \/ EditorReloads(e)
          \/ \E n \in Presets :
                Create(e, n) \/ Delete(e, n) \/ \E strategy \in Strategies : Edit(e, n, strategy)
          \/ Press(e) \/ Enter(e) \/ Back(e)
    \/ Watch \/ \E r \in Slots : Fire(r) \/ Read(r) \/ Reload(r)
    \/ Reconfigure

(* Events of the file arrive, timers fire and reads come back.             *)
Spec ==
    /\ Init /\ [][Next]_vars
    /\ WF_vars(Watch) /\ WF_vars(\E r \in Slots : Fire(r))
    /\ \A r \in Slots : WF_vars(Read(r) \/ Reload(r))
-----------------------------------------------------------------------------
(* What clients were told last is what their preset gives, through torn    *)
(* reads, deletions, edits that lose each other and reloads that overlap;  *)
(* but for a preset whose list changed behind the back of a reload, by the *)
(* configuration or by the end of another reload, until they are told of   *)
(* it again.                                                               *)
ToldIsCurrent == \A n \in Presets \ behind : told[n] = Lists(memory[Server])[n]

(* Refuted: clients are told whenever their list changes; the configuration*)
(* changes it as well.                                                     *)
ToldAlways == told = Lists(memory[Server])

(* The server comes to hold what is in a file that can be read, if nothing *)
(* writes to it any more.                                                  *)
ServerFollowsFile ==
    [](file.state = "whole" =>
       <>(file.state # "whole" \/ memory[Server] = file.has))

-----------------------------------------------------------------------------
(***************************************************************************)
(* A reload compares with the lists there were when its timer fired.  They *)
(* are those of now but for the presets that moved under it; and a preset  *)
(* it says nothing about has the list that its clients were told before.   *)
(***************************************************************************)
BeforeFits(r) == \A n \in Presets \ moved[r] : reloads[r].before[n] = Lists(memory[Server])[n]

PresetInv ==
    /\ memory = [p \in Procs |-> memory[p]]
    /\ reloads = [r \in Slots |-> reloads[r]]
    /\ moved = [r \in Slots |-> moved[r]]
    /\ \A r \in Slots : r \notin UnderWay => moved[r] = {}
    /\ \A r \in UnderWay : BeforeFits(r)
    /\ ToldIsCurrent

(* A step that leaves the server's presets, their lists and its reloads    *)
(* alone.                                                                  *)
LEMMA QuietInv ==
    ASSUME PresetInv, UNCHANGED <<reloads, moved, available, told, behind>>,
           memory' = [p \in Procs |-> memory'[p]], memory'[Server] = memory[Server]
    PROVE  PresetInv'
<1>1. Lists(memory[Server])' = Lists(memory[Server])
  BY DEF Lists
<1>2. UnderWay' = UnderWay
  BY DEF UnderWay
<1>3. \A r \in UnderWay' : BeforeFits(r)'
  BY <1>1, <1>2 DEF PresetInv, BeforeFits
<1>4. ToldIsCurrent'
  BY <1>1 DEF PresetInv, ToldIsCurrent
<1>5. \A r \in Slots : r \notin UnderWay' => moved'[r] = {}
  BY <1>2 DEF PresetInv
<1>6. QED
  BY <1>3, <1>4, <1>5 DEF PresetInv

(* The end of a reload: the others compare with the lists of before.       *)
LEMMA OthersFit ==
    ASSUME PresetInv, NEW r \in Slots, NEW ns, UNCHANGED available,
           reloads' = [reloads EXCEPT ![r] = NoReload], Move(ns, UnderWay \ {r}),
           \A n \in Presets \ ns : Lists(memory[Server])'[n] = Lists(memory[Server])[n]
    PROVE  /\ reloads' = [q \in Slots |-> reloads'[q]]
           /\ moved' = [q \in Slots |-> moved'[q]]
           /\ \A q \in Slots : q \notin UnderWay' => moved'[q] = {}
           /\ \A q \in UnderWay' : BeforeFits(q)'
<1>1. reloads' = [q \in Slots |-> reloads'[q]] /\ moved' = [q \in Slots |-> moved'[q]]
  BY DEF PresetInv, Move
<1>2. UnderWay' = UnderWay \ {r} /\ \A q \in UnderWay' : reloads'[q] = reloads[q]
  BY DEF UnderWay, NoReload, PresetInv
<1>3. \A q \in Slots : moved'[q] = IF q \in UnderWay' THEN moved[q] \cup ns ELSE {}
  BY <1>2 DEF Move
<1>4. ASSUME NEW q \in UnderWay' PROVE BeforeFits(q)'
  <2>1. q \in Slots /\ q \in UnderWay
    BY <1>2 DEF UnderWay
  <2>2. ASSUME NEW n \in Presets \ moved'[q]
        PROVE  reloads'[q].before[n] = Lists(memory[Server])'[n]
    BY <1>2, <1>3, <2>1 DEF PresetInv, BeforeFits
  <2>3. QED
    BY <2>2 DEF BeforeFits
<1>5. QED
  BY <1>1, <1>3, <1>4

(* For any presets, queries, editors, torn files, overlapping reloads and  *)
(* changes of the configuration: a preset's clients were told of the       *)
(* servers it gives, unless its list changed behind the back of a reload.  *)
THEOREM ToldStaysCurrent == Spec => []ToldIsCurrent
<1>1. Init => PresetInv
  <2> SUFFICES ASSUME Init PROVE PresetInv
    OBVIOUS
  <2>1. UnderWay = {}
    BY DEF Init, UnderWay, NoReload
  <2>2. told = Lists(memory[Server])
    BY DEF Init, Procs
  <2>3. QED
    BY <2>1, <2>2 DEF Init, PresetInv, ToldIsCurrent
<1>2. PresetInv /\ [Next]_vars => PresetInv'
  <2> SUFFICES ASSUME PresetInv, [Next]_vars PROVE PresetInv'
    OBVIOUS
  <2>1. memory = [p \in Procs |-> memory[p]] /\ Server \in Procs
    BY DEF PresetInv, Procs
  <2>2. ASSUME NEW e \in Editors, NEW content, memory' = [memory EXCEPT ![e] = content]
        PROVE  memory' = [p \in Procs |-> memory'[p]] /\ memory'[Server] = memory[Server]
    BY <2>1, <2>2, PresetConstants
  <2>3. CASE \E symbol \in Symbols : Type(symbol)
    BY <2>1, <2>3, QuietInv DEF Type, serverVars
  <2>4. ASSUME NEW e \in Editors,
               \/ Start(e) \/ Truncate(e) \/ Write(e) \/ Quit(e) \/ EditorReloads(e)
               \/ \E n \in Presets :
                     Create(e, n) \/ Delete(e, n) \/ \E strategy \in Strategies : Edit(e, n, strategy)
               \/ Press(e) \/ Enter(e) \/ Back(e)
        PROVE  PresetInv'
    <3>1. UNCHANGED <<reloads, moved, available, told, behind>>
      BY <2>4 DEF Start, Truncate, Write, Quit, EditorReloads, Create, Delete, Edit, Press, Enter,
                  Back, serverVars
    <3>2. UNCHANGED memory \/ \E content : memory' = [memory EXCEPT ![e] = content]
      <4>1. ASSUME NEW n, NEW query, Saves(e, n, query)
            PROVE  \E content : memory' = [memory EXCEPT ![e] = content]
        BY <4>1 DEF Saves
      <4>2. QED
        BY <2>4, <4>1
        DEF Start, Truncate, Write, Quit, Ends, EditorReloads, Create, Delete, deletePreset, Edit,
            Press, Enter, Back
    <3>3. QED
      BY <2>1, <2>2, <3>1, <3>2, QuietInv
  <2>5. CASE Watch
    BY <2>1, <2>5, QuietInv DEF Watch
  <2>6. ASSUME NEW r \in Slots, Fire(r) PROVE PresetInv'
    <3>1. /\ r \notin UnderWay /\ UNCHANGED <<memory, moved, available, told, behind>>
          /\ reloads' = [reloads EXCEPT ![r] = [at |-> "reading", before |-> Lists(memory[Server])]]
      BY <2>6 DEF Fire
    <3>2. Lists(memory[Server])' = Lists(memory[Server])
      BY <3>1 DEF Lists
    <3>3. /\ reloads' = [q \in Slots |-> reloads'[q]] /\ UnderWay' = UnderWay \cup {r}
          /\ reloads'[r].before = Lists(memory[Server])
          /\ \A q \in UnderWay : reloads'[q] = reloads[q]
      BY <3>1 DEF UnderWay, PresetInv
    <3>4. \A q \in UnderWay' : BeforeFits(q)'
      BY <3>1, <3>2, <3>3 DEF PresetInv, BeforeFits
    <3>5. ToldIsCurrent'
      BY <3>1, <3>2 DEF PresetInv, ToldIsCurrent
    <3>6. QED
      BY <2>1, <3>1, <3>3, <3>4, <3>5 DEF PresetInv
  <2>7. ASSUME NEW r \in Slots, Read(r) PROVE PresetInv'
    <3>1. /\ UNCHANGED <<memory, moved, available, told, behind>>
          /\ reloads[r].at = "reading"
          /\ reloads' = [reloads EXCEPT ![r] =
                 [at |-> "read", before |-> reloads[r].before, copy |-> file]]
      BY <2>7 DEF Read
    <3>2. Lists(memory[Server])' = Lists(memory[Server])
      BY <3>1 DEF Lists
    <3>3. /\ reloads' = [q \in Slots |-> reloads'[q]] /\ UnderWay' = UnderWay
          /\ \A q \in UnderWay : reloads'[q].before = reloads[q].before
      BY <3>1 DEF UnderWay, PresetInv
    <3>4. ASSUME NEW q \in UnderWay' PROVE BeforeFits(q)'
      <4>1. q \in UnderWay /\ moved' = moved
        BY <3>1, <3>3
      <4>2. reloads'[q].before = reloads[q].before /\ BeforeFits(q)
        BY <3>3, <4>1 DEF PresetInv
      <4>3. QED
        BY <3>2, <4>1, <4>2 DEF BeforeFits
    <3>5. ToldIsCurrent'
      BY <3>1, <3>2 DEF PresetInv, ToldIsCurrent
    <3>6. QED
      BY <2>1, <3>1, <3>3, <3>4, <3>5 DEF PresetInv
  <2>8. ASSUME NEW r \in Slots, Reload(r) PROVE PresetInv'
    <3>1. /\ r \in UnderWay /\ UNCHANGED available
          /\ reloads' = [reloads EXCEPT ![r] = NoReload]
      BY <2>8 DEF Reload, UnderWay
    <3>2. CASE reloads[r].copy.state # "whole"
      <4>1. Move({}, UnderWay \ {r}) /\ UNCHANGED <<memory, told, behind>>
        BY <2>8, <3>2 DEF Reload
      <4>2. Lists(memory[Server])' = Lists(memory[Server])
        BY <3>1, <4>1 DEF Lists
      <4>3. ToldIsCurrent'
        BY <4>1, <4>2 DEF PresetInv, ToldIsCurrent
      <4>4. QED
        BY <2>1, <3>1, <4>1, <4>2, <4>3, OthersFit DEF PresetInv
    <3>3. CASE reloads[r].copy.state = "whole"
      <4>1. PICK content : content = reloads[r].copy.has
        OBVIOUS
      <4> DEFINE telling == {n \in Presets : Tells(n, content, reloads[r].before)}
                 change  == {n \in Presets : Lists(content)[n] # Lists(memory[Server])[n]}
      <4>2. /\ memory' = [memory EXCEPT ![Server] = content]
            /\ told' = [n \in Presets |-> IF n \in telling THEN Lists(content)[n] ELSE told[n]]
            /\ behind' = (behind \cup moved[r]) \ telling
            /\ Move(change, UnderWay \ {r})
        BY <2>8, <3>3, <4>1 DEF Reload
      <4>3. memory' = [p \in Procs |-> memory'[p]] /\ memory'[Server] = content
        BY <2>1, <4>2
      <4>4. Lists(memory[Server])' = Lists(content)
        BY <3>1, <4>3 DEF Lists
      <4>5. \A n \in Presets \ change : Lists(memory[Server])'[n] = Lists(memory[Server])[n]
        BY <4>4
      <4>6. ASSUME NEW n \in Presets \ behind'
            PROVE  told'[n] = Lists(memory[Server])'[n]
        <5>1. CASE n \in telling
          BY <4>2, <4>4, <5>1
        <5>2. CASE n \notin telling
          <6>1. n \notin behind /\ n \notin moved[r]
            BY <4>2, <5>2
          <6>2. told[n] = reloads[r].before[n]
            BY <3>1, <6>1 DEF PresetInv, BeforeFits, ToldIsCurrent
          <6>3. reloads[r].before[n] = Lists(content)[n]
            BY <5>2 DEF Tells, Lists
          <6>4. QED
            BY <4>2, <4>4, <5>2, <6>2, <6>3
        <5>3. QED
          BY <5>1, <5>2
      <4>7. ToldIsCurrent'
        BY <4>6 DEF ToldIsCurrent
      <4> HIDE DEF telling, change
      <4>8. QED
        BY <3>1, <4>2, <4>3, <4>5, <4>7, OthersFit DEF PresetInv
    <3>4. QED
      BY <3>2, <3>3
  <2>9. CASE Reconfigure
    <3>1. PICK c \in Configured :
             LET change == {n \in Presets :
                               ServersOf(c, memory[Server][n]) # Lists(memory[Server])[n]}
             IN  /\ available' = c
                 /\ behind' = behind \cup change
                 /\ Move(change, UnderWay)
      BY <2>9 DEF Reconfigure
    <3> DEFINE change == {n \in Presets :
                             ServersOf(c, memory[Server][n]) # Lists(memory[Server])[n]}
    <3>2. /\ UNCHANGED <<memory, reloads, told>> /\ UnderWay' = UnderWay
          /\ behind' = behind \cup change /\ Move(change, UnderWay)
      BY <2>9, <3>1 DEF Reconfigure, UnderWay
    <3>3. \A n \in Presets \ change : Lists(memory[Server])'[n] = Lists(memory[Server])[n]
      BY <3>1, <3>2 DEF Lists
    <3>4. ToldIsCurrent'
      BY <3>2, <3>3 DEF PresetInv, ToldIsCurrent
    <3> HIDE DEF change
    <3>5. /\ moved' = [q \in Slots |-> moved'[q]]
          /\ \A q \in Slots : moved'[q] = IF q \in UnderWay THEN moved[q] \cup change ELSE {}
      BY <3>2 DEF Move
    <3>6. \A q \in UnderWay : q \in Slots /\ BeforeFits(q)'
      BY <3>2, <3>3, <3>5 DEF PresetInv, BeforeFits, UnderWay
    <3>7. QED
      BY <2>1, <3>2, <3>4, <3>5, <3>6 DEF PresetInv
  <2>10. CASE UNCHANGED vars
    BY <2>1, <2>10, QuietInv DEF vars, serverVars
  <2>11. QED
    BY <2>3, <2>4, <2>5, <2>6, <2>7, <2>8, <2>9, <2>10 DEF Next
<1>3. QED
  BY <1>1, <1>2, PTL DEF Spec, PresetInv
=============================================================================
