-------------------------- MODULE DurableStateProofs -------------------------
(***************************************************************************)
(* Theorems about DurableState, for any projects, tasks, plans and places  *)
(* where a Task value may be.                                              *)
(***************************************************************************)
EXTENDS DurableState, WellFoundedInduction, TLAPS

-----------------------------------------------------------------------------
(* The project.                                                             *)

\* The row of an open is the newest until the open is over, and the last active
\* project is the one reported or was opened after it; neither it nor the one
\* being saved has failed.  RecoversReportedProject alone is not inductive: the
\* second statement needs the row the first has made.
ProjectInv ==
  /\ projects \in Seq(Projects)
  /\ {last_active, reported} \subseteq Range(projects) \cup {None}
  /\ failed \subseteq Range(projects) \ {last_active, saving}
  /\ saving # None => projects # << >> /\ projects[Len(projects)] = saving
  /\ \/ last_active = reported
     \/ last_active # None /\ (reported # None => OpenedAfter(last_active, reported))

\* A new row takes none away.
LEMMA AppendKeeps ==
  ASSUME NEW S, NEW s \in Seq(S), NEW e \in S
  PROVE  \A i \in DOMAIN s : i \in DOMAIN Append(s, e) /\ Append(s, e)[i] = s[i]
OBVIOUS

\* The ids of the rows, after a new one.
LEMMA RowsAreKept ==
  ASSUME NEW S, NEW s \in Seq(S), NEW p \in S
  PROVE  /\ Append(s, p) \in Seq(S)
         /\ Range(Append(s, p)) = Range(s) \cup {p}
<1>1. Append(s, p) \in Seq(S)
  OBVIOUS
<1>2. /\ DOMAIN s = 1 .. Len(s)
      /\ DOMAIN Append(s, p) = 1 .. Len(s) + 1
      /\ Append(s, p)[Len(s) + 1] = p
      /\ \A i \in 1 .. Len(s) : Append(s, p)[i] = s[i]
      /\ Len(s) \in Nat
  OBVIOUS
<1>3. Range(Append(s, p)) \subseteq Range(s) \cup {p}
  BY <1>2 DEF Range
<1>4. Range(s) \cup {p} \subseteq Range(Append(s, p))
  BY <1>2 DEF Range
<1> QED BY <1>1, <1>3, <1>4

\* Task values are no part of the database or the session.
LEMMA TaskStepFrame ==
  ASSUME NEW h \in Holders, TaskStep(h) \/ \E t \in Tasks : LoadTask(h, t)
  PROVE  UNCHANGED <<disk, session, saving, reports>>
BY DEF TaskStep, LoadTask, NewTask, TakeActiveTask, Hold, Discard, Move, StartPlanning,
       Approve, Reject, Pause, Resume, SubmitForReview, RequestRevision, Accept,
       RequestApproval, reports

\* What is read is what there is, or nothing.
LEMMA LastActiveRead ==
  ASSUME ProjectInv, NEW p \in LoadLastActive
  PROVE  p \in {last_active, None}
BY DurableStateAssumption DEF ProjectInv, LoadLastActive, LoadProject, Ok

\* Every step keeps ProjectInv; the second statement of a save relies on the first.
LEMMA ProjectStep == ProjectInv /\ [Next]_vars => ProjectInv'
<1> SUFFICES ASSUME ProjectInv, [Next]_vars PROVE ProjectInv'
  OBVIOUS
<1>0. Len(projects) \in Nat /\ DOMAIN projects = 1 .. Len(projects)
  BY DEF ProjectInv
<1>1. ASSUME NEW p \in Projects, SaveProjectRow(p) PROVE ProjectInv'
  <2>1. projects' = Append(projects, p) /\ saving' = p /\ p \notin Range(projects)
    BY <1>1 DEF SaveProjectRow
  <2>2. UNCHANGED <<last_active, reported, failed>>
    BY <1>1 DEF SaveProjectRow, reports
  <2>3. projects' \in Seq(Projects) /\ Range(projects') = Range(projects) \cup {p}
    BY <2>1, RowsAreKept DEF ProjectInv
  <2>4. projects' # << >> /\ projects'[Len(projects')] = p
    BY <2>1, <1>0 DEF ProjectInv
  <2>5. \A q, r : OpenedAfter(q, r) => OpenedAfter(q, r)'
    <3>1. \A i \in DOMAIN projects : i \in DOMAIN projects' /\ projects'[i] = projects[i]
      BY <2>1, AppendKeeps DEF ProjectInv
    <3> QED BY <3>1 DEF OpenedAfter
  <2>6. p # last_active /\ p \notin failed
    BY <2>1, DurableStateAssumption DEF ProjectInv
  <2> QED BY <2>1, <2>2, <2>3, <2>4, <2>5, <2>6 DEF ProjectInv
<1>2. CASE SaveLastActive
  <2>1. /\ last_active' = saving /\ saving # None
        /\ UNCHANGED <<projects, saving, reported, failed>>
    BY <1>2 DEF SaveLastActive, reports
  <2>2. Len(projects) \in DOMAIN projects /\ saving \in Range(projects)
    BY <2>1, <1>0 DEF ProjectInv, Range
  <2>3. reported \notin {saving, None} => OpenedAfter(saving, reported)
    <3> SUFFICES ASSUME reported \notin {saving, None} PROVE OpenedAfter(saving, reported)
      OBVIOUS
    <3>1. PICK i \in DOMAIN projects : projects[i] = reported
      BY DEF ProjectInv, Range
    <3>2. i # Len(projects) /\ i \in 1 .. Len(projects)
      BY <3>1, <2>1, <1>0 DEF ProjectInv
    <3> QED BY <3>1, <3>2, <2>1, <2>2, <1>0 DEF ProjectInv, OpenedAfter
  <2> QED BY <2>1, <2>2, <2>3 DEF ProjectInv, OpenedAfter
<1>3. CASE SaveFails
  <2>1. /\ saving \in Range(projects) /\ saving # last_active /\ saving # None
        /\ saving' = None /\ UNCHANGED <<projects, last_active, reported>>
        /\ failed' \subseteq failed \cup {saving}
    BY <1>3, <1>0 DEF ProjectInv, SaveFails, Saved, disk, Range
  <2>2. None \notin Range(projects)
    BY DurableStateAssumption DEF ProjectInv, Range
  <2> QED BY <2>1, <2>2 DEF ProjectInv, OpenedAfter
<1>4. ASSUME UNCHANGED <<projects, last_active, failed>>,
             saving' \in {saving, None}, reported' \in {reported, last_active}
      PROVE  ProjectInv'
  <2>1. None \notin Range(projects)
    BY DurableStateAssumption DEF ProjectInv, Range
  <2> QED BY <1>4, <2>1 DEF ProjectInv, OpenedAfter
<1>5. CASE Report
  BY <1>4, <1>5 DEF Report, Saved, disk
<1>6. CASE Start
  <2>1. project' = None \/ project' = last_active
    BY <1>6, LastActiveRead DEF Start, Recover
  <2> QED BY <1>4, <1>6, <2>1 DEF Start, disk
<1>7. CASE NumbersEnd \/ Die
  BY <1>4, <1>7 DEF NumbersEnd, Die, disk, reports
<1>8. ASSUME NEW h \in Holders, RepositoryStep(h) \/ TaskStep(h) PROVE ProjectInv'
  <2>1. SaveTask(h) => UNCHANGED <<projects, last_active, saving, reports>>
    BY DEF SaveTask
  <2>2. UNCHANGED <<projects, last_active, saving, reports>>
    BY <1>8, <2>1, TaskStepFrame DEF RepositoryStep, disk
  <2> QED BY <1>4, <2>2 DEF reports
<1>9. CASE UNCHANGED vars
  BY <1>4, <1>9 DEF vars, disk, reports
<1> QED BY <1>1, <1>2, <1>3, <1>5, <1>6, <1>7, <1>8, <1>9 DEF Next

\* Wherever an open is cut short, and whichever of its statements fails, the
\* database leads a daemon that can read it to the project reported last, or to
\* a later one that was saved as a whole and not yet reported.
THEOREM RestartRecoversProject == Spec => []RecoversReportedProject
<1>1. Init => ProjectInv
  BY DEF Init, ProjectInv, Range
<1>2. ProjectInv => RecoversReportedProject
  BY DurableStateAssumption DEF ProjectInv, RecoversReportedProject, LoadProject
<1> QED BY <1>1, <1>2, ProjectStep, PTL DEF Spec

-----------------------------------------------------------------------------
(* Types.                                                                   *)

\* A set of positions of a sequence has a last one.
LEMMA LastExists ==
  ASSUME NEW n \in Nat, NEW I \in SUBSET (1 .. n), I # {}
  PROVE  Max(I) \in I /\ \A i \in I : i <= Max(I)
<1> DEFINE T == {n - i : i \in I}
           Less == {ss \in Nat \X Nat : ss[1] < ss[2]}
<1>1. T \subseteq Nat /\ T # {}
  <2>1. \A i \in I : i \in 1 .. n /\ n - i \in Nat
    OBVIOUS
  <2>2. PICK i \in I : TRUE
    OBVIOUS
  <2> QED BY <2>1, <2>2
<1>2. IsWellFoundedOn(Less, Nat)
  BY NatLessThanWellFounded DEF OpToRel
<1> HIDE DEF Less, T
<1>3. PICK x \in T : \A y \in T : ~ (<<y, x>> \in Less)
  BY <1>1, <1>2, WFMin
<1>4. PICK i \in I : x = n - i
  BY <1>3 DEF T
<1>5. \A j \in I : i >= j
  <2> TAKE j \in I
  <2>1. n - j \in T /\ n - j \in Nat /\ n - i \in Nat
    BY <1>1 DEF T
  <2>2. ~ (n - j < n - i)
    BY <2>1, <1>3, <1>4 DEF Less
  <2> QED BY <2>1, <2>2
<1> QED BY <1>4, <1>5 DEF Max

\* What SELECT finds is a row.
LEMMA RowFound ==
  ASSUME TypeOK
  PROVE  /\ \A t : Row(t) # 0 => Row(t) \in DOMAIN tasks /\ tasks[Row(t)].id = t
         /\ \A t : Row(t) = 0 => \A i \in DOMAIN tasks : tasks[i].id # t
         /\ \A p : \A i \in LoadActive(p) :
              i # None => /\ i \in ActiveRows(p)
                          /\ \A j \in ActiveRows(p) : j <= i
<1>1. tasks \in Seq(Rows) /\ DOMAIN tasks = 1 .. Len(tasks) /\ Len(tasks) \in Nat
  BY DEF TypeOK
<1>2. ASSUME NEW t
      PROVE  /\ Row(t) # 0 => Row(t) \in DOMAIN tasks /\ tasks[Row(t)].id = t
             /\ Row(t) = 0 => \A i \in DOMAIN tasks : tasks[i].id # t
  <2>1. CASE \E i \in DOMAIN tasks : tasks[i].id = t
    <3>1. Row(t) \in DOMAIN tasks /\ tasks[Row(t)].id = t
      BY <2>1 DEF Row
    <3> QED BY <3>1, <1>1
  <2>2. CASE ~ \E i \in DOMAIN tasks : tasks[i].id = t
    BY <2>2 DEF Row
  <2> QED BY <2>1, <2>2
<1>3. ASSUME NEW p, NEW i \in LoadActive(p), i # None
      PROVE  i \in ActiveRows(p) /\ \A j \in ActiveRows(p) : j <= i
  <2>1. ActiveRows(p) # {} /\ i = Max(ActiveRows(p))
    BY <1>3 DEF LoadActive, Ok, ActiveRow
  <2>2. ActiveRows(p) \in SUBSET (1 .. Len(tasks))
    BY <1>1 DEF ActiveRows
  <2> QED BY <1>1, <2>1, <2>2, LastExists
<1> QED BY <1>2, <1>3

\* What the columns give back is what was put into them, when it fits.
LEMMA RoundTrip ==
  ASSUME NEW b \in Budgets, Storable(b)
  PROVE  /\ ColumnsOf(b) \in Columns
         /\ Readable(ColumnsOf(b))
         /\ ParseBudget(ColumnsOf(b)) = b
<1> USE WidthsAssumption, NullAssumption
<1>1. \A n \in 1 .. MaxU64 : n # None /\ (Fits(n) => n \in Column)
  BY DEF Fits, Column
<1>2. /\ b = [memory |-> b.memory, disk |-> b.disk, tools |-> b.tools, limits |-> b.limits]
      /\ b.memory \in 1 .. MaxU64 /\ b.disk \in 1 .. MaxU64 /\ b.tools \in 1 .. MaxU16
      /\ b.limits \in Limits \cup {None}
  BY DEF Budgets
<1>3. CASE b.limits = None
  <2>1. ~ Limited(ColumnsOf(b))
    BY <1>3 DEF Limited, ColumnsOf
  <2> QED BY <1>1, <1>2, <1>3, <2>1 DEF Storable, ColumnsOf, Columns, Readable, ParseBudget
<1>4. CASE b.limits # None
  <2> DEFINE l == b.limits
  <2>1. /\ l = [prompt |-> l.prompt, completion |-> l.completion, cost |-> l.cost]
        /\ l.prompt \in 1 .. MaxU64 /\ l.completion \in 1 .. MaxU64 /\ l.cost \in 1 .. MaxU64
    BY <1>2, <1>4 DEF Limits
  <2>2. /\ ColumnsOf(b) = [memory |-> b.memory, disk |-> b.disk, tools |-> b.tools,
                          prompt |-> l.prompt, completion |-> l.completion, cost |-> l.cost]
        /\ Limited(ColumnsOf(b))
    BY <1>1, <1>4, <2>1 DEF ColumnsOf, Limited
  <2>3. {b.memory, b.disk, l.prompt, l.completion, l.cost} \subseteq Column
    BY <1>1, <1>2, <1>4, <2>1 DEF Storable
  <2> HIDE DEF l
  <2>4. ColumnsOf(b) \in Columns
    BY <1>2, <2>2, <2>3 DEF Columns
  <2>5. Readable(ColumnsOf(b))
    BY <1>2, <2>1, <2>2 DEF Readable
  <2>6. ParseBudget(ColumnsOf(b)) = b
    <3>1. ParseBudget(ColumnsOf(b)) = [memory |-> b.memory, disk |-> b.disk, tools |-> b.tools,
             limits |-> [prompt |-> l.prompt, completion |-> l.completion, cost |-> l.cost]]
      BY <2>2 DEF ParseBudget
    <3> QED BY <3>1, <1>2, <2>1 DEF l
  <2> QED BY <2>4, <2>5, <2>6
<1> QED BY <1>3, <1>4

\* A row gives back the budget its task was created with.
RowBudgets ==
  \A i \in DOMAIN tasks : /\ Readable(tasks[i].budget)
                          /\ ParseBudget(tasks[i].budget) = Budget[tasks[i].id]

\* A recovered task is a draft; the budget of a task is its own; a plan is there
\* when it is put to the user; and what is past that point was approved.
TaskInv ==
  /\ active_task # None => \E t \in Tasks : active_task = Draft(t)
  /\ \A h \in Holders : ~Free(h) => held[h].budget = Budget[held[h].id]
  /\ \A h \in Holders : ~Free(h) /\ held[h].state = "AwaitingApproval"
                          => held[h].plan \in Plans
  /\ OnlyApprovedPlansRun

IInv == TypeOK /\ RowBudgets /\ TaskInv

HeldTypes == /\ active_task \in TaskValues \cup {None}
             /\ held \in [Holders -> TaskValues \cup {None}]
             /\ approved \in SUBSET (Tasks \X Plans)

DiskTypes ==
  /\ projects \in Seq(Projects) /\ IsInjective(projects)
  /\ last_active \in Projects \cup {None}
  /\ tasks \in Seq(Rows)
  /\ \A i, j \in DOMAIN tasks : tasks[i].id = tasks[j].id => i = j
  /\ \A i \in DOMAIN tasks : tasks[i].project \in Range(projects)
  /\ up \in BOOLEAN /\ numbered \in BOOLEAN
  /\ project \in Projects \cup {None}
  /\ saving \in Projects \cup {None}
  /\ reported \in Projects \cup {None} /\ failed \in SUBSET Projects

DiskInv == DiskTypes /\ RowBudgets

\* The type invariant, by what a step can disturb.
LEMMA TypeParts == TypeOK <=> DiskTypes /\ HeldTypes
BY DEF TypeOK, DiskTypes, HeldTypes

-----------------------------------------------------------------------------
(* The database keeps its types, keys and references.                       *)

\* A saved task gets a new row or replaces its own.
LEMMA SavedRow ==
  ASSUME IInv, NEW h \in Holders, SaveTask(h)
  PROVE  /\ tasks' \in Seq(Rows)
         /\ \A i, j \in DOMAIN tasks' : tasks'[i].id = tasks'[j].id => i = j
         /\ \A i \in DOMAIN tasks' : tasks'[i].project \in Range(projects)
         /\ RowBudgets'
<1> DEFINE task == held[h]
           n == Len(tasks)
           Kept(row) == /\ Readable(row.budget)
                        /\ ParseBudget(row.budget) = Budget[row.id]
<1>1. PICK p \in ProjectForNew : /\ Row(task.id) # 0 \/ p \in Range(projects)
                                /\ tasks' = Upsert(task, p)
  BY DEF SaveTask
<1>t. task \in TaskValues
  BY DEF IInv, TypeOK, SaveTask, Free
<1>2. /\ tasks \in Seq(Rows) /\ n \in Nat /\ DOMAIN tasks = 1 .. n
      /\ \A i \in 1 .. n : tasks[i] \in Rows /\ tasks[i].project \in Range(projects)
      /\ \A i, j \in 1 .. n : tasks[i].id = tasks[j].id => i = j
      /\ \A i \in 1 .. n : Kept(tasks[i])
  BY DEF IInv, TypeOK, RowBudgets
<1>3. Range(projects) \subseteq Projects
  BY DEF IInv, TypeOK, Range
<1>4. \A q \in Projects : /\ RowOf(task, q) \in Rows
                          /\ RowOf(task, q).id = task.id
                          /\ RowOf(task, q).project = q
                          /\ Kept(RowOf(task, q))
  <2>1. /\ task.budget \in Budgets /\ Storable(task.budget)
        /\ task.budget = Budget[task.id]
    BY <1>t DEF TaskValues, SaveTask, IInv, TaskInv
  <2>2. /\ ColumnsOf(task.budget) \in Columns /\ Readable(ColumnsOf(task.budget))
        /\ ParseBudget(ColumnsOf(task.budget)) = Budget[task.id]
    BY <2>1, RoundTrip
  <2> QED BY <1>t, <2>2 DEF TaskValues, Rows, RowOf, IsTerminal
<1>5. CASE Row(task.id) = 0
  <2> DEFINE r == RowOf(task, p)
  <2>1. p \in Range(projects)
    BY <1>1, <1>5
  <2>2. r \in Rows /\ r.id = task.id /\ r.project \in Range(projects) /\ Kept(r)
    BY <2>1, <1>3, <1>4
  <2>3. \A i \in 1 .. n : tasks[i].id # task.id
    BY <1>2, <1>5, RowFound DEF IInv
  <2> HIDE DEF r
  <2>4. tasks' = Append(tasks, r)
    BY <1>1, <1>5 DEF Upsert, r
  <2>5. /\ tasks' \in Seq(Rows) /\ DOMAIN tasks' = 1 .. n + 1
        /\ tasks'[n + 1] = r /\ \A i \in 1 .. n : tasks'[i] = tasks[i]
    BY <2>2, <2>4, <1>2
  <2>6. ASSUME NEW i \in 1 .. n + 1, NEW j \in 1 .. n + 1,
               tasks'[i].id = tasks'[j].id
        PROVE  i = j
    <3>1. (i \in 1 .. n \/ i = n + 1) /\ (j \in 1 .. n \/ j = n + 1)
      BY <1>2
    <3> QED BY <3>1, <2>6, <2>5, <2>3, <2>2, <1>2
  <2>7. ASSUME NEW i \in 1 .. n + 1 PROVE tasks'[i].project \in Range(projects)
    <3>1. i \in 1 .. n \/ i = n + 1
      BY <1>2
    <3> QED BY <3>1, <2>5, <2>2, <1>2
  <2>8. ASSUME NEW i \in 1 .. n + 1 PROVE Kept(tasks'[i])
    <3>1. i \in 1 .. n \/ i = n + 1
      BY <1>2
    <3> QED BY <3>1, <2>5, <2>2, <1>2
  <2> QED BY <2>5, <2>6, <2>7, <2>8 DEF RowBudgets
<1>6. CASE Row(task.id) # 0
  <2> DEFINE k == Row(task.id)
             r == RowOf(task, tasks[k].project)
  <2>1. k \in 1 .. n /\ tasks[k].id = task.id
    BY <1>2, <1>6, RowFound DEF IInv
  <2>2. r \in Rows /\ r.id = task.id /\ r.project = tasks[k].project /\ Kept(r)
    BY <2>1, <1>2, <1>3, <1>4
  <2>3. tasks' = [tasks EXCEPT ![k] = r]
    BY <1>1, <1>6 DEF Upsert
  <2> HIDE DEF r, k
  <2>4. /\ tasks' \in Seq(Rows) /\ DOMAIN tasks' = 1 .. n
        /\ \A i \in 1 .. n : /\ tasks'[i].id = tasks[i].id
                             /\ tasks'[i].project = tasks[i].project
                             /\ Kept(tasks'[i])
    BY <2>1, <2>2, <2>3, <1>2
  <2> QED BY <2>4, <1>2 DEF RowBudgets
<1> QED BY <1>5, <1>6

\* Every step keeps the database's part of the invariant.
LEMMA DiskStep == IInv /\ [Next]_vars => DiskInv'
<1> SUFFICES ASSUME IInv, [Next]_vars PROVE DiskInv'
  OBVIOUS
<1>0. DiskInv
  BY TypeParts DEF IInv, DiskInv
<1>1. ASSUME NEW p \in Projects, SaveProjectRow(p) PROVE DiskInv'
  <2>1. projects' = Append(projects, p) /\ p \notin Range(projects)
    BY <1>1 DEF SaveProjectRow
  <2>2. projects' \in Seq(Projects) /\ Range(projects') = Range(projects) \cup {p}
    BY <2>1, <1>0, RowsAreKept DEF DiskInv, DiskTypes, RowBudgets
  <2>3. IsInjective(projects')
    <3>1. /\ DOMAIN projects' = 1 .. Len(projects) + 1 /\ Len(projects) \in Nat
          /\ projects'[Len(projects) + 1] = p
          /\ \A i \in 1 .. Len(projects) : /\ projects'[i] = projects[i]
                                           /\ projects[i] \in Range(projects)
          /\ \A i, j \in 1 .. Len(projects) : projects[i] = projects[j] => i = j
      BY <2>1, <1>0 DEF DiskInv, DiskTypes, RowBudgets, Range, IsInjective
    <3>2. \A i \in DOMAIN projects' : i \in 1 .. Len(projects) \/ i = Len(projects) + 1
      BY <3>1
    <3> QED BY <3>1, <3>2, <2>1 DEF IsInjective
  <2>4. UNCHANGED <<last_active, tasks, session, reports>> /\ saving' = p
    BY <1>1 DEF SaveProjectRow
  <2> QED BY <2>2, <2>3, <2>4, <1>0 DEF DiskInv, DiskTypes, RowBudgets, session, reports
<1>2. CASE SaveLastActive
  BY <1>0, <1>2 DEF SaveLastActive, DiskInv, DiskTypes, RowBudgets, session, reports
<1>3. CASE SaveFails
  BY <1>0, <1>3 DEF SaveFails, DiskInv, DiskTypes, RowBudgets, disk, session
<1>4. CASE Report
  BY <1>0, <1>4 DEF Report, DiskInv, DiskTypes, RowBudgets, disk
<1>5. CASE NumbersEnd \/ Die
  BY <1>0, <1>5 DEF NumbersEnd, Die, DiskInv, DiskTypes, RowBudgets, disk, reports
<1>6. CASE Start
  <2>1. LoadLastActive \subseteq Projects \cup {None}
    BY <1>0 DEF LoadLastActive, LoadProject, Ok, DiskInv, DiskTypes
  <2>2. project' \in Projects \cup {None}
    BY <1>6, <2>1 DEF Start, Recover
  <2> QED BY <1>0, <1>6, <2>2 DEF Start, DiskInv, DiskTypes, RowBudgets, disk
<1>7. ASSUME NEW h \in Holders, SaveTask(h) PROVE DiskInv'
  <2>1. UNCHANGED <<projects, last_active, session, saving, reports>>
    BY <1>7 DEF SaveTask
  <2> QED BY <1>0, <1>7, <2>1, SavedRow DEF DiskInv, DiskTypes, RowBudgets, session, reports
<1>8. ASSUME UNCHANGED <<disk, session, saving, reports>> PROVE DiskInv'
  BY <1>0, <1>8 DEF DiskInv, DiskTypes, RowBudgets, disk, session, reports
<1>9. CASE UNCHANGED vars
  BY <1>9, <1>8 DEF vars
<1> QED
  BY <1>1, <1>2, <1>3, <1>4, <1>5, <1>6, <1>7, <1>8, <1>9, TaskStepFrame
  DEF Next, RepositoryStep

-----------------------------------------------------------------------------
(* Task values.                                                             *)

\* Every step keeps the types of Task values, and TaskInv.
LEMMA TaskStepKeeps == IInv /\ [Next]_vars => HeldTypes' /\ TaskInv'
<1> SUFFICES ASSUME IInv, [Next]_vars PROVE HeldTypes' /\ TaskInv'
  OBVIOUS
<1>0. HeldTypes /\ TaskInv
  BY TypeParts DEF IInv
<1>1. \A t \in Tasks : Draft(t) \in TaskValues
  BY DurableStateAssumption DEF Draft, NewDraft, TaskValues, TaskStates
\* A draft is taken into a free place.
<1>2. ASSUME NEW h \in Holders, NEW t \in Tasks, Hold(h, Draft(t))
      PROVE  HeldTypes' /\ TaskInv'
  <2>1. /\ held' = [held EXCEPT ![h] = Draft(t)]
        /\ UNCHANGED <<active_task, approved>>
    BY <1>2 DEF Hold, session
  <2>2. HeldTypes'
    BY <2>1, <1>0, <1>1 DEF HeldTypes
  <2>3. ASSUME NEW g \in Holders
        PROVE  \/ held'[g] = held[g]
               \/ /\ held'[g].state = "Draft"
                  /\ held'[g].budget = Budget[held'[g].id]
    BY <2>1, <1>0 DEF HeldTypes, Draft, NewDraft
  <2> QED BY <2>1, <2>2, <2>3, <1>0 DEF TaskInv, OnlyApprovedPlansRun, Free
\* A task in hand changes its state, and keeps or gets a plan.
<1>3. ASSUME NEW h \in Holders, ~Free(h), NEW s \in TaskStates,
             NEW plan \in Plans \cup {None},
             held' = [held EXCEPT ![h] = [@ EXCEPT !.state = s, !.plan = plan]],
             active_task' = active_task,
             approved \subseteq approved', approved' \in SUBSET (Tasks \X Plans),
             s = "AwaitingApproval" => plan \in Plans,
             s \in {"Executing", "Paused", "AwaitingReview", "Completed"}
               => <<held[h].id, plan>> \in approved'
      PROVE  HeldTypes' /\ TaskInv'
  <2>1. held[h] \in TaskValues
    BY <1>3, <1>0 DEF HeldTypes, Free
  <2>2. /\ held'[h] = [id |-> held[h].id, budget |-> held[h].budget,
                        state |-> s, plan |-> plan]
        /\ held'[h] \in TaskValues
        /\ \A g \in Holders : g # h => held'[g] = held[g]
    BY <2>1, <1>3, <1>0 DEF HeldTypes, TaskValues
  <2>3. HeldTypes'
    BY <1>3, <1>0, <2>2 DEF HeldTypes
  <2>4. ASSUME NEW g \in Holders
        PROVE  /\ held'[g] # None => held'[g].budget = Budget[held'[g].id]
               /\ held'[g].state = "AwaitingApproval" /\ held'[g] # None
                    => held'[g].plan \in Plans
               /\ held'[g].state \in {"Executing", "Paused", "AwaitingReview", "Completed"}
                    /\ held'[g] # None
                    => <<held'[g].id, held'[g].plan>> \in approved'
    <3>1. CASE g = h
      BY <3>1, <2>2, <1>0, <1>3 DEF TaskInv
    <3>2. CASE g # h
      BY <3>2, <2>2, <1>0, <1>3 DEF TaskInv, OnlyApprovedPlansRun, Free
    <3> QED BY <3>1, <3>2
  <2> QED BY <2>3, <2>4, <1>0, <1>3 DEF TaskInv, OnlyApprovedPlansRun, Free
<1>4. ASSUME UNCHANGED <<held, active_task, approved>> PROVE HeldTypes' /\ TaskInv'
  BY <1>0, <1>4 DEF HeldTypes, TaskInv, OnlyApprovedPlansRun, Free
<1>5. CASE Start
  <2>1. tasks \in Seq(Rows) /\ \A i \in DOMAIN tasks : tasks[i] \in Rows
    BY DEF IInv, TypeOK
  <2>2. PICK i \in LoadActive(project') :
          active_task' = IF i = None THEN None ELSE ParseRow(tasks[i])
    BY <1>5 DEF Start, Recover
  <2>3. i # None => i \in DOMAIN tasks
    BY <2>2, RowFound DEF IInv, ActiveRows
  <2>4. i # None => tasks[i].id \in Tasks /\ ParseRow(tasks[i]) = Draft(tasks[i].id)
    BY <2>1, <2>3 DEF Rows, IInv, RowBudgets, ParseRow, Draft
  <2>5. active_task' = None \/ \E t \in Tasks : active_task' = Draft(t)
    BY <2>2, <2>4
  <2>6. held' = held /\ approved' = approved
    BY <1>5 DEF Start
  <2> QED BY <2>5, <2>6, <1>0, <1>1 DEF HeldTypes, TaskInv, OnlyApprovedPlansRun, Free
<1>14. CASE Die
  BY <1>0, <1>14 DEF Die, HeldTypes, TaskInv, OnlyApprovedPlansRun, Free
<1>6. ASSUME NEW h \in Holders, NEW t \in Tasks, NewTask(h, t) \/ LoadTask(h, t)
      PROVE  HeldTypes' /\ TaskInv'
  <2>1. CASE NewTask(h, t)
    BY <1>2, <2>1 DEF NewTask
  <2>2. CASE LoadTask(h, t)
    <3>1. ParseRow(tasks[Row(t)]) = Draft(t)
      BY <2>2, RowFound DEF LoadTask, IInv, RowBudgets, ParseRow, Draft
    <3> QED BY <1>2, <2>2, <3>1 DEF LoadTask
  <2> QED BY <1>6, <2>1, <2>2
<1>7. ASSUME NEW h \in Holders, TakeActiveTask(h) PROVE HeldTypes' /\ TaskInv'
  <2>1. PICK t \in Tasks : active_task = Draft(t)
    BY <1>0, <1>7 DEF TaskInv, TakeActiveTask
  <2> QED BY <1>2, <1>7, <2>1 DEF TakeActiveTask
<1>8. ASSUME NEW h \in Holders, Discard(h) PROVE HeldTypes' /\ TaskInv'
  BY <1>0, <1>8 DEF Discard, session, HeldTypes, TaskInv, OnlyApprovedPlansRun, Free
<1>9. ASSUME NEW h \in Holders, NEW from \in TaskStates, NEW to \in TaskStates,
             Move(h, from, to), to # "AwaitingApproval",
             to \in {"Executing", "Paused", "AwaitingReview", "Completed"}
               => from \in {"Executing", "Paused", "AwaitingReview"}
      PROVE  HeldTypes' /\ TaskInv'
  <2>1. /\ ~Free(h) /\ held[h].state = from
        /\ held' = [held EXCEPT ![h].state = to]
        /\ UNCHANGED <<active_task, approved>>
    BY <1>9 DEF Move, Transition, session
  <2>2. held[h] \in TaskValues
    BY <2>1, <1>0 DEF HeldTypes, Free
  <2>3. held' = [held EXCEPT ![h] = [@ EXCEPT !.state = to, !.plan = held[h].plan]]
    BY <2>1, <2>2 DEF TaskValues
  <2>4. held[h].plan \in Plans \cup {None} /\ approved' \in SUBSET (Tasks \X Plans)
    BY <2>1, <2>2, <1>0 DEF TaskValues, HeldTypes
  <2>5. to \in {"Executing", "Paused", "AwaitingReview", "Completed"}
          => <<held[h].id, held[h].plan>> \in approved'
    BY <2>1, <1>0, <1>9 DEF TaskInv, OnlyApprovedPlansRun
  <2> HIDE DEF TaskInv
  <2> QED BY <1>3, <1>9, <2>1, <2>3, <2>4, <2>5
<1>10. ASSUME NEW h \in Holders, Approve(h) PROVE HeldTypes' /\ TaskInv'
  <2>1. /\ ~Free(h) /\ held[h].state = "AwaitingApproval"
        /\ held' = [held EXCEPT ![h].state = "Executing"]
        /\ active_task' = active_task
        /\ approved' = approved \cup {<<held[h].id, held[h].plan>>}
    BY <1>10 DEF Approve, Transition, session
  <2>2. held[h] \in TaskValues /\ held[h].plan \in Plans
    BY <2>1, <1>0 DEF HeldTypes, TaskInv, Free
  <2>3. held' = [held EXCEPT ![h] = [@ EXCEPT !.state = "Executing", !.plan = held[h].plan]]
    BY <2>1, <2>2 DEF TaskValues
  <2>4. approved' \in SUBSET (Tasks \X Plans) /\ "Executing" \in TaskStates
    BY <2>1, <2>2, <1>0 DEF HeldTypes, TaskValues, TaskStates
  <2> QED BY <1>3, <2>1, <2>2, <2>3, <2>4
<1>11. ASSUME NEW h \in Holders, NEW plan \in Plans, RequestApproval(h, plan)
       PROVE  HeldTypes' /\ TaskInv'
  <2>1. /\ ~Free(h)
        /\ held' = [held EXCEPT ![h].state = "AwaitingApproval", ![h].plan = plan]
        /\ UNCHANGED <<active_task, approved>>
    BY <1>11 DEF RequestApproval, session
  <2>2. held[h] \in TaskValues
    BY <2>1, <1>0 DEF HeldTypes, Free
  <2>3. held' = [held EXCEPT ![h] = [@ EXCEPT !.state = "AwaitingApproval", !.plan = plan]]
    BY <2>1, <2>2, <1>0 DEF TaskValues, HeldTypes
  <2>4. approved' \in SUBSET (Tasks \X Plans) /\ "AwaitingApproval" \in TaskStates
    BY <2>1, <1>0 DEF HeldTypes, TaskStates
  <2> QED BY <1>3, <2>1, <2>3, <2>4
<1>12. ASSUME NEW h \in Holders, TaskStep(h) PROVE HeldTypes' /\ TaskInv'
  <2>1. {"Draft", "Planning", "AwaitingApproval", "Executing", "Paused",
         "AwaitingReview", "Completed", "Cancelled"} \subseteq TaskStates
    BY DEF TaskStates
  <2>2. CASE \/ StartPlanning(h) \/ Reject(h) \/ Pause(h) \/ Resume(h)
             \/ SubmitForReview(h) \/ RequestRevision(h) \/ Accept(h)
    BY <2>1, <2>2, <1>9 DEF StartPlanning, Reject, Pause, Resume, SubmitForReview,
                            RequestRevision, Accept
  <2> QED BY <1>12, <2>2, <1>6, <1>7, <1>8, <1>10, <1>11 DEF TaskStep
<1>13. CASE \/ \E p \in Projects : SaveProjectRow(p)
            \/ SaveLastActive \/ SaveFails \/ Report \/ NumbersEnd
            \/ \E h \in Holders : SaveTask(h)
            \/ UNCHANGED vars
  BY <1>13, <1>4 DEF SaveProjectRow, SaveLastActive, SaveFails, Report, NumbersEnd,
                     SaveTask, vars, session
<1> QED BY <1>5, <1>6, <1>12, <1>13, <1>14 DEF Next, RepositoryStep

-----------------------------------------------------------------------------
(* Theorems.                                                                *)

\* IInv holds in the initial state, and is inductive.
LEMMA InitIInv == Init => IInv
<1> SUFFICES ASSUME Init PROVE IInv
  OBVIOUS
<1>1. RowBudgets /\ TaskInv
  BY DEF Init, RowBudgets, TaskInv, OnlyApprovedPlansRun, Free
<1>2. DiskTypes
  <2>1. /\ \A S : << >> \in Seq(S)
        /\ DOMAIN << >> = {}
    OBVIOUS
  <2>2. /\ projects = << >> /\ tasks = << >> /\ last_active = None
        /\ up = FALSE /\ numbered = FALSE /\ project = None /\ saving = None
        /\ reported = None /\ failed = {}
    BY DEF Init
  <2>3. IsInjective(projects)
    BY <2>1, <2>2 DEF IsInjective
  <2> QED BY <2>1, <2>2, <2>3 DEF DiskTypes
<1>3. HeldTypes
  BY DEF Init, HeldTypes
<1> QED BY <1>1, <1>2, <1>3, TypeParts DEF IInv

\* The inductive invariant holds throughout.
THEOREM Invariance == Spec => []IInv
<1>1. IInv /\ [Next]_vars => IInv'
  <2>1. TypeOK' <=> DiskTypes' /\ HeldTypes'
    BY DEF TypeOK, DiskTypes, HeldTypes
  <2> QED BY <2>1, DiskStep, TaskStepKeeps DEF IInv, DiskInv
<1> QED BY <1>1, InitIInv, PTL DEF Spec

\* The database keeps the keys and references its schema declares, and every
\* value its type, whatever is saved, loaded or cut short.
THEOREM TypeCorrect == Spec => []TypeOK
<1>1. IInv => TypeOK
  BY DEF IInv
<1> QED BY <1>1, Invariance, PTL

\* No task runs a plan that was not approved for it, across copies, saves and
\* restarts: what a row gives back is a draft without a plan.
THEOREM ApprovedPlansOnly == Spec => []OnlyApprovedPlansRun
<1>1. IInv => OnlyApprovedPlansRun
  BY DEF IInv, TaskInv
<1> QED BY <1>1, Invariance, PTL

\* A task has the budget it was created with, through saves, loads and restarts,
\* whatever the widths its amounts are kept in; so every row can be read.
THEOREM BudgetsKept == Spec => []BudgetsAreKept
<1>1. IInv => BudgetsAreKept
  <2> SUFFICES ASSUME IInv PROVE BudgetsAreKept
    OBVIOUS
  <2>1. active_task # None => active_task.budget = Budget[active_task.id]
    BY DEF IInv, TaskInv, Draft, NewDraft
  <2> QED BY <2>1 DEF IInv, TaskInv, RowBudgets, BudgetsAreKept
<1> QED BY <1>1, Invariance, PTL

\* The table of tasks is written by save_task alone.
LEMMA OnlySavesWrite ==
  ASSUME [Next]_vars, tasks' # tasks
  PROVE  \E h \in Holders : SaveTask(h)
BY TaskStepFrame DEF Next, vars, disk, SaveProjectRow, SaveLastActive, SaveFails,
       Report, NumbersEnd, Die, Start, RepositoryStep

\* Rows are added at the end, and only their state is replaced.
LEMMA RowsStay ==
  ASSUME IInv, [Next]_vars, tasks' # tasks
  PROVE  SavedTasksKeepProject
<1>1. PICK h \in Holders : SaveTask(h)
  BY OnlySavesWrite
<1>2. /\ tasks \in Seq(Rows) /\ Len(tasks) \in Nat /\ DOMAIN tasks = 1 .. Len(tasks)
  BY DEF IInv, TypeOK
<1>3. PICK p : tasks' = Upsert(held[h], p)
  BY <1>1 DEF SaveTask
<1>4. CASE Row(held[h].id) = 0
  <2> DEFINE r == RowOf(held[h], p)
  <2>1. tasks' = Append(tasks, r)
    BY <1>3, <1>4 DEF Upsert
  <2> HIDE DEF r
  <2> DEFINE S == Rows \cup {r}
  <2>2. tasks \in Seq(S)
    BY <1>2
  <2>3. r \in S
    OBVIOUS
  <2> HIDE DEF S
  <2>4. \A i \in DOMAIN tasks : /\ i \in DOMAIN Append(tasks, r)
                               /\ Append(tasks, r)[i] = tasks[i]
    BY <2>2, <2>3, AppendKeeps
  <2> QED BY <2>1, <2>4 DEF SavedTasksKeepProject
<1>5. CASE Row(held[h].id) # 0
  <2> DEFINE k == Row(held[h].id)
             r == RowOf(held[h], tasks[k].project)
  <2>1. tasks[k].id = held[h].id
    BY <1>5, RowFound DEF IInv
  <2>2. tasks' = [tasks EXCEPT ![k] = r]
    BY <1>3, <1>5 DEF Upsert
  <2>3. r.id = held[h].id /\ r.project = tasks[k].project
    BY DEF RowOf
  <2> HIDE DEF k, r
  <2> QED BY <1>2, <2>1, <2>2, <2>3 DEF SavedTasksKeepProject
<1> QED BY <1>4, <1>5

\* A task stays with the project it was first saved under.
THEOREM SavedTasksStay == Spec => TasksStayInProject
<1>1. IInv /\ [Next]_vars => [SavedTasksKeepProject]_tasks
  BY RowsStay
<1> QED BY <1>1, Invariance, PTL DEF Spec, TasksStayInProject

-----------------------------------------------------------------------------
(* Recovery picks a row by its is_active column, which says of every row    *)
(* whether the task was saved as ended.                                     *)

RowsSayActive ==
  \A i \in DOMAIN tasks : tasks[i].is_active = ~IsTerminal(tasks[i].state)

LEMMA RowsSayActiveStep == IInv /\ RowsSayActive /\ [Next]_vars => RowsSayActive'
<1> SUFFICES ASSUME IInv, RowsSayActive, [Next]_vars, tasks' # tasks
             PROVE  RowsSayActive'
  BY DEF RowsSayActive
<1>1. PICK h \in Holders : SaveTask(h)
  BY OnlySavesWrite
<1>2. /\ tasks \in Seq(Rows) /\ Len(tasks) \in Nat /\ DOMAIN tasks = 1 .. Len(tasks)
  BY DEF IInv, TypeOK
<1>p. PICK p : tasks' = Upsert(held[h], p)
  BY <1>1 DEF SaveTask
<1>3. \A q : RowOf(held[h], q).is_active = ~IsTerminal(RowOf(held[h], q).state)
  BY DEF RowOf
<1>4. \A i \in DOMAIN tasks' :
        \/ \E q : tasks'[i] = RowOf(held[h], q)
        \/ i \in DOMAIN tasks /\ tasks'[i] = tasks[i]
  <2>1. CASE Row(held[h].id) = 0
    <3> DEFINE r == RowOf(held[h], p)
    <3>1. tasks' = Append(tasks, r)
      BY <1>p, <2>1 DEF Upsert
    <3> HIDE DEF r
    <3> DEFINE S == Rows \cup {r}
    <3>a. tasks \in Seq(S)
      BY <1>2
    <3>b. r \in S
      OBVIOUS
    <3> HIDE DEF S
    <3>c. /\ DOMAIN Append(tasks, r) = 1 .. Len(tasks) + 1
          /\ Append(tasks, r)[Len(tasks) + 1] = r
          /\ \A i \in 1 .. Len(tasks) : Append(tasks, r)[i] = tasks[i]
      BY <3>a, <3>b
    <3>2. /\ DOMAIN tasks' = 1 .. Len(tasks) + 1
          /\ tasks'[Len(tasks) + 1] = r
          /\ \A i \in 1 .. Len(tasks) : tasks'[i] = tasks[i]
      BY <3>1, <3>c
    <3>3. \A i \in DOMAIN tasks' : i \in 1 .. Len(tasks) \/ i = Len(tasks) + 1
      BY <1>2, <3>2
    <3> QED BY <1>2, <3>2, <3>3 DEF r
  <2>2. CASE Row(held[h].id) # 0
    BY <1>p, <2>2 DEF Upsert
  <2> QED BY <2>1, <2>2
<1> QED BY <1>3, <1>4 DEF RowsSayActive

\* A daemon's start takes the newest active row of the project it recovers: no
\* row after it is that of an open task of the project.
LEMMA RecoveredTask ==
  ASSUME IInv, RowsSayActive, [Next]_vars, ~up, up', active_task' # None
  PROVE  \E i \in DOMAIN tasks :
           /\ tasks[i].id = active_task'.id
           /\ tasks[i].project = project'
           /\ ~IsTerminal(tasks[i].state)
           /\ \A j \in DOMAIN tasks : j > i /\ tasks[j].project = project'
                                        => IsTerminal(tasks[j].state)
<1>1. Start
  <2>1. \A h \in Holders : SaveTask(h) => up' = up
    BY DEF SaveTask, session
  <2>2. \A h \in Holders : RepositoryStep(h) \/ TaskStep(h) => up' = up
    BY <2>1, TaskStepFrame DEF RepositoryStep, session
  <2> QED BY <2>2 DEF Next, vars, session, SaveProjectRow, SaveLastActive, SaveFails,
                      Report, NumbersEnd, Die
<1>2. PICK i \in LoadActive(project') :
        active_task' = IF i = None THEN None ELSE ParseRow(tasks[i])
  BY <1>1 DEF Start, Recover
<1>3. i \in ActiveRows(project') /\ \A j \in ActiveRows(project') : j <= i
  BY <1>2, RowFound DEF IInv
<1>4. i \in DOMAIN tasks /\ tasks[i].project = project' /\ ~IsTerminal(tasks[i].state)
  BY <1>3 DEF ActiveRows, RowsSayActive
<1>5. tasks[i].id = active_task'.id
  BY <1>2, <1>3 DEF ParseRow, NewDraft
<1>6. ASSUME NEW j \in DOMAIN tasks, j > i, tasks[j].project = project'
      PROVE  IsTerminal(tasks[j].state)
  <2>1. tasks[j].is_active => j <= i
    BY <1>3, <1>6 DEF ActiveRows
  <2>2. DOMAIN tasks = 1 .. Len(tasks) /\ Len(tasks) \in Nat
    BY DEF IInv, TypeOK
  <2>3. ~tasks[j].is_active
    BY <2>1, <2>2, <1>4, <1>6
  <2> QED BY <2>3 DEF RowsSayActive
<1> QED BY <1>4, <1>5, <1>6

\* The task SessionRecovery gives a session, at whichever start, is one of its
\* project's that the last save of it did not record as completed, failed or
\* cancelled, and the newest of these; also when the same task was recovered
\* before.
THEOREM RecoveredTaskOpen == Spec => RecoveredTaskIsOpen
<1>1. Init => RowsSayActive
  BY DEF Init, RowsSayActive
<1>2. IInv /\ RowsSayActive /\ [Next]_vars =>
        [~up /\ up' /\ active_task' # None =>
           \E i \in DOMAIN tasks :
             /\ tasks[i].id = active_task'.id
             /\ tasks[i].project = project'
             /\ ~IsTerminal(tasks[i].state)
             /\ \A j \in DOMAIN tasks : j > i /\ tasks[j].project = project'
                                          => IsTerminal(tasks[j].state)]_vars
  BY RecoveredTask
<1> QED BY <1>1, <1>2, RowsSayActiveStep, Invariance, PTL DEF Spec, RecoveredTaskIsOpen
=============================================================================
