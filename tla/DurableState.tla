---------------------------- MODULE DurableState -----------------------------
(***************************************************************************)
(* What survives a restart of the daemon: the SQLite state repository      *)
(* (crates/kesharon-daemon/src/storage.rs), its recovery into a session    *)
(* (SessionRecovery, DaemonSession::with_storage), and the tasks of        *)
(* crates/kesharon-domain/src/task.rs that are kept in it.                 *)
(*                                                                         *)
(* The repository is behind a mutex, so that its calls do not interleave;  *)
(* but a call is several autocommitted statements, and the daemon may die  *)
(* or a statement fail between two of them; it may also die between a save *)
(* and the report of it.  Where the code turns the failure of a query into *)
(* "no row" (.ok()), that is one of its answers.  The database is a file   *)
(* and outlives the process (KESHARON_STATE_DB); what a statement has      *)
(* committed stays committed.                                              *)
(*                                                                         *)
(* Left out: goals and the execution mode of tasks, which are stored and   *)
(* read back and decide nothing; checkpoints and idempotency entries,      *)
(* tables of their own that recovery does not read.                        *)
(***************************************************************************)
EXTENDS ResourceBudget, Sequences, SequencesExt

CONSTANTS
  Projects,  \* ids minted for opened projects
  Tasks,     \* ids of tasks
  Plans,
  Budget,    \* of each task, the budget it is created with
  Holders    \* places in the process where a Task value may be

ASSUME DurableStateAssumption ==
  /\ None \notin Projects \cup Tasks \cup Plans
  /\ Budget \in [Tasks -> Budgets]

VARIABLES
  projects, last_active, tasks,   \* the database; tables in the order of rowid
  up,                    \* a daemon runs, with a session
  project, active_task,  \* SessionState
  numbered,   \* the session has numbers left for its events
  saving,     \* the project whose open is in its second critical section
  held,       \* Task values
  approved,   \* history: the plans that were approved, for which task
  reported,   \* history: the last project a daemon has reported
  failed      \* history: the projects whose open was reported as failed

disk    == <<projects, last_active, tasks>>
session == <<up, project, active_task, numbered>>
reports == <<reported, failed>>
vars    == <<disk, session, saving, held, approved, reports>>

TaskStates ==
  {"Draft", "Planning", "AwaitingApproval", "Executing", "Paused",
   "AwaitingReview", "Completed", "Failed", "Cancelled"}

IsTerminal(s) == s \in {"Completed", "Failed", "Cancelled"}

\* Task::new.
NewDraft(t, b) == [id |-> t, budget |-> b, state |-> "Draft", plan |-> None]

Draft(t) == NewDraft(t, Budget[t])

\* The row of a task, 0 if it has none; ids are the primary key.
Row(t) == IF \E i \in DOMAIN tasks : tasks[i].id = t
          THEN CHOOSE i \in DOMAIN tasks : tasks[i].id = t
          ELSE 0

Free(h) == held[h] = None

\* The repository's mutex: an open holds it from before its first statement
\* until after its report.
Unlocked == saving = None

\* What .ok() makes of a query: its answer, or none when it fails.
Ok(answer) == {answer, None}

-----------------------------------------------------------------------------
(* Reading.                                                                 *)

\* Mutant: the state is read back, the plan, which has no column, is not.
ParseRowKeepingState(r) ==
  [NewDraft(r.id, ParseBudget(r.budget)) EXCEPT !.state = r.state]

\* The state column is never read: every task starts again as a draft.
ParseRow(r) == NewDraft(r.id, ParseBudget(r.budget))

LoadProject(id) == IF id \in Range(projects) THEN id ELSE None

\* One of these; likewise below.
LoadLastActive == {LoadProject(id) : id \in Ok(last_active)}

\* The newest row of an active task of the project.
ActiveRows(p) == {i \in DOMAIN tasks : tasks[i].project = p /\ tasks[i].is_active}

ActiveRow(p) == IF ActiveRows(p) = {} THEN None ELSE Max(ActiveRows(p))

LoadActive(p) == IF p = None THEN {None} ELSE Ok(ActiveRow(p))

\* SessionRecovery::execute.  There is no session if the row cannot be read.
Recover ==
  /\ project' \in LoadLastActive
  /\ \E i \in LoadActive(project') :
       /\ i # None => Readable(tasks[i].budget)
       /\ active_task' = IF i = None THEN None ELSE ParseRow(tasks[i])

-----------------------------------------------------------------------------
(* Saving a project, as an open ends.  Its id has just been minted.         *)

\* Mutant: the statements the other way round.
SaveProjectRowLater(p) ==
  /\ up /\ Unlocked
  /\ p \notin Range(projects)
  /\ last_active' = p
  /\ saving' = p
  /\ UNCHANGED <<projects, tasks, session, held, approved, reports>>

SaveProjectRow(p) ==
  /\ up /\ Unlocked
  /\ p \notin Range(projects)
  /\ projects' = Append(projects, p)
  /\ saving' = p
  /\ UNCHANGED <<last_active, tasks, session, held, approved, reports>>

Saved == saving # None /\ last_active = saving

\* The second statement.
SaveLastActive ==
  /\ saving # None /\ ~Saved
  /\ last_active' = saving
  /\ UNCHANGED <<projects, tasks, session, saving, held, approved, reports>>

\* The second statement fails: the open fails, the row stays.
SaveFails ==
  /\ saving # None /\ ~Saved
  /\ failed' = IF numbered THEN failed \cup {saving} ELSE failed
  /\ saving' = None
  /\ UNCHANGED <<disk, session, held, approved, reported>>

\* complete_success: the event and the session's own project, in one section
\* of its lock.  Nobody is told when the event has no number; the answer is an
\* internal error then.
Report ==
  /\ Saved
  /\ IF numbered THEN project' = saving /\ reported' = saving
                 ELSE UNCHANGED <<project, reported>>
  /\ saving' = None
  /\ UNCHANGED <<disk, up, active_task, numbered, held, approved, failed>>

\* The last number is given to another event.
NumbersEnd ==
  /\ numbered
  /\ numbered' = FALSE
  /\ UNCHANGED <<disk, up, project, active_task, saving, held, approved, reports>>

-----------------------------------------------------------------------------
(* Saving a task.                                                           *)

Newest == IF projects = << >> THEN None ELSE Last(projects)

\* The project of a task that has no row yet: the last active one, or the
\* newest if there is none, or none is read.
ProjectForNew == {IF p = None THEN Newest ELSE p : p \in Ok(last_active)}

RowOf(task, p) ==
  [id |-> task.id, project |-> p, state |-> task.state,
   budget |-> ColumnsOf(task.budget), is_active |-> ~IsTerminal(task.state)]

\* Mutant: on conflict the project is replaced too.
UpsertMoving(task, p) ==
  IF Row(task.id) = 0 THEN Append(tasks, RowOf(task, p))
  ELSE [tasks EXCEPT ![Row(task.id)] = RowOf(task, p)]

\* Mutant: on conflict is_active is left as it is.
UpsertKeepingActive(task, p) ==
  IF Row(task.id) = 0 THEN Append(tasks, RowOf(task, p))
  ELSE [tasks EXCEPT ![Row(task.id)].state = task.state]

Upsert(task, p) ==
  IF Row(task.id) = 0 THEN Append(tasks, RowOf(task, p))
  ELSE [tasks EXCEPT ![Row(task.id)] = RowOf(task, @.project)]

\* Mutant: foreign keys are not enforced, a missing project is no error.
SaveTaskUnchecked(h) ==
  /\ Unlocked
  /\ ~Free(h)
  /\ Storable(held[h].budget)
  /\ \E p \in ProjectForNew : tasks' = Upsert(held[h], p)
  /\ UNCHANGED <<projects, last_active, session, saving, held, approved, reports>>

\* Without any project, or with one that has no row, the statement fails; with
\* an amount too large for a column there is none.  A row that the first query
\* fails to find is found by the conflict clause.
SaveTask(h) ==
  /\ Unlocked
  /\ ~Free(h)
  /\ Storable(held[h].budget)
  /\ \E p \in ProjectForNew :
       /\ Row(held[h].id) # 0 \/ p \in Range(projects)
       /\ tasks' = Upsert(held[h], p)
  /\ UNCHANGED <<projects, last_active, session, saving, held, approved, reports>>

-----------------------------------------------------------------------------
(* Task values in the process.                                              *)

Known(t) == Row(t) # 0 \/ \E h \in Holders : ~Free(h) /\ held[h].id = t

Hold(h, task) ==
  /\ up /\ Free(h)
  /\ held' = [held EXCEPT ![h] = task]
  /\ UNCHANGED <<disk, session, saving, approved, reports>>

\* Task::new, with an id of its own.
NewTask(h, t) == ~Known(t) /\ Hold(h, Draft(t))

\* load_task, whatever state the task was saved in.
LoadTask(h, t) ==
  /\ Unlocked
  /\ Row(t) # 0
  /\ Readable(tasks[Row(t)].budget)
  /\ Hold(h, ParseRow(tasks[Row(t)]))

\* DaemonSession::active_task hands out a copy.
TakeActiveTask(h) == active_task # None /\ Hold(h, active_task)

Discard(h) ==
  /\ ~Free(h)
  /\ held' = [held EXCEPT ![h] = None]
  /\ UNCHANGED <<disk, session, saving, approved, reports>>

\* Task::transition.  In another state, an error and no change.
Transition(h, from, to) ==
  /\ ~Free(h)
  /\ held[h].state = from
  /\ held' = [held EXCEPT ![h].state = to]

Move(h, from, to) ==
  /\ Transition(h, from, to)
  /\ UNCHANGED <<disk, session, saving, approved, reports>>

StartPlanning(h)   == Move(h, "Draft", "Planning")
Reject(h)          == Move(h, "AwaitingApproval", "Cancelled")
Pause(h)           == Move(h, "Executing", "Paused")
Resume(h)          == Move(h, "Paused", "Executing")
SubmitForReview(h) == Move(h, "Executing", "AwaitingReview")
RequestRevision(h) == Move(h, "AwaitingReview", "Executing")
Accept(h)          == Move(h, "AwaitingReview", "Completed")

Approve(h) ==
  /\ Transition(h, "AwaitingApproval", "Executing")
  /\ approved' = approved \cup {<<held[h].id, held[h].plan>>}
  /\ UNCHANGED <<disk, session, saving, reports>>

RequestApproval(h, plan) ==
  /\ ~Free(h)
  /\ held[h].state = "Planning"
  /\ held' = [held EXCEPT ![h].state = "AwaitingApproval", ![h].plan = plan]
  /\ UNCHANGED <<disk, session, saving, approved, reports>>

-----------------------------------------------------------------------------
(* The process dies, at any point, and another one starts.                  *)

Die ==
  /\ up
  /\ up' = FALSE
  /\ project' = None /\ active_task' = None /\ numbered' = FALSE
  /\ saving' = None
  /\ held' = [h \in Holders |-> None]
  /\ UNCHANGED <<disk, approved, reports>>

\* with_storage.  The first client to connect is told what was recovered.
Start ==
  /\ ~up
  /\ Recover
  /\ up' = TRUE /\ numbered' = TRUE
  /\ reported' = IF project' = None THEN reported ELSE project'
  /\ UNCHANGED <<disk, saving, held, approved, failed>>

Init ==
  /\ projects = << >> /\ last_active = None /\ tasks = << >>
  /\ up = FALSE
  /\ project = None /\ active_task = None /\ numbered = FALSE
  /\ saving = None
  /\ held = [h \in Holders |-> None]
  /\ approved = {} /\ reported = None /\ failed = {}

RepositoryStep(h) ==
  SaveTask(h) \/ \E t \in Tasks : LoadTask(h, t)

TaskStep(h) ==
  \/ \E t \in Tasks : NewTask(h, t)
  \/ TakeActiveTask(h) \/ Discard(h)
  \/ StartPlanning(h) \/ Approve(h) \/ Reject(h) \/ Pause(h) \/ Resume(h)
  \/ SubmitForReview(h) \/ RequestRevision(h) \/ Accept(h)
  \/ \E plan \in Plans : RequestApproval(h, plan)

Next ==
  \/ \E p \in Projects : SaveProjectRow(p)
  \/ SaveLastActive \/ SaveFails \/ Report \/ NumbersEnd
  \/ Die \/ Start
  \/ \E h \in Holders : RepositoryStep(h) \/ TaskStep(h)

Spec == Init /\ [][Next]_vars

-----------------------------------------------------------------------------
TaskValues == [id : Tasks, budget : Budgets, state : TaskStates,
               plan : Plans \cup {None}]

Rows == [id : Tasks, project : Projects, state : TaskStates, budget : Columns,
         is_active : BOOLEAN]

\* Type invariant, with the keys and references the schema declares.
TypeOK ==
  /\ projects \in Seq(Projects) /\ IsInjective(projects)
  /\ last_active \in Projects \cup {None}
  /\ tasks \in Seq(Rows)
  /\ \A i, j \in DOMAIN tasks : tasks[i].id = tasks[j].id => i = j
  /\ \A i \in DOMAIN tasks : tasks[i].project \in Range(projects)
  /\ up \in BOOLEAN /\ numbered \in BOOLEAN
  /\ project \in Projects \cup {None}
  /\ active_task \in TaskValues \cup {None}
  /\ saving \in Projects \cup {None}
  /\ held \in [Holders -> TaskValues \cup {None}]
  /\ approved \in SUBSET (Tasks \X Plans)
  /\ reported \in Projects \cup {None} /\ failed \in SUBSET Projects

OpenedAfter(p, q) ==
  \E i, j \in DOMAIN projects : i > j /\ projects[i] = p /\ projects[j] = q

\* Wherever in an open the process dies, and whatever statement has failed, the
\* database gives a daemon that can read it the project reported last, or one
\* that was opened later and saved as a whole, and that no daemon got to report:
\* never an older project, one whose open was reported as failed, or none.
RecoversReportedProject ==
  LET recoverable == LoadProject(last_active)
  IN \/ recoverable = reported
     \/ /\ recoverable \in Range(projects) \ failed
        /\ reported # None => OpenedAfter(recoverable, reported)

\* A task stays with the project it was first saved under, whichever project is
\* open when it is saved again.
SavedTasksKeepProject ==
  \A i \in DOMAIN tasks : /\ i \in DOMAIN tasks'
                          /\ tasks'[i].id = tasks[i].id
                          /\ tasks'[i].project = tasks[i].project

TasksStayInProject == [][SavedTasksKeepProject]_tasks

\* The task a daemon starts with, each time it starts, is the last of its
\* project's that was not ended when it was last saved: an ended task does not
\* come back, and neither does one that another has been put in front of.
RecoveredTaskIsOpen ==
  [][~up /\ up' /\ active_task' # None =>
       \E i \in DOMAIN tasks :
         /\ tasks[i].id = active_task'.id
         /\ tasks[i].project = project'
         /\ ~IsTerminal(tasks[i].state)
         /\ \A j \in DOMAIN tasks : j > i /\ tasks[j].project = project'
                                      => IsTerminal(tasks[j].state)]_vars

\* A task has the budget it was created with, in the process and in the
\* database, through saves, loads and restarts, whatever the widths its amounts
\* are kept in; so no row keeps a daemon from starting.
BudgetsAreKept ==
  /\ \A h \in Holders : ~Free(h) => held[h].budget = Budget[held[h].id]
  /\ active_task # None => active_task.budget = Budget[active_task.id]
  /\ \A i \in DOMAIN tasks : /\ Readable(tasks[i].budget)
                             /\ ParseBudget(tasks[i].budget) = Budget[tasks[i].id]

\* A task that is executed, paused, reviewed or done has a plan, and that plan
\* was approved for it, across saves, copies and restarts.
OnlyApprovedPlansRun ==
  \A h \in Holders :
    ~Free(h) /\ held[h].state \in {"Executing", "Paused", "AwaitingReview", "Completed"}
      => <<held[h].id, held[h].plan>> \in approved
=============================================================================
