# Kesharon in TLA+

Kesharon is a desktop agent: a React interface in a Tauri host, and a daemon
the host starts as a sidecar process and talks to over a local socket.  The
daemon keeps one session: the open project, the operations under way, the
answers of finished ones, and one stream of events.  This directory holds a
TLA+ model of the parts of it where the order of things matters, the TLC
configurations that check it, and proofs of the properties that hold for any
number of threads, requests, connections and events.

Paths below are relative to the repository's root.

## 1. Inventory

| Component | State | Operations | Interacts with |
| --- | --- | --- | --- |
| Daemon session, `crates/kesharon-daemon/src/session.rs` | one mutex: project, running operations by request id (`active`) and by key (`in_flight`), ledger of finished mutations and its eviction queues, event number, sender of the one subscriber | `dispatch` (open, cancel), `subscribe`, recovery | called by every connection thread; calls the application layer outside its lock, the state store inside it; hands events to a bounded channel |
| Subscription thread, `crates/kesharon-daemon/src/lib.rs` | receiver of its channel | `serve_subscription` | drains the session's channel to a socket |
| Application, `crates/kesharon-application/src/lib.rs`, `repository.rs` | none | `OpenProject::execute`, `SessionRecovery::execute` | reads the cancel flag that another thread sets |
| Server runtime, `crates/kesharon-daemon/src/runtime.rs` | number of connections in use | accept loop, permits, busy rejection | one thread per connection |
| State store, `crates/kesharon-daemon/src/storage.rs` | SQLite tables: projects, metadata, tasks, checkpoints, idempotency entries | `save_*`, `load_*`, each statement its own transaction | written under the session's lock, read at start |
| Domain, `crates/kesharon-domain` | task state, mode, plan | guarded task transitions | nothing calls the transitions yet |
| Protocol and IPC, `crates/kesharon-protocol`, `crates/kesharon-ipc` | none | frame encoding and decoding, reads and writes with a deadline | every socket |
| Event stream worker, `apps/desktop/src-tauri/src/lib.rs` 489-668 | a cancel flag, the stream and number it expects, whether it is reconnecting | subscribe, forward, probe, reconnect, stop | daemon socket on one side, web view channel on the other, the shared `DaemonClient` |
| Supervisor, same file 736-806 and 863-870 | client, child, restart budget | start, replace once a daemon that has terminated, kill on exit | owns the daemon process; its client is what commands and workers use |
| Commands, same file 438-486 and 670-689 | none | open, cancel, health | one connection per request |
| Workspace interface, `apps/desktop/src/useWorkspace.ts`, `bridge.ts` | the reducer's state | answers of commands, updates of the stream | both reach the reducer, by different routes |
| Vault, React components, build scripts | | | not part of the behaviour modelled |

What is hard in it, and which property is meant to hold there:

- **An open runs in two critical sections.**  Between them any other request
  can run: a retry under the same key, another open under the same id, a
  cancellation, a new subscription.  A mutation must run once per key that is
  running or remembered, nothing may leak from the indexes of running
  operations, and answers must not change.
- **A cancellation races the execution it cancels.**  It sets a flag that is
  looked at twice; one accepted in time must reach the flag of the open it names,
  and that open must come to nothing.
- **Opens may end in another order than they began.**  The reported project,
  the event stream, the ledger and the database must agree on the last one.
- **The ledger and the subscriber's buffer are bounded.**  At the bound,
  entries are forgotten and subscribers are cut off; nothing else may be lost,
  and the daemon may not wait.
- **Snapshot and stream are two things to the client.**  They must meet
  without gap or overlap whatever runs at the time of subscription.
- **The host's worker sees timeouts, ends of stream, torn frames, a new daemon
  and its own replacement** through one blocking read with a deadline.  The web
  view may never be shown a gap as if it were continuous, and should end up
  with the daemon's state.
- **Restart.**  The session is rebuilt from the database; the ledger is not in
  it.  The database is ahead of what was reported between a commit and its report,
  and a query that fails reads as if there were nothing.
- **The accept loop** rejects the ninth connection on its own thread.
- **Quit races restart** in the supervisor, whose watcher works in steps that the
  workers and the exit can fall between.
- **The interface** learns of an open's end from the answer and from the
  stream, in either order, and names operations by ids of its own.

`PROJECT.json` lists these at their lines, under `hazards`, with the properties
that would be violated.

## 2. Plan

| # | Module | What | State |
| --- | --- | --- | --- |
| 1 | `Session` | the session, command threads, subscription threads | done |
| 2 | `WorkspaceFeed`, `SessionFeed` | what a subscription promises, and that the session implements it | done |
| 3 | `OnceOnly`, `SessionOnce` | what idempotency keys promise, and that the session implements it, restarts included | done |
| 4 | `SessionProofs`, `SessionLedgerProofs`, `SessionFeedProofs` | theorems about `Session`: types, indexes and single execution; the ledger and `OnceOnly`; the events and `WorkspaceFeed` | done |
| 4a | `SessionCancel`, `SessionCancelProofs` | what an accepted cancellation is worth; theorem about it | done |
| 5 | `Supervisor` | the daemon process, its replacement, and the exit of the application | done |
| 6 | `StreamWorker`, `StreamWorkerProofs` | the host's stream worker, on top of `Supervisor`; theorems about both | done |
| 7 | `ServerRuntime`, `ServerRuntimeProofs` | permits, accept loop, busy rejection; a subscription holds a permit until it ends; theorems about it | done |
| 8 | `Workspace`, `WorkspaceProofs` | the web view's state between the stream, the answers of its calls and the user; theorems about it | done, but for the connection badge |
| 9 | `DurableState`, `ResourceBudget`, `DurableStateProofs` | statements of the store with failures and restarts between them; tasks and their budgets, saved, loaded, copied; theorems about it | done |

Composition: `SessionFeed` and `SessionOnce` relate 1 to what it promises, by
refinement; `SessionCancel` adds a history of accepted cancellations to 1.
`StreamWorker` holds an instance of `Supervisor` over its own
variables: each of its steps of the daemon process and the watcher is one of
`Supervisor`'s, with what it does to the streams.  It takes from `WorkspaceFeed`
what a subscriber may rely on and models the rest of the path to the web view;
`Workspace` continues from what `StreamWorker` shows.  `DurableState` looks inside
the saves that `Session` takes as one, and at what its restart recovers.

Theorems worth proving: every invariant and action property of the runs, and the
two refinements.  Section 6 has them; what is left is liveness.

## 3. The models

### Session

`Workers` are threads serving one command each at a time, `Subscribers` threads
serving one subscription.  The variables `project` to `subscriber` are the
fields of `SessionState`; `stored` is what the database would report at the
next start; `minted` counts generated project ids; `pc`, `req`, `cancelled`,
`answer` are a worker's locals (its cancel flag, shared through `active`, among
them); `stage` and `queue` are a subscriber thread and its channel.  `view` is
the only history variable: what the client knows from the messages the thread
has taken to write.

Each section under the session's lock is one action, with all it calls:

| Code | Action |
| --- | --- |
| `open_project`, first section | `Replay`, `Busy`, `DuplicateId`, `StartUnannounced`, `Start`, one per way out |
| `OpenProject::execute` | `CheckBefore`, `Inspect`, `CheckAfter`: the flag is read twice, other threads run between |
| `open_project`, second section | `Settle`, with `save_project`, `complete_*`, `emit_locked`, `remember_completed` |
| `cancel` | `Replay`, `Busy`, `Cancel` |
| `subscribe` | `Subscribe` |
| `serve_subscription` | `Take`, `Written`, `WriteFails`, `EndOfStream` |
| `with_storage` in a new process | `Restart`: `Lost` ends threads and connections; the project is the one in the database, or none if the query for it fails |
| writing the response | `WriteReply`; a client that never gets it may send the request again, as any request may be sent any number of times |

Abstractions.  A request's fingerprint is its payload.  Error codes of
`FilesystemRepository` that no other code tells apart are one.  Project ids are
consecutive numbers, for fresh UUIDs; the recovered project has id 0.
`save_project` succeeds or fails as a whole (`DurableState` looks inside).
`Persistent` says whether the
database is a file (`KESHARON_STATE_DB`) or in memory; the process may end at
any moment, in the middle of `Settle` too, after the project is saved and before it
is reported (`Committed`), and no request or connection outlives it.
`DiskMatchesMemory` makes one exception: a daemon that could not read the project
at its start has none, although the database does, until one is opened.  `Apply`,
which gives `view` its meaning, is a reader that keeps all running operations, as
the snapshot lists them; it is no code of the repository.  The web view keeps one,
and is `Workspace`.
`MaxSequence` stands for `u64::MAX`, and also bounds the model: what the
code does when the numbers run out is modelled.  Not modelled: poisoned
locks, requests without key (refused when a request is built or decoded),
a session without a store (tests only), the recovered task (in `DurableState`).

### WorkspaceFeed and SessionFeed

`WorkspaceFeed` says what a subscription is worth to a client without any
event: each reader is shown authoritative states one after another, none left
out, from the one current when it connected; only the latest reader is fed, and
it is cut off rather than shown a gap when it lags by more than `Capacity`.
`SessionFeed` maps the session to it: the states a reader is still to be shown
are those its client reaches by applying the events in its channel.  A restart
starts the feed anew.

### OnceOnly and SessionOnce

`OnceOnly` says what a key is worth to the client that retries under it, with
no threads, events or request ids: a call begins only if its key is neither
running nor remembered; whoever repeats it meanwhile is told to wait, and
later the one answer of its execution; another call under the same key is
refused; the oldest answer is forgotten when there are more than `Limit`; a restart
forgets all, and nothing else does.  `SessionOnce` maps the session to it:
`in_flight` is what runs, the ledger read along its eviction queue is what is
remembered, and a thread about to write its response is telling it.  A call the
session cannot announce, or whose request id is taken, is declined: answered
without being executed or remembered.

### SessionCancel

A cancellation names an open by its request id.  The session goes from the id,
through `active`, to the flag of a thread, which looks at it twice.  `revoked` holds
the threads whose open was named by a cancellation that was answered with
`accepted` before the second look; the session's actions do not read it
(`CancelNext` is `Next` with a record of what happened).  `CancelledOpensNothing`
says of such a thread, step by step until its answer is written, that it generates
no project id, leaves database and current project alone, and does not answer
`projectOpened`.  It can go wrong through the flag (read too early, not read), the
guards of the thread, or the index: an id that leads to the flag of another
thread, as when a second open under a running id gets past `DuplicateId`.  A
cancellation accepted after the second look has no effect, and is not spoken of.

### Supervisor

`client`, `child` and `restart_used` are `DaemonState`; `alive` and `listening` are
the processes, numbered as they are spawned; `step` is the watcher task's
position; `host` the application's.

| Code | Action |
| --- | --- |
| watcher, a terminated daemon: client taken, child taken | `Discard` |
| `start_daemon` again, if the budget allows: spawn, `client = Some`, `child = Some`, watch | `Spawn`, `PublishClient`, `StoreChild`, an action each |
| `start_daemon` fails; budget spent | `SpawnFails`, `GiveUp` |
| `RunEvent::Exit` | `Exit`; the process ends some time later, `End`, and the watcher runs until then |
| the daemon, from its token on standard input to its endpoint | `Listen`; its end, `Die` |

What the watcher is told is `Observations`: an error in reading the daemon's output
is possible while it lives, and must not lead to its replacement.  The first
daemon is started in `setup`, before anything else can happen; if that fails there
is no application.  A spawn that succeeds and whose token cannot be written is
killed at once, and is `SpawnFails`.  The operating system and the shell plugin
are taken not to end a child with its parent: the daemon reads standard input
once, and the plugin's own clean-up covers the children it spawns for the web view,
not those spawned from Rust.

### StreamWorker

Worker `w` is the task started by the `w`-th call of `subscribe_daemon_events`.
Its program position is `phase`; `stream`, `expected`, `has_connected_once`,
`is_reconnecting` are its locals; `inbox` what its socket still holds; `shown`
the last update sent to the web view.  `latest` tells which cancel flag is not
set.  The daemon is the one of `Supervisor`, with its event number and the worker it
feeds; `incarnation` is its stream id.  When the application exits, workers and
web view are gone (`Quit`).  The cancel check inside the blocking closure is
the guard of `Connect`, so that supersession can fall between it and
`SubscribeSucceeds`.  Every read ends in `ReadEvent`, `ReadNothing` or, when
the deadline falls inside a frame, `ReadPartOfEvent`.  The end of the stream is
`ReadNothing`: `read_exact_with_timeout` treats a read of zero bytes like no
data yet and reports the deadline.  Left out: a closed web view channel, a
`Snapshot` in mid-stream (the daemon sends none), the length of the delays.

### ServerRuntime

`active_connections` is the counter of `ConnectionPermit`; everything else says
where each connection is.  `thread[c]` is what the daemon does for `c`: nothing
while it waits in the listener's `backlog`, then the stages of
`serve_local_stream` (`reading`, `executing`, `started` between the two
critical sections of an open, `replying`) or `serve_subscription`
(`subscribed`), then `leaving`; or `rejecting`, when the accepting thread itself
runs `reject_busy_connection`.  `client[c]` and `request[c]` are what the other
side does.  A health request stands for all commands that announce no event.
The channel of a subscription is one bit, `unwritten`: that it may be full is
a choice `Emit` has whenever something is unwritten.  The permit and the stream
are both dropped when the thread's closure returns, in one step (`Leave`).
A failure of `accept` other than its deadline ends the process (`AcceptFails`);
that the listener's deadline of 100 ms passes changes nothing and is no action.
Writes succeed or reach their deadline whatever the client does.  What a client
sent is forgotten when its connection ends.

### Workspace

`project`, `openingOperation` and `openingError` are those fields of `WorkspaceState`,
the error reduced to the open it is about; `call[c]` is
where the call `c` of `chooseAndOpen` is, `answer[c]` what `openProject` will
return to it, `cancels` the targets of `cancelRequest` under way, `updates` the
stream updates the web view has not handled.  `c` also names the open in the
daemon and the project it opens; `ClientId(c)` is the id the web view puts on the
card until the stream tells it the other.  Each case of the reducer is an
operator (`Pick`, `OpenAnswers`, `ApplySnapshot`, `ApplyStarted`, `ApplyEnd`,
`CancelOpening`, `HideError`); a picker that fails or is closed is `PickFails`, `PickNothing`.
The other side is what the web view can tell of it: an open is sent, begins,
ends with an event and an answer, or is refused (`Begin`, `End`, `Refuse`); the
host's deadline passes (`GiveUp`); the stream is lost and starts again with a
snapshot (`Lose`, `Subscribe`); the daemon is replaced (`Restart`) and has
nothing to remember, since the host gives it no database file.  Left out: the
path, the task goal and the connection badge with the health request behind it, and the stream id and last
sequence number, which the reducer stores and does not read.  The history
variable `overtaken` says which of project and error is shown because of an answer older
than the daemon's state; see section 5.

### DurableState

`projects`, `last_active`, `tasks` are the tables, in the order of their row
numbers; `up` says that a daemon runs; `project` and `active_task` are what its
session has recovered or opened, `numbered` that it has numbers left for events;
`saving` is the project whose open is in its second critical section, which holds the
repository's mutex from before the first statement until after the report.
`held[h]` is a `Task` value somewhere in the process: several may be copies of one
task.  History variables: `approved`, which plan the user approved for which task;
`reported`, the project last reported by any daemon, be it as opened or, by a daemon
that has just started, as recovered; `failed`, the projects whose open was reported as
failed.  `Budget`, a constant, is what each task is created with; nothing in the code
changes it.  `ResourceBudget` has what becomes of it in the database, whose integers
are signed, with the widths as parameters: `Storable` is the test `save_task` makes
before its statement, `Readable` the one loading makes, and without which there is no
session at all.

| Code | Action |
| --- | --- |
| `save_project` | `SaveProjectRow`, then the second statement, `SaveLastActive`, or its failure, `SaveFails` |
| `complete_success` | `Report`: event and session in one section of the session's lock, some time after the commit; neither when there is no number |
| `emit_locked`, for other events | `NumbersEnd` |
| `save_task` | `SaveTask`, with the choice of the project in `ProjectForNew` |
| `load_task`, `active_task` | `LoadTask`, `TakeActiveTask` |
| `Task::new` and the transitions of `Task` | an action each |
| end of the process | `Die`, between any two of these |
| `with_storage` with `SessionRecovery` | `Start` |

Three queries end in `.ok()`: that for the last active project
(storage.rs 162-167, 198-204) and that for the active task (298-303).  Their failure
is no failure of the call: it reads as if there were no row.  `Ok` gives both
answers, so that a daemon may start without a project, or with one and without its
task, and a new task may be filed under the newest project although another is
active.  The query for the row of the task that is saved (187-193) is of this kind,
too; its answer decides only what the conflict clause decides again.  Any other call
that fails before it has changed anything is no action.

`RecoversReportedProject` says what the database leads to, in every state.  It is not
always the project reported last: a process that dies between the second
statement and the report leaves one that nobody was told of.  It may be that, or the
one reported, and nothing else.

What is committed stays: with `synchronous = NORMAL` that holds when the process
dies, not when the power fails.  The transitions and `save_task` have no caller
outside tests yet: the model allows any sequence of calls the types permit.  Left
out: goal and execution mode, which are stored, read back and decide nothing;
checkpoints and idempotency entries, which recovery does not read.

## 4. Runs

| Run | What is checked | Instance |
| --- | --- | --- |
| `session_ledger` | types, indexes, single execution, ledger, current project, database, refinement of `OnceOnly`, an open cancelled in time comes to nothing | 2 threads, 6 requests, ledger of 2, 6 events, no subscriber, restarts |
| `session_stream` | contiguity, well-formedness, convergence of the client's state, refinement of `WorkspaceFeed` | 2 threads, 2 subscribers, 2 opens, ledger of 1, buffer of 2, 4 events |
| `session_progress` | every open ends, superseded subscriptions end, clients see every end | 1 thread, 2 subscribers, 3 opens, buffer of 1, 4 events |
| `worker_stream` | the supervisor holds on to one daemon, no gap shown as live, every break told, stopping, catching up, end of reconnecting | 2 workers, 2 daemons, exit at any point, 3 events, buffer of 2 |
| `worker_reconcile` | **violated**: ADR 0004, line 35 | 1 worker |
| `worker_replacement` | **violated**: PROJECT.md, F9 | 2 workers |
| `supervisor_exit` | **violated**: ADR 0001, line 13 | 2 daemons |
| `runtime_permits` | types, the counter of permits, permits come back, every request is answered or turned away | 3 connections, 2 permits |
| `runtime_acceptloop` | **violated**: ADR 0004, line 33 | 3 connections, 1 permit |
| `workspace_view` | the project, the card and the error agree with the daemon once all is handled, every card goes away | 2 calls, 1 lost stream or restart |
| `workspace_cancel` | **violated**: PROJECT.md, F13 | 1 call |
| `durable_recovery` | types, keys and references; the database leads to the project reported or to a later one; the task a daemon starts with is the newest that is open; tasks stay in their project and keep their budget; only approved plans run | 2 projects, 3 tasks, 1 plan, 1 `Task` value beside the session's, integers up to 3 and 4 |

Why these bounds.  Every race in the session is between two parties: two
executions, an execution and a retry or a cancellation, an execution and a
subscription, a subscription and its successor.  The six requests of
`session_ledger` (the module is `MCSessionCancel`, for the sake of
`CancelledOpensNothing`) contain each kind of collision once: same key and mutation with
another id, same key with another mutation, same id with another key, two
cancellations of one target, and two paths to one repository.  A ledger of two
overflows with the third key, so that eviction meets entries of every age; a
buffer of two fills while its thread is writing.  The last event number is
reached in all session runs.  Restarts of the session are not bounded.  In
`session_progress` one thread is enough to hold up an open, and a second event
in a buffer of one to cut a subscriber off; with events for a single open only
`ClientSeesEveryEnd` would say nothing.  The daemon is replaced at most
once because the code's budget is one, so two incarnations are all there are.
In `ServerRuntime` a subscription and its successor need two permits, and a third
connection is refused meanwhile or waits behind them; a connection that waits
behind a refused one needs two more than there are permits, hence the single permit of
`runtime_acceptloop`.  `PermitsMatchThreads`, which more connections could
break, is proved.  In `Workspace` two calls are a project and the one that
replaces it, or two opens at once (both pickers open before either card); one
loss falls before, between and after their events.  In `DurableState` a task can be
newest of its project or not, ended in one session and recovered by the next, belong
to a project that is no longer the open one, and be stale in the session, which hands
out copies of it, while a later copy is saved; a third task has an amount one too
large for its column, the others the largest that fits.  Two projects are one that was
reported and one whose open failed or was committed and not reported.
`OnlyApprovedPlansRun` is proved for any number of plans and copies and
`BudgetsAreKept` for all budgets, those without token limits included.  That a
cancellation finds the right one of several opens takes a third thread: that
`CancelledOpensNothing` holds for any number is proved.  `Workers`, `Subscribers`, holders, projects and tasks with the
same budget are symmetric where no liveness is checked.  `CHECK_DEADLOCK FALSE` is set where a run may legitimately stop: every
connection of the finite set has been made and has ended, or the process has;
every call of the web view has been made and answered; or, in `StreamWorker` and
`Supervisor`, the application has ended.

Fairness.  `FairSpec` of `Session` assumes that the system runs the threads that
serve commands, nothing about clients; a thread inspecting a directory is assumed
to come back, as `std::fs` calls do.  What is said of subscriptions is said under
the further premise `SubscribersRun`, that a subscription thread gets on: a
socket write succeeds or fails by its deadline (5 s), `recv` returns when there
is something to return.  So `OpensTerminate` does not depend on subscribers, whose
clients may stop reading for good.  In `StreamWorker` the worker tasks
and the watcher run (every wait in them has a deadline), and a daemon that is
reachable again and again does not time out every subscription and every
health request (strong fairness of `SubscribeSucceeds` and `ProbeSucceeds`).
Nothing is assumed of the daemon's survival or of the user.  In `ServerRuntime`
the accept loop and the connections' threads run, and each of their reads and
writes ends by its deadline; clients may stay silent for good.  In `Workspace`
the web view handles what has arrived, an open that was sent is answered, if
only by the host's deadline, and one that runs ends (which
`session_progress` checks of the session); nothing is assumed of the user or the stream.

Each passing property has a mutant, an operator next to the definition it
would replace, written as a plausible slip of the code, that makes TLC report
the property violated.

## 5. Findings

`worker_reconcile`.  ADR 0004 guarantees that the client reconciles after
buffer overflows and restarts.  TLC's trace: the worker is connected; two
events come faster than it reads; the second overflows the buffer and the
daemon drops the sender, ending the stream; the worker shows the first event
and reads on.  The end of the stream looks like a timeout, the health request
on a fresh connection succeeds, and the worker reads the ended stream for ever,
with the web view "live" on an old state.  The same happens when a restart
completes between two reads.  A frame torn by the deadline does not share this
fate, and is left aside in the property.

`worker_replacement`.  The worker checks its cancel flag, then subscribes.  If
it is superseded in between and its subscription reaches the daemon after that
of its replacement, the daemon feeds the superseded worker, which then stops;
the replacement, which the web view listens to, has a stream that has ended.
With the first finding it will not notice.

`runtime_acceptloop`.  ADR 0004 says that command operations never block the
accept loop.  A connection that gets no permit is refused by the accepting thread,
which first reads its request to answer it under its id.  TLC's trace: a
connection is refused because the only permit is taken; its client sends
nothing; the permit comes back, another client connects, and waits until the
refused one's deadline passes.  The read has three parts with a deadline of 5 s
each, longer than the 2 s the host's own requests wait.

`workspace_cancel`.  The card of an open offers to cancel it.  The id on the
card is one the web view made up; `openProject` does not carry it, and the host
gives the open a UUID.  TLC's trace: the user picks a directory and cancels
before the stream has announced the open; the cancellation names an open the
daemon has never heard of, while the daemon begins the real one.  The daemon answers
that there is no such operation, and the card says "Cancelling..." until
`operationStarted` turns it back to "opening".

`supervisor_exit`.  ADR 0001 says that an exit of the application shuts the
daemon down.  The exit kills the child `DaemonState` holds.  Two interleavings of the
same length end with the application's process gone and a daemon alive, and which of
them TLC prints depends on the order in which its workers search.  In one, the daemon
has died, the watcher has taken the old child away and spawned another, and the
exit falls before `StoreChild`: there is no child to kill.  In the other, the exit
kills the child; the watcher, which is told that it terminated and knows nothing of
the exit, discards it and spawns another.  The daemon's loop does not look at its
parent, so nothing ends it later.

Seen while modelling, without a statement in the repository to hold against it:
the answer to an open may come after the daemon has gone on to another project,
and then shows the older one until the next event (`overtaken`); an open the host has
given up may succeed, and if the host's error comes after the event of success it
stays next to the opened project until the next event (`overtaken` again); when the
restart budget is spent nobody tells the web view, which says reconnecting for good;
`execute_health` keeps asking the daemon it began with, dead or not; `load_task`
gives back an ended task as a draft, which may be saved as active again; a task
first saved after another project was opened is filed under that one, and when
the query for the open project fails, under the newest row of `projects`, which may be
that of an open that failed; a daemon whose query for the last project fails starts
without one and says nothing, and one whose last project was committed
and not reported starts with it, also when the client was answered with an internal
error because the numbers were used up.

## 6. Proofs

`SessionProofs` proves, for all finite or infinite sets of threads, ids, keys
and requests and all values of the limits that satisfy the assumptions of
`Session` (`ConstantsAssumption`, `NoneAssumption`: the limits are positive
naturals, `None` is none of the other values):

- `TypeCorrect`: `Spec => []TypeOK`.  `TypeOK` alone is not inductive, since
  `Settle` uses the request of a worker as an open without looking at it;
  `TypeInv` adds `WorkerHoldsOpen`, that a worker executing holds an open
  request and one about to settle an answer.
- `RunningTracked`: `Spec => []RunningIsTracked`.  Inductive relative to
  `TypeInv` once it is known that two executing workers never share a key or an
  id; `TrackInv` conjoins the two.
- `KeyExecutedOnce`: `Spec => []KeyExecutesOnce`, from `TrackInv`: a key enters
  `in_flight` only if it is in neither map, and enters `completed` only in the
  step that takes it out of `in_flight`, or directly from a cancellation.

A restart needs no argument of its own: the state after it is an initial one
(`RestartInit`), for which the invariants are known.

The argument is by induction on steps: one lemma per action, each from what the
action does to the two indexes and to the worker's position.  A lemma is stated
once for the actions that leave indexes and positions of executing workers
alone.  Lemmas on `Insert` and `Restrict` stand for the hash maps.

`SessionLedgerProofs` continues from `TrackInv`, under one more assumption
(`AnswerAssumption` of `SessionOnce`: `None` is no answer):

- `LedgerEnumerated`, `LastSuccessCurrent`, `DiskMatched`:
  `Spec => []LedgerIsEnumerated`, `[]LastSuccessIsCurrent`, `[]DiskMatchesMemory`.
  Entries enter the ledger one at a time, so at most one goes out, and it is the
  oldest (`PushShape`): that keeps a queue an enumeration of its map without
  duplicates (`PushEnumerates`), provided the new key is in neither.  For an open
  this is `KeyExecutesOnce` again, for a cancellation its guard; `LedgerInv`
  therefore holds `TrackInv`, that a worker holds a request that was sent, and
  that the answer it is about to write is there.
- `OnceOnlyImplemented`: `Spec => ImplementsOnceOnly`.  Under the mapping of
  `SessionOnce`, every step of the session is a step of `OnceOnly` or changes
  nothing of it: the first section of an open is a replay, a refusal or a start,
  `Settle` is the answer, `Cancel` both at once.  What the abstract service keeps
  is a sequence of calls with their answers, which the session has as a queue of
  keys and a map; `PushEqual` says that cutting both back comes to the same, and
  it needs `LedgerIsEnumerated`.

`SessionCancelProofs` continues from `TrackInv` and proves

- `CancelledComesToNothing`: `CancelSpec => CancelledOpensNothing`.  `RevokedInv` says
  that a revoked thread has its flag up until its second look and has an answer
  that opens nothing from then on.  That an accepted cancellation raises the flag of the
  very thread whose open it names is `RunningIsTracked`: no two executing threads
  share a request id, and `active` leads from the id to its thread.

`SessionFeedProofs` continues from `TrackInv`, too:

- `StreamContiguous`, `StreamWellFormed`, `ReplicaConverged`:
  `Spec => []StreamIsContiguous`, `[]StreamIsWellFormed`, `[]ReplicaConverges`.
  None is inductive alone.  `Streams` says of each connection that the states its
  client goes through (`Trajectory`) are numbered one by one, that every event
  fits the state it is applied to, and that the subscriber being fed ends up at
  the snapshot of the daemon.  The last makes the next event fit: what the client
  will know by then is the set of running operations, and by `RunningIsTracked`
  the operation that ends is among them and the one that starts is not.
- `FeedImplemented`: `Spec => ImplementsFeed`.  An announcement is `Publish`,
  taking an event is `Advance` to the first of the states that are owed, a
  subscription is `Connect`, whatever cuts a connection off is `Disconnect`.

What a client knows is defined by recursion on the events in its channel.  That such a
function exists, is the only one, and what it becomes when an event is added or
taken is not proved by induction over sequences, which the prover cannot do here,
but from the least index at which it would fail (`LeastExists`, from the library's
`WFMin`).

`ServerRuntimeProofs` proves, for every finite set of connections and every
positive limit (`RuntimeAssumption`):

- `PermitsConserved`: `Spec => []PermitsMatchThreads`, and `TypeCorrect`.  They
  need each other: `Drop` subtracts without looking, and only because the counter
  is the number of holders is it not zero then.  `IInv` adds `BacklogWaits`:
  accepting a connection increments the counter, which is right only if the
  connection has no thread yet and waits once.

`DurableStateProofs` proves, for any projects, tasks, plans, places of `Task`
values (`DurableStateAssumption`: `None` is none of them), any budgets, and
integers of any widths that are in the order of the code's (`WidthsAssumption`):

- `RestartRecoversProject`: `Spec => []RecoversReportedProject`.  The inductive
  invariant `ProjectInv` says that the last active project is the one reported or
  one with a later row, that neither it nor the one being saved has failed, and that
  the row of the one being saved is the newest until its open is over: the order of
  the two statements, and the mutex held from the first to the report, are
  what makes the end of the process between them harmless.
- `TypeCorrect`, with the keys and references of the schema, and
  `ApprovedPlansOnly`: `Spec => []OnlyApprovedPlansRun`.  `IInv` adds to them that a
  recovered task is a draft and that a plan is there when approval is asked for.
- `BudgetsKept`: `Spec => []BudgetsAreKept`.  `RoundTrip`, on the operators of
  `ResourceBudget` alone, says that a budget that fits comes back from its columns
  as it was; `IInv` carries it from the save to the load with `RowBudgets`.
- `SavedTasksStay`: `Spec => TasksStayInProject`, an action property, from `IInv`.
- `RecoveredTaskOpen`: `Spec => RecoveredTaskIsOpen`, an action property of every start,
  also of one that recovers the task the last daemon had.  Recovery looks at
  `is_active`; `RowsSayActive` says that the column agrees with the state in every
  row, since every save writes both.  `LastExists`, that a set of positions has a last
  one, stands for `ORDER BY rowid DESC LIMIT 1`.

`StreamWorkerProofs` proves, for any number of subscriptions, any last event number
and any positive capacity (`BoundsAssumption`):

- `HostHolds`: `Spec => []HostHoldsDaemon`, from the supervisor's own actions
  (`HostStep`), as every step of the worker model is one of them or leaves the
  supervised variables alone (`SupervisedStep`).  `Replacement` adds where the
  watcher is: there is no daemon and no client while it is about to spawn one, and
  it has a budget for one only while the first daemon is the last.
- `WorkerTypes`, `LiveConnected`, `InboxContinues`: `Spec => []TypeOK`,
  `[]LiveMeansConnected`, `[]InboxContinuesView`.  `WorkerInv` adds what holds before
  the view is live: from the snapshot on, the inbox of a connection continues
  `expected`, and reaches the daemon's last event while the daemon feeds it
  (`Follows`).  It survives a replacement because the daemon that feeds a
  connection is up (`FedByDaemon`), and one that is up is not replaced.
- `UpdatesConsecutive`: `Spec => UpdatesAreConsecutive`, an action property.

`WorkspaceProofs` proves, for any calls and any number of losses of the stream
(`WorkspaceAssumption`: `None` is no call):

- `ViewTypes`, `ProjectAuthoritative`, `NoErrorForOpen`, `CardShowsRunning`:
  `Spec => []TypeOK`, `[]ProjectIsAuthoritative`, `[]NoErrorForOpenProject`,
  `[]CardShowsRunningOpen`.  The three speak of a web view that has handled
  everything.  `ViewInv` says what holds before: of the updates on their way, the
  last that speaks of the project (of the error, of the card) agrees with the
  daemon (`Latest`), and if none speaks of it the view does.  `OpensAreOrdered`
  adds that the daemon's project is that of an open that has ended, so that no
  error announced later can be about it.

Every invariant and every action property of the passing runs is proved, and both
refinements.  The inductive invariants `LedgerInv`, `WorkerInv` and `ViewInv` were
checked with TLC, on the instances of section 4, before they were proved; of
`FeedInv`, TLC checks the three properties it consists of.

Only model-checked: the liveness properties (`OpensTerminate`,
`SupersededSubscriptionEnds`, `ClientSeesEveryEnd`, `SupersededWorkerStops`,
`FedWorkerCatchesUp`, `ReconnectingEnds`, `PermitsComeBack`, `RequestsAreAnswered`,
`OpeningEnds`), since fairness and `ENABLED` are out of the prover's reach.  The
violated properties of section 5 are false, and TLC's traces are the argument.

## 7. Not modelled

See the components in `PROJECT.json` with status `not_modelled` and, for parts of
others, their notes: the vault (no caller yet), decoders of JSON (no state),
presentation, packaging, and the operating system's side of sockets and
permissions.
