------------------------------- MODULE Session -------------------------------
(***************************************************************************)
(* The daemon's session: one mutex-protected state shared by the threads   *)
(* that serve client connections (crates/kesharon-daemon/src/session.rs).  *)
(*                                                                         *)
(* A worker is the thread of one command connection.  An openProject       *)
(* request runs in two critical sections of the session lock with an       *)
(* unlocked middle (OpenProject::execute), a cancelRequest in one.  A      *)
(* subscriber is the thread of one subscription connection, which drains a *)
(* bounded channel to its socket.  Each critical section is one action;    *)
(* the unlocked middle has one action per point where another thread can   *)
(* get in between.                                                         *)
(***************************************************************************)
EXTENDS Naturals, Sequences, SequencesExt

CONSTANTS
  Workers,             \* threads serving command connections
  Subscribers,         \* threads serving subscription connections
  RequestIds,          \* request ids clients choose
  Keys,                \* idempotency keys clients choose
  Paths,               \* paths clients ask to open
  Roots,               \* canonical roots of repositories
  CanonicalRoot,       \* what canonicalising a path yields
  Requests,            \* the requests clients may send, and resend
  LedgerLimit,         \* IDEMPOTENCY_LIMIT
  SubscriberCapacity,  \* SUBSCRIBER_CAPACITY
  MaxSequence,         \* u64::MAX
  Persistent,          \* the state database is a file, not in memory
  None                 \* no project, no subscriber, no request, no answer

\* A mutation is its own fingerprint: the code compares exactly this payload.
Mutations == [op : {"open"}, path : Paths] \cup
             [op : {"cancel"}, target : RequestIds]

AllRequests == [id : RequestIds, key : Keys, mutation : Mutations]

\* Project ids are fresh UUIDs: here, consecutive numbers.
Projects == [id : Nat, root : Roots]
MaybeProject == Projects \cup {None}

Codes == {"projectOpened", "operationCancelled", "projectPathUnavailable",
          "accepted", "alreadyFinished", "notFound",
          "requestInProgress", "invalidRequest", "internalError"}

\* A response without the request id, which a replay overwrites anyway.
Responses == [code : Codes, project : MaybeProject]

EventKinds == {"operationStarted", "projectOpened",
               "operationCancelled", "operationFailed"}

Events == [sequence : Nat, kind : EventKinds, request : RequestIds,
           project : MaybeProject]

Views == [sequence : Nat, project : MaybeProject, active : SUBSET RequestIds]

ASSUME ConstantsAssumption ==
  /\ Requests \subseteq AllRequests
  /\ CanonicalRoot \in [Paths -> Roots]
  /\ LedgerLimit \in Nat \ {0}
  /\ SubscriberCapacity \in Nat \ {0}
  /\ MaxSequence \in Nat
  /\ Persistent \in BOOLEAN

ASSUME NoneAssumption ==
  None \notin Subscribers \cup AllRequests \cup Projects \cup Responses

VARIABLES
  project,                  \* the open project the daemon reports
  active,                   \* request id -> worker whose flag a cancel sets
  in_flight,                \* idempotency key -> mutation being executed
  completed,                \* idempotency key -> mutation and response
  completed_order,          \* keys of completed, oldest first
  completed_requests,       \* ids of finished requests
  completed_request_order,  \* the same ids, oldest first
  sequence,                 \* sequence number of the last event
  subscriber,               \* thread holding the receiver of the live sender
  stored,                   \* last active project in the state database
  minted,                   \* project ids generated so far
  pc, req, cancelled, answer,   \* of each worker
  stage, queue, view            \* of each subscriber

ledger     == <<completed, completed_order, completed_requests,
                completed_request_order>>
operations == <<active, in_flight>>
worker     == <<pc, req, cancelled, answer>>
channel    == <<stage, queue, view>>
stream     == <<sequence, subscriber, queue>>
vars       == <<project, operations, ledger, sequence, subscriber, stored, minted,
                worker, channel>>

Reply(code)  == [code |-> code, project |-> None]
Opened(p)     == [code |-> "projectOpened", project |-> p]

\* The state a connecting client is given.
Snapshot == [sequence |-> sequence, project |-> project,
             active |-> DOMAIN active]

EmptyView == [sequence |-> 0, project |-> None, active |-> {}]

\* What a client that applies one event to what it knows ends up with.  It is
\* the reader the protocol has in mind, not the web view: that keeps one running
\* open of the several there may be, and is in Workspace.
Apply(v, e) ==
  [sequence |-> e.sequence,
   project  |-> IF e.kind = "projectOpened" THEN e.project ELSE v.project,
   active   |-> IF e.kind = "operationStarted"
                THEN v.active \cup {e.request}
                ELSE v.active \ {e.request}]

\* The project in the database, or none if the query for it fails (.ok() in
\* load_last_active_project).
Init ==
  /\ stored \in {None} \cup [id : {0}, root : IF Persistent THEN Roots ELSE {}]
  /\ project \in {stored, None}
  /\ active = << >> /\ in_flight = << >>
  /\ completed = << >> /\ completed_order = << >>
  /\ completed_requests = {} /\ completed_request_order = << >>
  /\ sequence = 0
  /\ subscriber = None
  /\ minted = 0
  /\ pc = [w \in Workers |-> "idle"]
  /\ req = [w \in Workers |-> None]
  /\ cancelled = [w \in Workers |-> FALSE]
  /\ answer = [w \in Workers |-> None]
  /\ stage = [s \in Subscribers |-> "closed"]
  /\ queue = [s \in Subscribers |-> << >>]
  /\ view = [s \in Subscribers |-> EmptyView]

\* HashMap::insert; Restrict, of Functions, does for HashMap::remove.
Insert(f, k, v) ==
  [x \in DOMAIN f \cup {k} |-> IF x = k THEN v ELSE f[x]]

-----------------------------------------------------------------------------
(* emit_locked: number the event and hand it to the subscriber without      *)
(* blocking.  A full buffer or a dropped receiver costs the subscriber its  *)
(* sender, and the event is lost to it.                                     *)

\* Mutant: an unbounded channel in the place of the bounded one.
CanSendUnbounded == subscriber # None /\ stage[subscriber] # "closed"

CanSend == /\ subscriber # None
           /\ stage[subscriber] # "closed"
           /\ Len(queue[subscriber]) < SubscriberCapacity

\* Mutant: a full buffer costs the subscriber the event, but not the feed.
EmitDropping(kind, id, p) ==
  LET event == [sequence |-> sequence + 1, kind |-> kind, request |-> id,
                project |-> p]
  IN /\ sequence' = sequence + 1
     /\ queue' = IF CanSend
                 THEN [queue EXCEPT ![subscriber] = Append(@, event)]
                 ELSE queue
     /\ UNCHANGED subscriber

\* Mutant: send in the place of try_send waits for room in the buffer.
EmitBlocking(kind, id, p) ==
  LET event == [sequence |-> sequence + 1, kind |-> kind, request |-> id,
                project |-> p]
  IN /\ sequence' = sequence + 1
     /\ IF subscriber = None \/ stage[subscriber] = "closed"
        THEN subscriber' = None /\ UNCHANGED queue
        ELSE /\ CanSend
             /\ queue' = [queue EXCEPT ![subscriber] = Append(@, event)]
             /\ UNCHANGED subscriber

Emit(kind, id, p) ==
  LET event == [sequence |-> sequence + 1, kind |-> kind, request |-> id,
                project |-> p]
  IN /\ sequence' = sequence + 1
     /\ IF CanSend
        THEN /\ queue' = [queue EXCEPT ![subscriber] = Append(@, event)]
             /\ UNCHANGED subscriber
        ELSE /\ subscriber' = None
             /\ UNCHANGED queue

\* Mutant: the last number is not recognised as the last.
CanEmitOnceMore == sequence <= MaxSequence

CanEmit == sequence < MaxSequence

-----------------------------------------------------------------------------
(* remember_completed: the ledger of finished mutations.                    *)

\* Mutant: off by one, the map keeps what the queue has forgotten.
ExpiredLate(order) == {order[i] : i \in 1 .. (Len(order) - LedgerLimit - 1)}

Expired(order) == {order[i] : i \in 1 .. (Len(order) - LedgerLimit)}

Newest(order) ==
  IF Len(order) > LedgerLimit
  THEN SubSeq(order, Len(order) - LedgerLimit + 1, Len(order))
  ELSE order

Remember(r, response) ==
  LET entry    == [mutation |-> r.mutation, response |-> response]
      order    == IF r.key \in DOMAIN completed THEN completed_order
                  ELSE Append(completed_order, r.key)
      requests == IF r.id \in completed_requests THEN completed_request_order
                  ELSE Append(completed_request_order, r.id)
  IN /\ completed' = Restrict(Insert(completed, r.key, entry),
                       (DOMAIN completed \cup {r.key}) \ Expired(order))
     /\ completed_order' = Newest(order)
     /\ completed_requests' =
          (completed_requests \cup {r.id}) \ Expired(requests)
     /\ completed_request_order' = Newest(requests)

-----------------------------------------------------------------------------
(* The ways a mutation ends in its first critical section.                  *)

Respond(w, r, response) ==
  /\ pc' = [pc EXCEPT ![w] = "replying"]
  /\ req' = [req EXCEPT ![w] = r]
  /\ answer' = [answer EXCEPT ![w] = response]
  /\ UNCHANGED cancelled

Untouched == UNCHANGED <<project, operations, ledger, stream, stored, minted,
                         channel>>

\* A finished key: its response again, or a conflict with another mutation.
Replay(w, r) ==
  /\ r.key \in DOMAIN completed
  /\ Respond(w, r, IF completed[r.key].mutation = r.mutation
                   THEN completed[r.key].response
                   ELSE Reply("invalidRequest"))
  /\ Untouched

\* A running key: still in progress, or a conflict with another mutation.
Busy(w, r) ==
  /\ r.key \notin DOMAIN completed
  /\ r.key \in DOMAIN in_flight
  /\ Respond(w, r, IF in_flight[r.key] = r.mutation
                   THEN Reply("requestInProgress")
                   ELSE Reply("invalidRequest"))
  /\ Untouched

\* Mutant: a key in execution is not recognised.
FreshUnlessFinished(r) == r.key \notin DOMAIN completed

\* Mutant: a finished key is not recognised.
FreshUnlessRunning(r) == r.key \notin DOMAIN in_flight

Fresh(r) == r.key \notin DOMAIN completed \cup DOMAIN in_flight

\* A second open under the id of a running one.
DuplicateId(w, r) ==
  /\ r.mutation.op = "open"
  /\ Fresh(r)
  /\ r.id \in DOMAIN active
  /\ Respond(w, r, Reply("requestInProgress"))
  /\ Untouched

\* Mutant: the roll-back leaves the idempotency key behind.
StartHalfUndone(w, r) ==
  /\ r.mutation.op = "open"
  /\ Fresh(r)
  /\ r.id \notin DOMAIN active
  /\ ~CanEmit
  /\ in_flight' = Insert(in_flight, r.key, r.mutation)
  /\ Respond(w, r, Reply("internalError"))
  /\ UNCHANGED <<project, active, ledger, stream, stored, minted, channel>>

\* The start cannot be announced, and is rolled back.
StartUnannounced(w, r) ==
  /\ r.mutation.op = "open"
  /\ Fresh(r)
  /\ r.id \notin DOMAIN active
  /\ ~CanEmit
  /\ Respond(w, r, Reply("internalError"))
  /\ Untouched

Start(w, r) ==
  /\ r.mutation.op = "open"
  /\ Fresh(r)
  /\ r.id \notin DOMAIN active
  /\ CanEmit
  /\ in_flight' = Insert(in_flight, r.key, r.mutation)
  /\ active' = Insert(active, r.id, w)
  /\ Emit("operationStarted", r.id, None)
  /\ pc' = [pc EXCEPT ![w] = "started"]
  /\ req' = [req EXCEPT ![w] = r]
  /\ cancelled' = [cancelled EXCEPT ![w] = FALSE]
  /\ UNCHANGED <<answer, project, ledger, stored, minted, stage, view>>

Cancel(w, r) ==
  /\ r.mutation.op = "cancel"
  /\ Fresh(r)
  /\ LET target  == r.mutation.target
         isActive == target \in DOMAIN active
         outcome == IF isActive THEN "accepted"
                    ELSE IF target \in completed_requests
                         THEN "alreadyFinished" ELSE "notFound"
     IN /\ cancelled' = IF isActive
                        THEN [cancelled EXCEPT ![active[target]] = TRUE]
                        ELSE cancelled
        /\ answer' = [answer EXCEPT ![w] = Reply(outcome)]
        /\ Remember(r, Reply(outcome))
  /\ pc' = [pc EXCEPT ![w] = "replying"]
  /\ req' = [req EXCEPT ![w] = r]
  /\ UNCHANGED <<project, operations, stream, stored, minted, stage, view>>

Receive(w) ==
  /\ pc[w] = "idle"
  /\ \E r \in Requests :
       \/ Replay(w, r)
       \/ Busy(w, r)
       \/ DuplicateId(w, r)
       \/ StartUnannounced(w, r)
       \/ Start(w, r)
       \/ Cancel(w, r)

-----------------------------------------------------------------------------
(* OpenProject::execute, outside the lock: check the flag, inspect the      *)
(* repository, check the flag again, generate an id.                        *)

Executed(w, response) ==
  /\ pc' = [pc EXCEPT ![w] = "settling"]
  /\ answer' = [answer EXCEPT ![w] = response]

Unlocked == UNCHANGED <<project, operations, ledger, stream, stored, channel,
                        req, cancelled>>

\* Mutant: the flag is cleared by the thread that begins to execute, rather than
\* before other threads can find it.
CheckBeforeClearing(w) ==
  /\ pc[w] = "started"
  /\ cancelled' = [cancelled EXCEPT ![w] = FALSE]
  /\ pc' = [pc EXCEPT ![w] = "inspecting"]
  /\ UNCHANGED <<project, operations, ledger, stream, stored, channel, req,
                 answer, minted>>

CheckBefore(w) ==
  /\ pc[w] = "started"
  /\ \/ /\ cancelled[w]
        /\ Executed(w, Reply("operationCancelled"))
     \/ /\ ~cancelled[w]
        /\ pc' = [pc EXCEPT ![w] = "inspecting"]
        /\ UNCHANGED answer
  /\ UNCHANGED minted
  /\ Unlocked

Inspect(w) ==
  /\ pc[w] = "inspecting"
  /\ \/ /\ pc' = [pc EXCEPT ![w] = "inspected"]
        /\ UNCHANGED answer
     \/ Executed(w, Reply("projectPathUnavailable"))
  /\ UNCHANGED minted
  /\ Unlocked

CheckAfter(w) ==
  /\ pc[w] = "inspected"
  /\ \/ /\ cancelled[w]
        /\ Executed(w, Reply("operationCancelled"))
        /\ UNCHANGED minted
     \/ /\ ~cancelled[w]
        /\ minted' = minted + 1
        /\ Executed(w, Opened([id   |-> minted + 1,
                               root |-> CanonicalRoot[req[w].mutation.path]]))
  /\ Unlocked

-----------------------------------------------------------------------------
(* The second critical section of an open.                                  *)

\* Mutant: an open that opens nothing ends without an event.
CompleteSilently(w, kind, response) ==
  /\ answer' = [answer EXCEPT ![w] = response]
  /\ Remember(req[w], response)
  /\ UNCHANGED <<stream, project>>

\* complete_cancellation, complete_failure: report the outcome, or an
\* internal error when it cannot be announced.
Complete(w, kind, response) ==
  LET final == IF CanEmit THEN response ELSE Reply("internalError")
  IN /\ IF CanEmit THEN Emit(kind, req[w].id, None) ELSE UNCHANGED stream
     /\ answer' = [answer EXCEPT ![w] = final]
     /\ Remember(req[w], final)
     /\ UNCHANGED project

\* Mutant: the announced project does not become the current one.
CompleteUnassigned(w, p) ==
  IF CanEmit
  THEN /\ Emit("projectOpened", req[w].id, p)
       /\ Remember(req[w], answer[w])
       /\ UNCHANGED <<project, answer>>
  ELSE /\ answer' = [answer EXCEPT ![w] = Reply("internalError")]
       /\ Remember(req[w], Reply("internalError"))
       /\ UNCHANGED <<stream, project>>

\* complete_success: announce the project, then make it the current one.
CompleteSuccess(w, p) ==
  IF CanEmit
  THEN /\ Emit("projectOpened", req[w].id, p)
       /\ project' = p
       /\ Remember(req[w], answer[w])
       /\ UNCHANGED answer
  ELSE /\ answer' = [answer EXCEPT ![w] = Reply("internalError")]
       /\ Remember(req[w], Reply("internalError"))
       /\ UNCHANGED <<stream, project>>

Settle(w) ==
  /\ pc[w] = "settling"
  /\ active' = Restrict(active, DOMAIN active \ {req[w].id})
  /\ in_flight' = Restrict(in_flight, DOMAIN in_flight \ {req[w].key})
  /\ \/ /\ answer[w].code = "projectOpened"      \* save_project succeeds
        /\ stored' = answer[w].project
        /\ CompleteSuccess(w, answer[w].project)
     \/ /\ answer[w].code = "projectOpened"      \* save_project fails
        /\ Complete(w, "operationFailed", Reply("internalError"))
        /\ UNCHANGED stored
     \/ /\ answer[w].code = "operationCancelled"
        /\ Complete(w, "operationCancelled", answer[w])
        /\ UNCHANGED stored
     \/ /\ answer[w].code = "projectPathUnavailable"
        /\ Complete(w, "operationFailed", answer[w])
        /\ UNCHANGED stored
  /\ pc' = [pc EXCEPT ![w] = "replying"]
  /\ UNCHANGED <<minted, req, cancelled, stage, view>>

\* The response is written, or lost with the connection.
WriteReply(w) ==
  /\ pc[w] = "replying"
  /\ pc' = [pc EXCEPT ![w] = "idle"]
  /\ req' = [req EXCEPT ![w] = None]
  /\ cancelled' = [cancelled EXCEPT ![w] = FALSE]
  /\ answer' = [answer EXCEPT ![w] = None]
  /\ Untouched

-----------------------------------------------------------------------------
(* A subscription thread.  Its view is what it has taken to write: the      *)
(* snapshot, then every event drained from its channel.                     *)

\* Everything but the channel of subscriber s.
Elsewhere == UNCHANGED <<project, operations, ledger, sequence, stored,
                         minted, worker>>

Subscribe(s) ==
  /\ stage[s] = "closed"
  /\ subscriber' = s
  /\ stage' = [stage EXCEPT ![s] = "writing"]
  /\ queue' = [queue EXCEPT ![s] = << >>]
  /\ view' = [view EXCEPT ![s] = Snapshot]
  /\ Elsewhere

Take(s) ==
  /\ stage[s] = "waiting"
  /\ queue[s] # << >>
  /\ stage' = [stage EXCEPT ![s] = "writing"]
  /\ view' = [view EXCEPT ![s] = Apply(@, Head(queue[s]))]
  /\ queue' = [queue EXCEPT ![s] = Tail(@)]
  /\ UNCHANGED subscriber
  /\ Elsewhere

Written(s) ==
  /\ stage[s] = "writing"
  /\ stage' = [stage EXCEPT ![s] = "waiting"]
  /\ UNCHANGED <<subscriber, queue, view>>
  /\ Elsewhere

\* The receiver is dropped; the session notices at its next event.
Close(s) ==
  /\ stage' = [stage EXCEPT ![s] = "closed"]
  /\ queue' = [queue EXCEPT ![s] = << >>]
  /\ view' = [view EXCEPT ![s] = EmptyView]
  /\ UNCHANGED subscriber
  /\ Elsewhere

WriteFails(s) == stage[s] = "writing" /\ Close(s)

\* Mutant: a superseded subscriber keeps a sender to its own channel alive.
EndOfStreamUnlessReplaced(s) ==
  /\ stage[s] = "waiting"
  /\ queue[s] = << >>
  /\ subscriber = None
  /\ Close(s)

\* recv fails once the sender is gone and the buffer drained.
EndOfStream(s) ==
  /\ stage[s] = "waiting"
  /\ queue[s] = << >>
  /\ subscriber # s
  /\ Close(s)

-----------------------------------------------------------------------------
(* The daemon dies at any point, and a new one starts.  The project it      *)
(* recovers is called 0, which no id generated from here on is.             *)

\* The process is gone, with its threads and connections.
Lost ==
  /\ sequence' = 0
  /\ subscriber' = None
  /\ pc' = [w \in Workers |-> "idle"]
  /\ req' = [w \in Workers |-> None]
  /\ cancelled' = [w \in Workers |-> FALSE]
  /\ answer' = [w \in Workers |-> None]
  /\ stage' = [s \in Subscribers |-> "closed"]
  /\ queue' = [s \in Subscribers |-> << >>]
  /\ view' = [s \in Subscribers |-> EmptyView]

\* What the database may hold by then: the process may die in the middle of
\* Settle, when save_project has committed and nobody has been told.
Committed ==
  {stored} \cup {answer[w].project :
                   w \in {v \in Workers : /\ pc[v] = "settling"
                                          /\ answer[v].code = "projectOpened"}}

\* with_storage: all that a new process knows is the project it recovers, if it
\* can read it.
Restart ==
  /\ Lost
  /\ \E p \in Committed :
       stored' = IF Persistent /\ p # None THEN [p EXCEPT !.id = 0] ELSE None
  /\ project' \in {stored', None}
  /\ active' = << >> /\ in_flight' = << >>
  /\ completed' = << >> /\ completed_order' = << >>
  /\ completed_requests' = {} /\ completed_request_order' = << >>
  /\ minted' = 0

-----------------------------------------------------------------------------
WorkerStep(w) == CheckBefore(w) \/ Inspect(w) \/ CheckAfter(w)
                 \/ Settle(w) \/ WriteReply(w)

SubscriberStep(s) == Take(s) \/ Written(s) \/ WriteFails(s) \/ EndOfStream(s)

Next == \/ \E w \in Workers : Receive(w) \/ WorkerStep(w)
        \/ \E s \in Subscribers : Subscribe(s) \/ SubscriberStep(s)
        \/ Restart

Spec == Init /\ [][Next]_vars

\* The operating system runs the daemon's threads: what a thread serving a
\* command can do next it eventually does.  Clients owe nothing, and may stop
\* reading for good.
FairSpec == Spec /\ \A w \in Workers : WF_vars(WorkerStep(w))

\* A socket write completes or fails within its timeout, and a blocked recv
\* returns once there is something to return.
SubscribersRun == \A s \in Subscribers : WF_vars(SubscriberStep(s))

-----------------------------------------------------------------------------
(* Type invariant.  It names no code behaviour beyond the Rust types.       *)

IsPartial(f, S, T) == DOMAIN f \subseteq S /\ f \in [DOMAIN f -> T]

LedgerTypes ==
  /\ IsPartial(completed, Keys, [mutation : Mutations, response : Responses])
  /\ completed_order \in Seq(Keys)
  /\ completed_requests \in SUBSET RequestIds
  /\ completed_request_order \in Seq(RequestIds)

StreamTypes ==
  /\ sequence \in 0 .. MaxSequence
  /\ subscriber \in Subscribers \cup {None}
  /\ queue \in [Subscribers -> Seq(Events)]

TypeOK ==
  /\ project \in MaybeProject /\ stored \in MaybeProject
  /\ IsPartial(active, RequestIds, Workers)
  /\ IsPartial(in_flight, Keys, Mutations)
  /\ LedgerTypes
  /\ StreamTypes
  /\ minted \in Nat
  /\ pc \in [Workers -> {"idle", "started", "inspecting", "inspected",
                         "settling", "replying"}]
  /\ req \in [Workers -> AllRequests \cup {None}]
  /\ cancelled \in [Workers -> BOOLEAN]
  /\ answer \in [Workers -> Responses \cup {None}]
  /\ stage \in [Subscribers -> {"closed", "writing", "waiting"}]
  /\ view \in [Subscribers -> Views]

-----------------------------------------------------------------------------
(* Safety.                                                                  *)

Executing(w) == pc[w] \in {"started", "inspecting", "inspected", "settling"}

\* The session's two indexes of running opens, by request id and by key, and
\* the threads that run them say the same: nothing that ended, was refused or
\* was rolled back leaves an entry behind, which would make its key answer
\* "still running" and its id un-openable for good, and no entry is missing.
RunningIsTracked ==
  /\ \A w \in Workers : Executing(w) =>
       /\ req[w] \in AllRequests
       /\ req[w].id \in DOMAIN active /\ active[req[w].id] = w
       /\ req[w].key \in DOMAIN in_flight
       /\ in_flight[req[w].key] = req[w].mutation
  /\ \A i \in DOMAIN active : Executing(active[i]) /\ req[active[i]].id = i
  /\ \A k \in DOMAIN in_flight :
       \E w \in Workers : Executing(w) /\ req[w].key = k

\* A key is being executed by at most one thread and never while its answer
\* is remembered: however often a client resends a mutation, it runs once.
KeyExecutesOnce ==
  /\ DOMAIN in_flight \cap DOMAIN completed = {}
  /\ \A v, w \in Workers :
       Executing(v) /\ Executing(w) /\ req[v].key = req[w].key => v = w

\* The eviction queues and the maps they bound hold the same entries, each
\* once and at most LedgerLimit of them: a key missing from its queue would
\* never be evicted, a repeated one would evict a fresh answer.
Enumerates(order, S) ==
  /\ S = {order[i] : i \in DOMAIN order}
  /\ \A i, j \in DOMAIN order : order[i] = order[j] => i = j
  /\ Len(order) <= LedgerLimit

LedgerIsEnumerated ==
  /\ Enumerates(completed_order, DOMAIN completed)
  /\ Enumerates(completed_request_order, completed_requests)

\* The reported project is the one of the last success still in the ledger,
\* in order of completion, whatever opens and cancels finished around it.
LastSuccessIsCurrent ==
  \A i \in DOMAIN completed_order :
    LET response == completed[completed_order[i]].response
        laterOpens == {j \in i + 1 .. Len(completed_order) :
               completed[completed_order[j]].response.code = "projectOpened"}
    IN response.code = "projectOpened" /\ laterOpens = {}
         => project = response.project

\* The state database, read at the next start, agrees with what the daemon
\* reports, save when the last success could not be announced, or the daemon
\* could not read it when it started (0) and has opened nothing since.
DiskMatchesMemory ==
  CanEmit => stored = project \/ (stored \in [id : {0}, root : Roots] /\ project = None)

Holds(s) == stage[s] # "closed"

\* Every open subscription has events numbered without a gap, and the live
\* one misses none.
StreamIsContiguous ==
  \A s \in Subscribers : Holds(s) =>
    /\ \A i \in DOMAIN queue[s] : queue[s][i].sequence = view[s].sequence + i
    /\ Len(queue[s]) <= SubscriberCapacity
    /\ subscriber = s => view[s].sequence + Len(queue[s]) = sequence
    /\ view[s].sequence + Len(queue[s]) <= sequence

\* What the client of s will know after the first i events in its channel.
ViewAfter(s, i) ==
  LET After[n \in 0 .. Len(queue[s])] ==
        IF n = 0 THEN view[s] ELSE Apply(After[n - 1], queue[s][n])
  IN After[i]

\* A client that starts from the snapshot and applies the events knows, once
\* it has drained its channel, exactly what the daemon would tell a new one:
\* project, running operations and sequence number.  (At the end of the
\* numbering an operation ends unannounced, so there it need not.)
ReplicaConverges ==
  CanEmit /\ subscriber # None /\ Holds(subscriber)
    => ViewAfter(subscriber, Len(queue[subscriber])) = Snapshot

\* No client ever sees an operation end that it does not know to be running,
\* or start twice: on every subscription, live or superseded, each start has
\* one end after it.
StreamIsWellFormed ==
  \A s \in Subscribers : \A i \in DOMAIN queue[s] :
    (queue[s][i].request \in ViewAfter(s, i - 1).active)
      <=> (queue[s][i].kind # "operationStarted")

-----------------------------------------------------------------------------
(* Liveness.                                                                *)

\* Every announced open ends, whatever subscribers do: a full channel or a
\* stuck client never holds an operation up.
OpensTerminate ==
  \A w \in Workers : Executing(w) ~> ~Executing(w)

\* While subscribers' threads run, a subscription that was superseded or
\* overran its buffer comes to its end and gives its thread back.
SupersededSubscriptionEnds ==
  SubscribersRun =>
    \A s \in Subscribers : Holds(s) /\ subscriber # s ~> ~Holds(s)

\* While subscribers' threads run, a client that sees an operation running
\* sees it end, or loses its stream (while event numbers last).
ClientSeesEveryEnd ==
  SubscribersRun =>
    \A s \in Subscribers, i \in RequestIds :
      i \in view[s].active ~> i \notin view[s].active \/ ~CanEmit
=============================================================================
