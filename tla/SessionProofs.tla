---------------------------- MODULE SessionProofs ----------------------------
(***************************************************************************)
(* Theorems about Session, for any number of threads, requests and         *)
(* subscribers and any limits.                                             *)
(***************************************************************************)
EXTENDS Session, TLAPS

LEMMA InsertType ==
  ASSUME NEW S, NEW T, NEW f, IsPartial(f, S, T), NEW k \in S, NEW v \in T
  PROVE  IsPartial(Insert(f, k, v), S, T)
  BY DEF IsPartial, Insert

LEMMA RestrictType ==
  ASSUME NEW S, NEW T, NEW f, IsPartial(f, S, T), NEW D, D \subseteq DOMAIN f
  PROVE  IsPartial(Restrict(f, D), S, T)
  BY DEF IsPartial, Restrict

LEMMA NewestType ==
  ASSUME NEW S, NEW order \in Seq(S)
  PROVE  Newest(order) \in Seq(S)
  BY ConstantsAssumption DEF Newest

LEMMA RememberTypes ==
  ASSUME LedgerTypes, NEW r \in AllRequests, NEW response \in Responses,
         Remember(r, response)
  PROVE  LedgerTypes'
<1> DEFINE entry    == [mutation |-> r.mutation, response |-> response]
           order    == IF r.key \in DOMAIN completed THEN completed_order
                       ELSE Append(completed_order, r.key)
           requests == IF r.id \in completed_requests
                       THEN completed_request_order
                       ELSE Append(completed_request_order, r.id)
<1>1. r.key \in Keys /\ r.id \in RequestIds /\ r.mutation \in Mutations
  BY DEF AllRequests
<1>2. order \in Seq(Keys) /\ requests \in Seq(RequestIds)
  BY <1>1 DEF LedgerTypes
<1>3. completed_order' \in Seq(Keys)
  BY <1>2, NewestType DEF Remember
<1>4. completed_request_order' \in Seq(RequestIds)
  BY <1>2, NewestType DEF Remember
<1>5. completed_requests' \in SUBSET RequestIds
  BY <1>1 DEF Remember, LedgerTypes
<1>6. IsPartial(completed', Keys, [mutation : Mutations, response : Responses])
  <2> DEFINE T == [mutation : Mutations, response : Responses]
             D == (DOMAIN completed \cup {r.key}) \ Expired(order)
  <2>1. entry \in T
    BY <1>1
  <2>2. IsPartial(Insert(completed, r.key, entry), Keys, T)
    BY <2>1, <1>1, InsertType DEF LedgerTypes
  <2>3. D \subseteq DOMAIN Insert(completed, r.key, entry)
    BY DEF Insert
  <2>4. completed' = Restrict(Insert(completed, r.key, entry), D)
    BY DEF Remember
  <2> QED
    BY <2>2, <2>3, <2>4, RestrictType
<1> QED
  BY <1>3, <1>4, <1>5, <1>6 DEF LedgerTypes

LEMMA EmitTypes ==
  ASSUME StreamTypes, CanEmit, NEW kind \in EventKinds, NEW i \in RequestIds,
         NEW p \in MaybeProject, Emit(kind, i, p)
  PROVE  StreamTypes'
<1>1. sequence + 1 \in 0 .. MaxSequence
  BY ConstantsAssumption DEF StreamTypes, CanEmit
<1>2. [sequence |-> sequence + 1, kind |-> kind, request |-> i,
       project |-> p] \in Events
  BY <1>1 DEF Events
<1> DEFINE event == [sequence |-> sequence + 1, kind |-> kind,
                     request |-> i, project |-> p]
<1>3. CASE CanSend
  <2>1. subscriber \in Subscribers /\ queue[subscriber] \in Seq(Events)
    BY <1>3 DEF CanSend, StreamTypes
  <2>2. Append(queue[subscriber], event) \in Seq(Events)
    BY <1>2, <2>1
  <2>3. queue' = [queue EXCEPT ![subscriber] =
                    Append(queue[subscriber], event)]
    BY <1>3 DEF Emit
  <2>4. queue' \in [Subscribers -> Seq(Events)]
    BY <2>2, <2>3 DEF StreamTypes
  <2> QED
    BY <1>1, <1>3, <2>4 DEF Emit, StreamTypes
<1>4. CASE ~CanSend
  BY <1>1, <1>4 DEF Emit, StreamTypes
<1> QED
  BY <1>3, <1>4

-----------------------------------------------------------------------------
(* Type correctness.  A thread between its two critical sections must hold *)
(* an open request, and an outcome once it is ready to settle: without     *)
(* that the type of what it writes does not follow.                        *)

OpenMutations == [op : {"open"}, path : Paths]

WorkerHoldsOpen ==
  \A w \in Workers :
    /\ Executing(w) => /\ req[w] \in AllRequests
                       /\ req[w].mutation \in OpenMutations
    /\ pc[w] = "settling" => answer[w] \in Responses

TypeInv == TypeOK /\ WorkerHoldsOpen

LEMMA TypeInvInit == Init => TypeInv
<1> SUFFICES ASSUME Init PROVE TypeInv
  OBVIOUS
<1>1. stored \in MaybeProject /\ project \in MaybeProject
  BY DEF Init, MaybeProject, Projects
<1>2. EmptyView \in Views
  BY DEF EmptyView, Views, MaybeProject
<1>3. LedgerTypes /\ StreamTypes
  BY ConstantsAssumption DEF Init, LedgerTypes, StreamTypes, IsPartial
<1>4. IsPartial(active, RequestIds, Workers)
      /\ IsPartial(in_flight, Keys, Mutations)
  BY DEF Init, IsPartial
<1>5. TypeOK
  BY <1>1, <1>2, <1>3, <1>4 DEF Init, TypeOK
<1>6. WorkerHoldsOpen
  BY DEF Init, WorkerHoldsOpen, Executing
<1> QED
  BY <1>5, <1>6 DEF TypeInv

LEMMA ReplyType ==
  ASSUME NEW code \in Codes PROVE Reply(code) \in Responses
  BY DEF Reply, Responses, MaybeProject

LEMMA SnapshotType == ASSUME TypeOK PROVE Snapshot \in Views
  BY ConstantsAssumption
     DEF TypeOK, StreamTypes, IsPartial, Snapshot, Views

\* A response given at once changes nothing but its worker.
LEMMA RespondTypes ==
  ASSUME TypeInv, NEW w \in Workers, NEW r \in AllRequests,
         NEW response \in Responses, Respond(w, r, response), Untouched
  PROVE  TypeInv'
<1>1. TypeOK'
  BY DEF TypeInv, TypeOK, LedgerTypes, StreamTypes, IsPartial, Respond,
         Untouched, operations, ledger, stream, channel
<1>2. WorkerHoldsOpen'
  BY DEF TypeInv, TypeOK, WorkerHoldsOpen, Executing, Respond
<1> QED
  BY <1>1, <1>2 DEF TypeInv

LEMMA StartTypes ==
  ASSUME TypeInv, NEW w \in Workers, NEW r \in AllRequests, Start(w, r)
  PROVE  TypeInv'
<1>1. r.id \in RequestIds /\ r.key \in Keys /\ r.mutation \in OpenMutations
      /\ r.mutation \in Mutations
  BY DEF AllRequests, Mutations, OpenMutations, Start
<1>2. StreamTypes'
  BY <1>1, EmitTypes DEF TypeInv, TypeOK, Start, EventKinds, MaybeProject
<1>3. IsPartial(active', RequestIds, Workers)
  BY <1>1, InsertType DEF TypeInv, TypeOK, Start
<1>4. IsPartial(in_flight', Keys, Mutations)
  BY <1>1, InsertType DEF TypeInv, TypeOK, Start
<1>5. LedgerTypes'
  BY DEF TypeInv, TypeOK, LedgerTypes, IsPartial, Start, ledger
<1>6. TypeOK'
  BY <1>2, <1>3, <1>4, <1>5 DEF TypeInv, TypeOK, Start
<1>7. WorkerHoldsOpen'
  BY <1>1 DEF TypeInv, TypeOK, WorkerHoldsOpen, Executing, Start
<1> QED
  BY <1>6, <1>7 DEF TypeInv

LEMMA CancelTypes ==
  ASSUME TypeInv, NEW w \in Workers, NEW r \in AllRequests, Cancel(w, r)
  PROVE  TypeInv'
<1> DEFINE target  == r.mutation.target
           outcome == IF target \in DOMAIN active THEN "accepted"
                      ELSE IF target \in completed_requests
                           THEN "alreadyFinished" ELSE "notFound"
<1>1. Reply(outcome) \in Responses
  BY ReplyType DEF Codes
<1>2. LedgerTypes'
  BY <1>1, RememberTypes DEF TypeInv, TypeOK, Cancel
<1>3. cancelled' \in [Workers -> BOOLEAN]
  BY DEF TypeInv, TypeOK, IsPartial, Cancel
<1>4. StreamTypes'
  BY DEF TypeInv, TypeOK, StreamTypes, Cancel, stream
<1>5. answer' \in [Workers -> Responses \cup {None}]
  BY <1>1 DEF TypeInv, TypeOK, Cancel
<1>6. TypeOK'
  BY <1>2, <1>3, <1>4, <1>5
     DEF TypeInv, TypeOK, IsPartial, Cancel, operations
<1>7. WorkerHoldsOpen'
  BY <1>1 DEF TypeInv, TypeOK, WorkerHoldsOpen, Executing, Cancel
<1> QED
  BY <1>6, <1>7 DEF TypeInv

LEMMA ReceiveTypes ==
  ASSUME TypeInv, NEW w \in Workers, Receive(w)
  PROVE  TypeInv'
<1>1. PICK r \in Requests :
        Replay(w, r) \/ Busy(w, r) \/ DuplicateId(w, r)
        \/ StartUnannounced(w, r) \/ Start(w, r) \/ Cancel(w, r)
  BY DEF Receive
<1>2. r \in AllRequests
  BY ConstantsAssumption
<1>3. CASE Replay(w, r)
  <2>1. completed[r.key].response \in Responses
    BY <1>3 DEF Replay, TypeInv, TypeOK, LedgerTypes, IsPartial
  <2>2. Reply("invalidRequest") \in Responses
    BY ReplyType DEF Codes
  <2> QED
    BY <1>2, <1>3, <2>1, <2>2, RespondTypes DEF Replay
<1>4. CASE Busy(w, r)
  BY <1>2, <1>4, ReplyType, RespondTypes DEF Busy, Codes
<1>5. CASE DuplicateId(w, r)
  BY <1>2, <1>5, ReplyType, RespondTypes DEF DuplicateId, Codes
<1>6. CASE StartUnannounced(w, r)
  BY <1>2, <1>6, ReplyType, RespondTypes DEF StartUnannounced, Codes
<1>7. CASE Start(w, r)
  BY <1>2, <1>7, StartTypes
<1>8. CASE Cancel(w, r)
  BY <1>2, <1>8, CancelTypes
<1> QED
  BY <1>1, <1>3, <1>4, <1>5, <1>6, <1>7, <1>8

LEMMA ExecuteTypes ==
  ASSUME TypeInv, NEW w \in Workers,
         CheckBefore(w) \/ Inspect(w) \/ CheckAfter(w)
  PROVE  TypeInv'
<1>1. Executing(w)
  BY DEF CheckBefore, Inspect, CheckAfter, Executing
<1>2. /\ LedgerTypes' /\ StreamTypes'
      /\ IsPartial(active', RequestIds, Workers)
      /\ IsPartial(in_flight', Keys, Mutations)
      /\ UNCHANGED <<project, stored, req, cancelled, stage, view>>
  BY DEF CheckBefore, Inspect, CheckAfter, Unlocked, operations, ledger,
         stream, channel, TypeInv, TypeOK, LedgerTypes, StreamTypes, IsPartial
<1>3. /\ Reply("operationCancelled") \in Responses
      /\ Reply("projectPathUnavailable") \in Responses
  BY ReplyType DEF Codes
<1>4. minted + 1 \in Nat
  BY DEF TypeInv, TypeOK
<1>5. Opened([id |-> minted + 1,
              root |-> CanonicalRoot[req[w].mutation.path]]) \in Responses
  BY <1>1, <1>4, ConstantsAssumption
     DEF TypeInv, WorkerHoldsOpen, OpenMutations, Opened, Responses, Codes,
         MaybeProject, Projects
<1>6. CASE CheckBefore(w)
  BY <1>2, <1>3, <1>6
     DEF CheckBefore, Executed, TypeInv, TypeOK, WorkerHoldsOpen, Executing
<1>7. CASE Inspect(w)
  BY <1>2, <1>3, <1>7
     DEF Inspect, Executed, TypeInv, TypeOK, WorkerHoldsOpen, Executing
<1>8. CASE CheckAfter(w)
  BY <1>2, <1>3, <1>4, <1>5, <1>8
     DEF CheckAfter, Executed, TypeInv, TypeOK, WorkerHoldsOpen, Executing
<1> QED
  BY <1>6, <1>7, <1>8

LEMMA CompleteTypes ==
  ASSUME TypeInv, NEW w \in Workers, req[w] \in AllRequests,
         NEW kind \in EventKinds, NEW response \in Responses,
         Complete(w, kind, response)
  PROVE  /\ StreamTypes' /\ LedgerTypes' /\ project' \in MaybeProject
         /\ answer' \in [Workers -> Responses \cup {None}]
<1> DEFINE final == IF CanEmit THEN response ELSE Reply("internalError")
<1>1. final \in Responses
  BY ReplyType DEF Codes
<1>2. LedgerTypes'
  BY <1>1, RememberTypes DEF Complete, TypeInv, TypeOK
<1>3. StreamTypes'
  <2>1. CASE CanEmit
    <3>1. req[w].id \in RequestIds /\ None \in MaybeProject
      BY DEF AllRequests, MaybeProject
    <3> QED
      BY <2>1, <3>1, EmitTypes DEF Complete, TypeInv, TypeOK
  <2>2. CASE ~CanEmit
    BY <2>2 DEF Complete, TypeInv, TypeOK, StreamTypes, stream
  <2> QED
    BY <2>1, <2>2
<1> QED
  BY <1>1, <1>2, <1>3 DEF Complete, TypeInv, TypeOK

LEMMA CompleteSuccessTypes ==
  ASSUME TypeInv, NEW w \in Workers, req[w] \in AllRequests,
         answer[w] \in Responses, NEW p \in MaybeProject,
         CompleteSuccess(w, p)
  PROVE  /\ StreamTypes' /\ LedgerTypes' /\ project' \in MaybeProject
         /\ answer' \in [Workers -> Responses \cup {None}]
<1>1. CASE CanEmit
  <2>1. req[w].id \in RequestIds /\ "projectOpened" \in EventKinds
    BY DEF AllRequests, EventKinds
  <2>2. StreamTypes'
    BY <1>1, <2>1, EmitTypes DEF CompleteSuccess, TypeInv, TypeOK
  <2>3. LedgerTypes'
    BY <1>1, RememberTypes DEF CompleteSuccess, TypeInv, TypeOK
  <2> QED
    BY <1>1, <2>2, <2>3 DEF CompleteSuccess, TypeInv, TypeOK
<1>2. CASE ~CanEmit
  <2>1. Reply("internalError") \in Responses
    BY ReplyType DEF Codes
  <2>2. LedgerTypes'
    BY <1>2, <2>1, RememberTypes DEF CompleteSuccess, TypeInv, TypeOK
  <2> QED
    BY <1>2, <2>1, <2>2
       DEF CompleteSuccess, TypeInv, TypeOK, StreamTypes, stream
<1> QED
  BY <1>1, <1>2

LEMMA SettleTypes ==
  ASSUME TypeInv, NEW w \in Workers, Settle(w)
  PROVE  TypeInv'
<1>1. req[w] \in AllRequests /\ answer[w] \in Responses
  BY DEF TypeInv, WorkerHoldsOpen, Settle, Executing
<1>2. answer[w].project \in MaybeProject
  BY <1>1 DEF Responses
<1>3. Reply("internalError") \in Responses
  BY ReplyType DEF Codes
<1>4. /\ StreamTypes' /\ LedgerTypes' /\ project' \in MaybeProject
      /\ answer' \in [Workers -> Responses \cup {None}]
      /\ stored' \in MaybeProject
  <2>1. CASE stored' = answer[w].project /\ CompleteSuccess(w, answer[w].project)
    BY <1>1, <1>2, <2>1, CompleteSuccessTypes
  <2>2. CASE /\ Complete(w, "operationFailed", Reply("internalError"))
             /\ UNCHANGED stored
    BY <1>1, <1>3, <2>2, CompleteTypes DEF EventKinds, TypeInv, TypeOK
  <2>3. CASE Complete(w, "operationCancelled", answer[w]) /\ UNCHANGED stored
    BY <1>1, <2>3, CompleteTypes DEF EventKinds, TypeInv, TypeOK
  <2>4. CASE Complete(w, "operationFailed", answer[w]) /\ UNCHANGED stored
    BY <1>1, <2>4, CompleteTypes DEF EventKinds, TypeInv, TypeOK
  <2> QED
    BY <2>1, <2>2, <2>3, <2>4 DEF Settle
<1>5. IsPartial(active', RequestIds, Workers)
      /\ IsPartial(in_flight', Keys, Mutations)
  BY RestrictType DEF Settle, TypeInv, TypeOK
<1>6. TypeOK'
  BY <1>4, <1>5 DEF Settle, TypeInv, TypeOK
<1>7. WorkerHoldsOpen'
  <2> SUFFICES ASSUME NEW v \in Workers
               PROVE  WorkerHoldsOpen!(v)'
    BY DEF WorkerHoldsOpen
  <2>1. CASE v = w
    BY <2>1 DEF Settle, Executing, TypeInv, TypeOK
  <2>2. CASE v # w
    <3>1. answer'[v] = answer[v]
      BY <2>2 DEF Settle, Complete, CompleteSuccess, TypeInv, TypeOK
    <3> QED
      BY <2>2, <3>1
         DEF Settle, Executing, TypeInv, TypeOK, WorkerHoldsOpen
  <2> QED
    BY <2>1, <2>2
<1> QED
  BY <1>6, <1>7 DEF TypeInv

LEMMA WriteReplyTypes ==
  ASSUME TypeInv, NEW w \in Workers, WriteReply(w)
  PROVE  TypeInv'
<1>1. TypeOK'
  BY DEF TypeInv, TypeOK, LedgerTypes, StreamTypes, IsPartial, WriteReply,
         Untouched, operations, ledger, stream, channel
<1>2. WorkerHoldsOpen'
  BY DEF TypeInv, TypeOK, WorkerHoldsOpen, Executing, WriteReply
<1> QED
  BY <1>1, <1>2 DEF TypeInv

LEMMA SubscriberTypes ==
  ASSUME TypeInv, NEW s \in Subscribers, Subscribe(s) \/ SubscriberStep(s)
  PROVE  TypeInv'
<1> USE DEF TypeInv, TypeOK, StreamTypes
<1>1. /\ LedgerTypes' /\ sequence' = sequence
      /\ IsPartial(active', RequestIds, Workers)
      /\ IsPartial(in_flight', Keys, Mutations)
      /\ UNCHANGED <<project, stored, minted, pc, req, cancelled, answer>>
  BY DEF Subscribe, SubscriberStep, Take, Written, WriteFails, EndOfStream,
         Close, Elsewhere, operations, ledger, worker, LedgerTypes, IsPartial
<1>2. /\ subscriber' \in Subscribers \cup {None}
      /\ stage' \in [Subscribers -> {"closed", "writing", "waiting"}]
  BY DEF Subscribe, SubscriberStep, Take, Written, WriteFails, EndOfStream,
         Close
<1>3. queue' \in [Subscribers -> Seq(Events)]
      /\ view' \in [Subscribers -> Views]
  <2>1. CASE Subscribe(s)
    BY <2>1, SnapshotType DEF Subscribe
  <2>2. CASE Take(s)
    <3>1. queue[s] \in Seq(Events) /\ Head(queue[s]) \in Events
          /\ Tail(queue[s]) \in Seq(Events)
      BY <2>2 DEF Take
    <3>2. Apply(view[s], Head(queue[s])) \in Views
      BY <3>1 DEF Apply, Views, Events
    <3> QED
      BY <2>2, <3>1, <3>2 DEF Take
  <2>3. CASE Written(s)
    BY <2>3 DEF Written
  <2>4. CASE Close(s)
    BY <2>4 DEF Close, EmptyView, Views, MaybeProject
  <2> QED
    BY <2>1, <2>2, <2>3, <2>4 DEF SubscriberStep, WriteFails, EndOfStream
<1>4. WorkerHoldsOpen'
  BY <1>1 DEF WorkerHoldsOpen, Executing
<1> QED
  BY <1>1, <1>2, <1>3, <1>4

\* A restart leads to a state the program can start in.
LEMMA RestartInit == TypeInv /\ Restart => Init'
<1> SUFFICES ASSUME TypeInv, Restart PROVE Init'
  OBVIOUS
<1>1. stored' \in {None} \cup [id : {0}, root : IF Persistent THEN Roots ELSE {}]
  <2>1. PICK p \in Committed :
          stored' = IF Persistent /\ p # None THEN [p EXCEPT !.id = 0] ELSE None
    BY DEF Restart
  <2>2. stored \in MaybeProject
    BY DEF TypeInv, TypeOK
  <2>3. \A w \in Workers : pc[w] = "settling" => answer[w].project \in MaybeProject
    BY DEF TypeInv, WorkerHoldsOpen, Responses
  <2>4. p \in MaybeProject
    BY <2>2, <2>3 DEF Committed
  <2>5. p # None => [p EXCEPT !.id = 0] \in [id : {0}, root : Roots]
    BY <2>4 DEF MaybeProject, Projects
  <2> QED BY <2>1, <2>5
<1> QED
  BY <1>1 DEF Restart, Lost, Init, EmptyView

LEMMA TypeInvNext == TypeInv /\ [Next]_vars => TypeInv'
<1> SUFFICES ASSUME TypeInv, [Next]_vars PROVE TypeInv'
  OBVIOUS
<1>1. ASSUME NEW w \in Workers, Receive(w) PROVE TypeInv'
  BY <1>1, ReceiveTypes
<1>2. ASSUME NEW w \in Workers, WorkerStep(w) PROVE TypeInv'
  BY <1>2, ExecuteTypes, SettleTypes, WriteReplyTypes DEF WorkerStep
<1>3. ASSUME NEW s \in Subscribers, Subscribe(s) \/ SubscriberStep(s)
      PROVE  TypeInv'
  BY <1>3, SubscriberTypes
<1>4. CASE Restart
  <2>1. Init'
    BY <1>4, RestartInit
  <2>2. (Init => TypeInv)'
    BY TypeInvInit, PTL
  <2> QED
    BY <2>1, <2>2
<1>5. CASE UNCHANGED vars
  BY <1>5 DEF vars, operations, ledger, worker, channel, TypeInv, TypeOK,
     LedgerTypes, StreamTypes, IsPartial, WorkerHoldsOpen, Executing
<1> QED
  BY <1>1, <1>2, <1>3, <1>4, <1>5 DEF Next

LEMMA TypeInvariant == Spec => []TypeInv
  BY TypeInvInit, TypeInvNext, PTL DEF Spec

\* Every reachable state of the session has the types of its Rust fields,
\* its event numbers included: they never pass MaxSequence.
THEOREM TypeCorrect == Spec => []TypeOK
<1>1. TypeInv => TypeOK
  BY DEF TypeInv
<1> QED
  BY <1>1, TypeInvariant, PTL

-----------------------------------------------------------------------------
(* Running operations.  RunningIsTracked and KeyExecutesOnce are inductive  *)
(* only together: that two threads never execute one key is what keeps a    *)
(* settling thread from removing another's entries.                         *)

TrackInv == TypeInv /\ RunningIsTracked /\ KeyExecutesOnce

LEMMA RememberKeys ==
  ASSUME NEW r, NEW response, Remember(r, response)
  PROVE  DOMAIN completed' \subseteq DOMAIN completed \cup {r.key}
  BY DEF Remember, Restrict

\* A step that ends no operation and starts none.
LEMMA TrackFrame ==
  ASSUME TrackInv, UNCHANGED operations,
         DOMAIN completed' \cap DOMAIN in_flight = {},
         \A v \in Workers : Executing(v)' <=> Executing(v),
         \A v \in Workers : Executing(v) => req'[v] = req[v]
  PROVE  RunningIsTracked' /\ KeyExecutesOnce'
<1>1. UNCHANGED <<active, in_flight>>
  BY DEF operations
<1>2. RunningIsTracked'
  BY <1>1 DEF TrackInv, TypeInv, TypeOK, IsPartial, RunningIsTracked
<1>3. KeyExecutesOnce'
  BY <1>1 DEF TrackInv, KeyExecutesOnce
<1> QED
  BY <1>2, <1>3

LEMMA RespondTracked ==
  ASSUME TrackInv, NEW w \in Workers, pc[w] = "idle", NEW r, NEW response,
         Respond(w, r, response), Untouched
  PROVE  RunningIsTracked' /\ KeyExecutesOnce'
<1>1. UNCHANGED operations /\ completed' = completed
  BY DEF Untouched, ledger
<1>2. \A v \in Workers : /\ Executing(v)' <=> Executing(v)
                         /\ Executing(v) => req'[v] = req[v]
  BY DEF Respond, Executing, TrackInv, TypeInv, TypeOK
<1>3. DOMAIN completed' \cap DOMAIN in_flight = {}
  BY <1>1 DEF TrackInv, KeyExecutesOnce
<1> QED
  BY <1>1, <1>2, <1>3, TrackFrame

LEMMA StartTracked ==
  ASSUME TrackInv, NEW w \in Workers, pc[w] = "idle", NEW r \in AllRequests,
         Start(w, r)
  PROVE  RunningIsTracked' /\ KeyExecutesOnce'
<1> USE DEF TrackInv
<1>1. /\ r.id \notin DOMAIN active
      /\ r.key \notin DOMAIN in_flight /\ r.key \notin DOMAIN completed
      /\ completed' = completed
  BY DEF Start, Fresh, ledger
<1>2. /\ DOMAIN active' = DOMAIN active \cup {r.id}
      /\ active'[r.id] = w
      /\ \A i \in DOMAIN active : active'[i] = active[i]
  BY <1>1 DEF Start, Insert
<1>3. /\ DOMAIN in_flight' = DOMAIN in_flight \cup {r.key}
      /\ in_flight'[r.key] = r.mutation
      /\ \A k \in DOMAIN in_flight : in_flight'[k] = in_flight[k]
  BY <1>1 DEF Start, Insert
<1>4. /\ ~Executing(w) /\ Executing(w)' /\ req'[w] = r
      /\ \A v \in Workers \ {w} :
           (Executing(v)' <=> Executing(v)) /\ req'[v] = req[v]
  BY DEF Start, Executing, TypeInv, TypeOK
<1>5. \A v \in Workers : Executing(v) =>
        /\ req[v] \in AllRequests
        /\ req[v].id \in DOMAIN active /\ active[req[v].id] = v
        /\ req[v].key \in DOMAIN in_flight
        /\ in_flight[req[v].key] = req[v].mutation
  BY DEF RunningIsTracked
<1>6. \A i \in DOMAIN active :
        /\ active[i] \in Workers
        /\ Executing(active[i]) /\ req[active[i]].id = i
  BY DEF RunningIsTracked, TypeInv, TypeOK, IsPartial
<1>7. RunningIsTracked'
  <2>1. \A v \in Workers : Executing(v)' =>
          /\ req'[v] \in AllRequests
          /\ req'[v].id \in DOMAIN active' /\ active'[req'[v].id] = v
          /\ req'[v].key \in DOMAIN in_flight'
          /\ in_flight'[req'[v].key] = req'[v].mutation
    BY <1>2, <1>3, <1>4, <1>5
  <2>2. (\A i \in DOMAIN active :
           Executing(active[i]) /\ req[active[i]].id = i)'
    <3>1. ASSUME NEW i \in DOMAIN active
          PROVE  pc'[active[i]] = pc[active[i]] /\ active[i] # w
                 /\ req'[active[i]] = req[active[i]]
      BY <1>4, <1>6 DEF Start, TypeInv, TypeOK
    <3> QED
      BY <3>1, <1>2, <1>4, <1>6 DEF Executing
  <2>3. \A k \in DOMAIN in_flight' :
          \E v \in Workers : Executing(v)' /\ req'[v].key = k
    BY <1>3, <1>4 DEF RunningIsTracked
  <2> QED
    BY <2>1, <2>2, <2>3 DEF RunningIsTracked, Executing
<1>8. KeyExecutesOnce'
  <2>1. DOMAIN in_flight' \cap DOMAIN completed' = {}
    BY <1>1, <1>3 DEF KeyExecutesOnce
  <2>2. \A u, v \in Workers :
          Executing(u)' /\ Executing(v)' /\ req'[u].key = req'[v].key => u = v
    BY <1>1, <1>4, <1>5 DEF KeyExecutesOnce
  <2> QED
    BY <2>1, <2>2 DEF KeyExecutesOnce
<1> QED
  BY <1>7, <1>8

LEMMA CancelTracked ==
  ASSUME TrackInv, NEW w \in Workers, pc[w] = "idle", NEW r \in AllRequests,
         Cancel(w, r)
  PROVE  RunningIsTracked' /\ KeyExecutesOnce'
<1>1. UNCHANGED operations /\ r.key \notin DOMAIN in_flight
  BY DEF Cancel, Fresh
<1>2. \A v \in Workers : /\ Executing(v)' <=> Executing(v)
                         /\ Executing(v) => req'[v] = req[v]
  BY DEF Cancel, Executing, TrackInv, TypeInv, TypeOK
<1>3. DOMAIN completed' \subseteq DOMAIN completed \cup {r.key}
  BY RememberKeys DEF Cancel
<1>4. DOMAIN completed' \cap DOMAIN in_flight = {}
  BY <1>1, <1>3 DEF TrackInv, KeyExecutesOnce
<1> QED
  BY <1>1, <1>2, <1>4, TrackFrame

LEMMA SettleTracked ==
  ASSUME TrackInv, NEW w \in Workers, Settle(w)
  PROVE  RunningIsTracked' /\ KeyExecutesOnce'
<1> USE DEF TrackInv
<1>1. /\ active' = [i \in DOMAIN active \ {req[w].id} |-> active[i]]
      /\ in_flight' = [k \in DOMAIN in_flight \ {req[w].key} |-> in_flight[k]]
  BY DEF Settle, Restrict
<1>2. DOMAIN completed' \subseteq DOMAIN completed \cup {req[w].key}
  BY RememberKeys DEF Settle, Complete, CompleteSuccess
<1>3. /\ Executing(w) /\ ~Executing(w)' /\ req' = req
      /\ \A v \in Workers \ {w} : Executing(v)' <=> Executing(v)
  BY DEF Settle, Executing, TypeInv, TypeOK
<1>4. \A v \in Workers : Executing(v) =>
        /\ req[v] \in AllRequests
        /\ req[v].id \in DOMAIN active /\ active[req[v].id] = v
        /\ req[v].key \in DOMAIN in_flight
        /\ in_flight[req[v].key] = req[v].mutation
  BY DEF RunningIsTracked
<1>5. \A v \in Workers \ {w} : Executing(v) =>
        req[v].id # req[w].id /\ req[v].key # req[w].key
  BY <1>3, <1>4 DEF KeyExecutesOnce
<1>6. RunningIsTracked'
  <2>1. \A v \in Workers : Executing(v)' =>
          /\ req'[v] \in AllRequests
          /\ req'[v].id \in DOMAIN active' /\ active'[req'[v].id] = v
          /\ req'[v].key \in DOMAIN in_flight'
          /\ in_flight'[req'[v].key] = req'[v].mutation
    BY <1>1, <1>3, <1>4, <1>5
  <2>2. (\A i \in DOMAIN active :
           Executing(active[i]) /\ req[active[i]].id = i)'
    <3>1. ASSUME NEW i \in DOMAIN active, i # req[w].id
          PROVE  /\ active[i] \in Workers \ {w}
                 /\ Executing(active[i]) /\ req[active[i]].id = i
      BY <3>1 DEF RunningIsTracked, TypeInv, TypeOK, IsPartial
    <3>2. \A v \in Workers \ {w} : pc'[v] = pc[v]
      BY DEF Settle, TypeInv, TypeOK
    <3> QED
      BY <3>1, <3>2, <1>1, <1>3 DEF Executing
  <2>3. \A k \in DOMAIN in_flight' :
          \E v \in Workers : Executing(v)' /\ req'[v].key = k
    BY <1>1, <1>3 DEF RunningIsTracked
  <2> QED
    BY <2>1, <2>2, <2>3 DEF RunningIsTracked, Executing
<1>7. KeyExecutesOnce'
  <2>1. DOMAIN in_flight' \cap DOMAIN completed' = {}
    BY <1>1, <1>2 DEF KeyExecutesOnce
  <2>2. \A u, v \in Workers :
          Executing(u)' /\ Executing(v)' /\ req'[u].key = req'[v].key => u = v
    BY <1>3 DEF KeyExecutesOnce
  <2> QED
    BY <2>1, <2>2 DEF KeyExecutesOnce
<1> QED
  BY <1>6, <1>7

\* The steps that take no request and settle none.
LEMMA OtherTracked ==
  ASSUME TrackInv,
         \/ \E w \in Workers : CheckBefore(w) \/ Inspect(w) \/ CheckAfter(w)
                               \/ WriteReply(w)
         \/ \E s \in Subscribers : Subscribe(s) \/ SubscriberStep(s)
         \/ UNCHANGED vars
  PROVE  RunningIsTracked' /\ KeyExecutesOnce'
<1> USE DEF TrackInv
<1>1. UNCHANGED operations /\ completed' = completed
  BY DEF CheckBefore, Inspect, CheckAfter, Unlocked, WriteReply, Untouched,
         Subscribe, SubscriberStep, Take, Written, WriteFails, EndOfStream,
         Close, Elsewhere, vars, ledger
<1>2. \A v \in Workers : /\ Executing(v)' <=> Executing(v)
                         /\ Executing(v) => req'[v] = req[v]
  <2>1. ASSUME NEW w \in Workers, CheckBefore(w) \/ Inspect(w) \/ CheckAfter(w)
        PROVE  \A v \in Workers : (Executing(v)' <=> Executing(v))
                                  /\ req'[v] = req[v]
    BY <2>1 DEF CheckBefore, Inspect, CheckAfter, Executed, Unlocked,
                Executing, TypeInv, TypeOK
  <2>2. ASSUME NEW w \in Workers, WriteReply(w)
        PROVE  \A v \in Workers : /\ Executing(v)' <=> Executing(v)
                                  /\ Executing(v) => req'[v] = req[v]
    BY <2>2 DEF WriteReply, Executing, TypeInv, TypeOK
  <2>3. ASSUME NEW s \in Subscribers, Subscribe(s) \/ SubscriberStep(s)
        PROVE  UNCHANGED <<pc, req>>
    BY <2>3 DEF Subscribe, SubscriberStep, Take, Written, WriteFails,
                EndOfStream, Close, Elsewhere, worker
  <2>4. CASE UNCHANGED vars
    BY <2>4 DEF vars, worker, Executing
  <2> QED
    BY <2>1, <2>2, <2>3, <2>4 DEF Executing
<1>3. DOMAIN completed' \cap DOMAIN in_flight = {}
  BY <1>1 DEF KeyExecutesOnce
<1> QED
  BY <1>1, <1>2, <1>3, TrackFrame

LEMMA TrackInvInit == Init => TrackInv
  BY TypeInvInit
     DEF Init, TrackInv, RunningIsTracked, KeyExecutesOnce, Executing

LEMMA TrackInvNext == TrackInv /\ [Next]_vars => TrackInv'
<1> SUFFICES ASSUME TrackInv, [Next]_vars
             PROVE  RunningIsTracked' /\ KeyExecutesOnce'
  BY TypeInvNext DEF TrackInv
<1>1. ASSUME NEW w \in Workers, Receive(w)
      PROVE  RunningIsTracked' /\ KeyExecutesOnce'
  <2>1. PICK r \in Requests :
          Replay(w, r) \/ Busy(w, r) \/ DuplicateId(w, r)
          \/ StartUnannounced(w, r) \/ Start(w, r) \/ Cancel(w, r)
    BY <1>1 DEF Receive
  <2>2. r \in AllRequests /\ pc[w] = "idle"
    BY <1>1, ConstantsAssumption DEF Receive
  <2>3. CASE Replay(w, r) \/ Busy(w, r) \/ DuplicateId(w, r)
             \/ StartUnannounced(w, r)
    BY <2>2, <2>3, RespondTracked
       DEF Replay, Busy, DuplicateId, StartUnannounced
  <2>4. CASE Start(w, r)
    BY <2>2, <2>4, StartTracked
  <2>5. CASE Cancel(w, r)
    BY <2>2, <2>5, CancelTracked
  <2> QED
    BY <2>1, <2>3, <2>4, <2>5
<1>2. ASSUME NEW w \in Workers, WorkerStep(w)
      PROVE  RunningIsTracked' /\ KeyExecutesOnce'
  BY <1>2, SettleTracked, OtherTracked DEF WorkerStep
<1>3. ASSUME NEW s \in Subscribers, Subscribe(s) \/ SubscriberStep(s)
      PROVE  RunningIsTracked' /\ KeyExecutesOnce'
  BY <1>3, OtherTracked
<1>4. CASE Restart
  <2>1. Init'
    BY <1>4, RestartInit DEF TrackInv
  <2>2. (Init => TrackInv)'
    BY TrackInvInit, PTL
  <2> QED
    BY <2>1, <2>2 DEF TrackInv
<1>5. CASE UNCHANGED vars
  BY <1>5, OtherTracked
<1> QED
  BY <1>1, <1>2, <1>3, <1>4, <1>5 DEF Next

LEMMA TrackInvariant == Spec => []TrackInv
  BY TrackInvInit, TrackInvNext, PTL DEF Spec

\* The indexes of running operations agree with the threads that run them.
THEOREM RunningTracked == Spec => []RunningIsTracked
<1>1. TrackInv => RunningIsTracked
  BY DEF TrackInv
<1> QED
  BY <1>1, TrackInvariant, PTL

\* No mutation executes twice at once, or again while it is remembered.
THEOREM KeyExecutedOnce == Spec => []KeyExecutesOnce
<1>1. TrackInv => KeyExecutesOnce
  BY DEF TrackInv
<1> QED
  BY <1>1, TrackInvariant, PTL
=============================================================================
