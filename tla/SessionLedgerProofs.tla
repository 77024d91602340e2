------------------------- MODULE SessionLedgerProofs -------------------------
(***************************************************************************)
(* Theorems about the session's ledger of finished mutations, and about    *)
(* the project its last success leaves behind in memory and on disk.       *)
(***************************************************************************)
EXTENDS SessionProofs, SessionOnce

-----------------------------------------------------------------------------
(* The eviction queue.  Entries come in one at a time, so at most one, the  *)
(* oldest, goes out.                                                        *)

LEMMA NothingExpires ==
  ASSUME NEW T, NEW order \in Seq(T), Len(order) <= LedgerLimit
  PROVE  Newest(order) = order /\ Expired(order) = {}
<1>1. Len(order) \in Nat /\ LedgerLimit \in Nat
  BY ConstantsAssumption
<1>2. 1 .. (Len(order) - LedgerLimit) = {}
  BY <1>1
<1> QED
  BY <1>1, <1>2 DEF Newest, Expired

\* Which entry makes room for another.
Dropped(order) == IF Len(order) = LedgerLimit THEN 1 ELSE 0

\* Appending k to order and cutting it back yields new; expired goes out.
IsPush(order, k, new, expired) ==
  LET d == Dropped(order)
  IN /\ Len(new) = Len(order) + 1 - d
     /\ Len(new) \in 1 .. LedgerLimit
     /\ \A i \in 1 .. Len(order) - d : new[i] = order[i + d]
     /\ new[Len(order) + 1 - d] = k
     /\ expired = IF d = 1 THEN {order[1]} ELSE {}

LEMMA PushShape ==
  ASSUME NEW T, NEW order \in Seq(T), NEW k \in T, Len(order) <= LedgerLimit
  PROVE  IsPush(order, k, Newest(Append(order, k)), Expired(Append(order, k)))
<1> DEFINE pushed == Append(order, k)
<1>1. /\ LedgerLimit \in Nat \ {0} /\ Len(order) \in Nat
      /\ pushed \in Seq(T) /\ Len(pushed) = Len(order) + 1
      /\ \A i \in 1 .. Len(order) : pushed[i] = order[i]
      /\ pushed[Len(order) + 1] = k
  BY ConstantsAssumption
<1> HIDE DEF pushed
<1>2. CASE Len(order) = LedgerLimit
  <2>1. Newest(pushed) = SubSeq(pushed, 2, Len(order) + 1)
    BY <1>1, <1>2 DEF Newest
  <2>2. 1 .. (Len(pushed) - LedgerLimit) = {1} /\ pushed[1] = order[1]
    BY <1>1, <1>2
  <2>3. Expired(pushed) = {order[1]}
    BY <2>2 DEF Expired
  <2>4. /\ Newest(pushed) \in Seq(T)
        /\ Len(Newest(pushed)) = Len(order)
        /\ \A i \in 1 .. Len(order) : Newest(pushed)[i] = pushed[i + 1]
    BY <1>1, <2>1
  <2> QED
    BY <1>1, <1>2, <2>3, <2>4 DEF Dropped, IsPush, pushed
<1>3. CASE Len(order) < LedgerLimit
  <2>1. Newest(pushed) = pushed /\ Expired(pushed) = {}
    BY <1>1, <1>3, NothingExpires
  <2> QED
    BY <1>1, <1>3, <2>1 DEF Dropped, IsPush, pushed
<1> QED
  BY <1>1, <1>2, <1>3

LEMMA PushEnumerates ==
  ASSUME NEW T, NEW order \in Seq(T), NEW k \in T, NEW S,
         Enumerates(order, S), k \notin S
  PROVE  Enumerates(Newest(Append(order, k)),
                    (S \cup {k}) \ Expired(Append(order, k)))
<1> DEFINE pushed == Append(order, k)
           new    == Newest(pushed)
           n      == Len(order)
           d      == Dropped(order)
<1>0. Len(order) <= LedgerLimit
  BY DEF Enumerates
<1>1. /\ Len(new) = n + 1 - d /\ Len(new) \in 1 .. LedgerLimit
      /\ \A i \in 1 .. n - d : new[i] = order[i + d]
      /\ new[n + 1 - d] = k
      /\ Expired(pushed) = IF d = 1 THEN {order[1]} ELSE {}
  <2>1. IsPush(order, k, new, Expired(pushed))
    BY <1>0, PushShape
  <2> QED
    BY <2>1 DEF IsPush
<1>2. n \in Nat /\ d \in {0, 1} /\ d <= n /\ LedgerLimit \in Nat
  BY ConstantsAssumption DEF Dropped
<1>3. /\ S = {order[i] : i \in 1 .. n}
      /\ \A i, j \in 1 .. n : order[i] = order[j] => i = j
  BY DEF Enumerates
<1>4. DOMAIN new = 1 .. n + 1 - d
  BY <1>1, NewestType
<1> HIDE DEF pushed, new, n, d
<1>5. \A i, j \in DOMAIN new : new[i] = new[j] => i = j
  <2>1. \A i \in 1 .. n - d : i + d \in 1 .. n /\ new[i] = order[i + d]
                              /\ new[i] # k
    BY <1>1, <1>2, <1>3
  <2>2. DOMAIN new = (1 .. n - d) \cup {n + 1 - d}
    BY <1>2, <1>4
  <2> QED
    BY <1>1, <1>2, <1>3, <2>1, <2>2
<1>6. (S \cup {k}) \ Expired(pushed) = {new[i] : i \in DOMAIN new}
  <2>1. ASSUME NEW x \in (S \cup {k}) \ Expired(pushed)
        PROVE  \E i \in DOMAIN new : x = new[i]
    <3>1. CASE x = k
      BY <1>1, <1>2, <1>4, <3>1
    <3>2. CASE x \in S
      <4>1. PICK i \in 1 .. n : x = order[i]
        BY <1>3, <3>2
      <4>2. ~(d = 1 /\ i = 1)
        BY <1>1, <2>1, <4>1
      <4>3. i - d \in 1 .. n - d /\ (i - d) + d = i
        BY <1>2, <4>2
      <4>4. new[i - d] = x
        BY <1>1, <4>1, <4>3
      <4>5. i - d \in DOMAIN new
        BY <1>2, <1>4, <4>3
      <4> QED
        BY <4>4, <4>5
    <3> QED
      BY <2>1, <3>1, <3>2
  <2>2. ASSUME NEW i \in DOMAIN new
        PROVE  new[i] \in (S \cup {k}) \ Expired(pushed)
    <3>1. CASE i = n + 1 - d
      <4>1. k \notin Expired(pushed)
        BY <1>1, <1>2, <1>3
      <4> QED
        BY <1>1, <3>1, <4>1
    <3>2. CASE i \in 1 .. n - d
      <4>1. /\ i + d \in 1 .. n
            /\ d = 1 => 1 \in 1 .. n /\ i + d # 1
        BY <1>2, <3>2
      <4>2. new[i] = order[i + d] /\ new[i] \in S
        BY <1>1, <1>3, <3>2, <4>1
      <4>3. d = 1 => order[1] # order[i + d]
        BY <1>3, <4>1
      <4> QED
        BY <1>1, <4>2, <4>3
    <3> QED
      BY <1>2, <1>4, <3>1, <3>2
  <2> QED
    BY <2>1, <2>2
<1>7. Len(new) <= LedgerLimit
  BY <1>1, <1>2
<1> QED
  BY <1>5, <1>6, <1>7 DEF Enumerates, new, pushed

-----------------------------------------------------------------------------
(* remember_completed, of a key that the ledger does not hold.              *)

\* The answer to r becomes the newest in the ledger, and the others keep
\* their order and their answers, save the oldest of a full ledger.
Gains(r, response) ==
  LET d == Dropped(completed_order)
      n == Len(completed_order) + 1 - d
  IN /\ n \in 1 .. LedgerLimit
     /\ Len(completed_order') = n
     /\ \A i \in 1 .. n - 1 :
          /\ i + d \in 1 .. Len(completed_order)
          /\ completed_order'[i] = completed_order[i + d]
          /\ completed'[completed_order'[i]] = completed[completed_order[i + d]]
     /\ completed_order'[n] = r.key
     /\ completed'[r.key] = [mutation |-> r.mutation, response |-> response]

LEMMA RememberEnumerates ==
  ASSUME TypeInv, LedgerIsEnumerated, NEW r \in AllRequests, NEW response,
         r.key \notin DOMAIN completed, Remember(r, response)
  PROVE  LedgerIsEnumerated'
<1>1. /\ completed_order \in Seq(Keys) /\ r.key \in Keys
      /\ completed_request_order \in Seq(RequestIds) /\ r.id \in RequestIds
  BY DEF TypeInv, TypeOK, LedgerTypes, AllRequests
<1>2. Enumerates(completed_order', DOMAIN completed')
  <2>1. Enumerates(completed_order, DOMAIN completed)
    BY DEF LedgerIsEnumerated
  <2>2. /\ completed_order' = Newest(Append(completed_order, r.key))
        /\ DOMAIN completed' = (DOMAIN completed \cup {r.key})
                               \ Expired(Append(completed_order, r.key))
    BY DEF Remember, Restrict
  <2> QED
    BY <1>1, <2>1, <2>2, PushEnumerates
<1>3. Enumerates(completed_request_order', completed_requests')
  <2>1. Enumerates(completed_request_order, completed_requests)
    BY DEF LedgerIsEnumerated
  <2>2. CASE r.id \in completed_requests
    <3>1. Len(completed_request_order) <= LedgerLimit
      BY <2>1 DEF Enumerates
    <3>2. /\ Newest(completed_request_order) = completed_request_order
          /\ Expired(completed_request_order) = {}
      BY <1>1, <3>1, NothingExpires
    <3>3. /\ completed_request_order' = Newest(completed_request_order)
          /\ completed_requests' = (completed_requests \cup {r.id})
                                   \ Expired(completed_request_order)
      BY <2>2 DEF Remember
    <3>4. /\ completed_request_order' = completed_request_order
          /\ completed_requests' = completed_requests
      BY <2>2, <3>2, <3>3
    <3> QED
      BY <2>1, <3>4 DEF Enumerates
  <2>3. CASE r.id \notin completed_requests
    <3>1. /\ completed_request_order' =
               Newest(Append(completed_request_order, r.id))
          /\ completed_requests' = (completed_requests \cup {r.id})
                           \ Expired(Append(completed_request_order, r.id))
      BY <2>3 DEF Remember
    <3> QED
      BY <1>1, <2>1, <2>3, <3>1, PushEnumerates
  <2> QED
    BY <2>2, <2>3
<1> QED
  BY <1>2, <1>3 DEF LedgerIsEnumerated

LEMMA RememberGains ==
  ASSUME TypeInv, LedgerIsEnumerated, NEW r \in AllRequests, NEW response,
         r.key \notin DOMAIN completed, Remember(r, response)
  PROVE  Gains(r, response)
<1> DEFINE pushed == Append(completed_order, r.key)
           entry  == [mutation |-> r.mutation, response |-> response]
           d      == Dropped(completed_order)
           n      == Len(completed_order) + 1 - d
<1>1. completed_order \in Seq(Keys) /\ r.key \in Keys
  BY DEF TypeInv, TypeOK, LedgerTypes, AllRequests
<1>2. /\ DOMAIN completed = {completed_order[i] : i \in DOMAIN completed_order}
      /\ Len(completed_order) <= LedgerLimit
  BY DEF LedgerIsEnumerated, Enumerates
<1>3. /\ completed_order' = Newest(pushed)
      /\ completed' = Restrict(Insert(completed, r.key, entry),
                               (DOMAIN completed \cup {r.key}) \ Expired(pushed))
  BY DEF Remember
<1>4. IsPush(completed_order, r.key, completed_order', Expired(pushed))
  BY <1>1, <1>2, <1>3, PushShape
<1>5. Len(completed_order) \in Nat /\ d \in {0, 1}
  BY <1>1 DEF Dropped
<1>6. /\ n \in 1 .. LedgerLimit /\ Len(completed_order') = n
      /\ \A i \in 1 .. n - 1 : completed_order'[i] = completed_order[i + d]
      /\ completed_order'[n] = r.key
  BY <1>4, <1>5 DEF IsPush
<1>7. \A i \in 1 .. n - 1 : i + d \in 1 .. Len(completed_order)
  BY <1>5
<1>8. /\ completed_order' \in Seq(Keys)
      /\ \A i \in 1 .. Len(completed_order') :
           completed_order'[i] \in DOMAIN completed'
  <2>1. LedgerIsEnumerated'
    BY RememberEnumerates
  <2>2. completed_order' \in Seq(Keys)
    <3>1. pushed \in Seq(Keys)
      BY <1>1
    <3> QED
      BY <1>3, <3>1, NewestType
  <2> QED
    BY <2>1, <2>2 DEF LedgerIsEnumerated, Enumerates
<1>9. \A k \in DOMAIN completed' :
        completed'[k] = IF k = r.key THEN entry ELSE completed[k]
  BY <1>3 DEF Restrict, Insert
<1>10. completed'[r.key] = entry
  <2>1. n \in 1 .. Len(completed_order')
    BY <1>6
  <2>2. r.key \in DOMAIN completed'
    BY <1>6, <1>8, <2>1
  <2> QED
    BY <1>9, <2>2
<1>11. ASSUME NEW i \in 1 .. n - 1
       PROVE  completed'[completed_order'[i]] = completed[completed_order[i + d]]
  <2>1. completed_order'[i] \in DOMAIN completed'
    BY <1>6, <1>5, <1>8
  <2>2. completed_order[i + d] \in DOMAIN completed
    BY <1>1, <1>2, <1>7
  <2>3. completed_order'[i] # r.key
    BY <1>6, <2>2
  <2> QED
    BY <1>6, <1>9, <2>1, <2>3
<1> QED
  BY <1>6, <1>7, <1>10, <1>11 DEF Gains

-----------------------------------------------------------------------------
(* The invariant.  LastSuccessIsCurrent is not inductive alone: were the    *)
(* key of a settling open still in the ledger, its entry would be           *)
(* overwritten in place and the order of completion lost.  KeyExecutesOnce, *)
(* with RunningIsTracked, excludes that.                                    *)

\* What a thread executes, a client asked for.
RequestsAreSent == \A w \in Workers : Executing(w) => req[w] \in Requests

\* What a thread is about to write answers a request.
RepliesAreReady ==
  \A w \in Workers :
    pc[w] = "replying" => req[w] \in Requests /\ answer[w] \in Responses

LedgerInv ==
  /\ TrackInv
  /\ RequestsAreSent
  /\ RepliesAreReady
  /\ LedgerIsEnumerated
  /\ LastSuccessIsCurrent
  /\ DiskMatchesMemory

\* A success that becomes the newest answer, and the current project.
LEMMA GainsSuccess ==
  ASSUME NEW r, NEW response, Gains(r, response),
         completed_order' \in Seq(Keys),
         response.code = "projectOpened", project' = response.project
  PROVE  LastSuccessIsCurrent'
<1> SUFFICES ASSUME NEW i \in DOMAIN completed_order',
                    {j \in i + 1 .. Len(completed_order') :
                       completed'[completed_order'[j]].response.code
                         = "projectOpened"} = {}
             PROVE  project' = completed'[completed_order'[i]].response.project
  BY DEF LastSuccessIsCurrent
<1> DEFINE n == Len(completed_order')
<1>1. completed'[completed_order'[n]].response = response
  BY DEF Gains
<1>2. n \in Nat /\ i \in 1 .. n
  OBVIOUS
<1>3. n \notin i + 1 .. n
  BY <1>1
<1>4. i = n
  BY <1>2, <1>3
<1> QED
  BY <1>1, <1>4

\* Any other answer that becomes the newest entry.
LEMMA GainsOther ==
  ASSUME LastSuccessIsCurrent, NEW r, NEW response, Gains(r, response),
         completed_order \in Seq(Keys), completed_order' \in Seq(Keys),
         response.code # "projectOpened", project' = project
  PROVE  LastSuccessIsCurrent'
<1> DEFINE d      == Dropped(completed_order)
           n      == Len(completed_order')
           old(j) == completed[completed_order[j]].response
           new(j) == completed'[completed_order'[j]].response
<1> SUFFICES ASSUME NEW i \in DOMAIN completed_order',
                    new(i).code = "projectOpened",
                    {j \in i + 1 .. n : new(j).code = "projectOpened"} = {}
             PROVE  project' = new(i).project
  BY DEF LastSuccessIsCurrent
<1>1. /\ n \in Nat /\ Len(completed_order) \in Nat /\ d \in {0, 1}
      /\ n = Len(completed_order) + 1 - d /\ i \in 1 .. n
  BY DEF Gains, Dropped
<1>2. new(n) = response
  BY DEF Gains
<1>3. \A j \in 1 .. n - 1 : new(j) = old(j + d)
  BY <1>1 DEF Gains
<1>4. \A j \in i + 1 .. n : new(j).code # "projectOpened"
  OBVIOUS
<1> HIDE DEF d, n, old, new
<1>5. i \in 1 .. n - 1
  BY <1>1, <1>2
<1>6. \A j \in i + d + 1 .. Len(completed_order) :
        old(j).code # "projectOpened"
  <2> TAKE j \in i + d + 1 .. Len(completed_order)
  <2>1. j - d \in i + 1 .. n /\ j - d \in 1 .. n - 1 /\ (j - d) + d = j
    BY <1>1, <1>5
  <2> QED
    BY <1>3, <1>4, <2>1
<1>7. i + d \in DOMAIN completed_order /\ old(i + d).code = "projectOpened"
  BY <1>1, <1>3, <1>5
<1>8. {j \in i + d + 1 .. Len(completed_order) :
         old(j).code = "projectOpened"} = {}
  BY <1>6
<1>9. project = old(i + d).project
  BY <1>7, <1>8 DEF LastSuccessIsCurrent, old
<1> QED
  BY <1>3, <1>5, <1>9

-----------------------------------------------------------------------------
(* Every step keeps the invariant.                                          *)

LEMMA LedgerInvInit == Init => LedgerInv
<1> SUFFICES ASSUME Init PROVE LedgerInv
  OBVIOUS
<1>1. TrackInv
  BY TrackInvInit
<1>2. RequestsAreSent /\ RepliesAreReady /\ LastSuccessIsCurrent
  BY DEF Init, RequestsAreSent, RepliesAreReady, Executing, LastSuccessIsCurrent
<1>3. DiskMatchesMemory
  BY DEF Init, DiskMatchesMemory
<1>4. LedgerIsEnumerated
  BY ConstantsAssumption DEF Init, LedgerIsEnumerated, Enumerates
<1> QED
  BY <1>1, <1>2, <1>3, <1>4 DEF LedgerInv

LEMMA RequestsAreSentNext ==
  ASSUME TypeInv, RequestsAreSent, [Next]_vars
  PROVE  RequestsAreSent'
<1> USE DEF TypeInv, TypeOK, RequestsAreSent, Executing
<1>1. ASSUME NEW w \in Workers, Receive(w)
      PROVE  RequestsAreSent'
  <2>1. PICK r \in Requests : /\ req' = [req EXCEPT ![w] = r]
                              /\ \E s : pc' = [pc EXCEPT ![w] = s]
    BY <1>1 DEF Receive, Replay, Busy, DuplicateId, StartUnannounced, Start,
                Cancel, Respond
  <2> QED
    BY <2>1
<1>2. ASSUME NEW w \in Workers, WorkerStep(w)
      PROVE  RequestsAreSent'
  BY <1>2 DEF WorkerStep, CheckBefore, Inspect, CheckAfter, Executed, Unlocked,
              Settle, WriteReply
<1>3. ASSUME NEW s \in Subscribers, Subscribe(s) \/ SubscriberStep(s)
      PROVE  RequestsAreSent'
  BY <1>3 DEF Subscribe, SubscriberStep, Take, Written, WriteFails,
              EndOfStream, Close, Elsewhere, worker
<1>4. CASE Restart
  BY <1>4 DEF Restart, Lost
<1>5. CASE UNCHANGED vars
  BY <1>5 DEF vars, worker
<1> QED
  BY <1>1, <1>2, <1>3, <1>4, <1>5 DEF Next

LEMMA SettleAnswers ==
  ASSUME TypeInv, NEW w \in Workers, Settle(w)
  PROVE  /\ answer'[w] \in Responses /\ Remember(req[w], answer'[w])
         /\ \A v \in Workers : v # w => answer'[v] = answer[v]
<1>1. answer[w] \in Responses /\ Reply("internalError") \in Responses
  BY ReplyType DEF TypeInv, WorkerHoldsOpen, Settle, Executing, Codes
<1>2. CASE CompleteSuccess(w, answer[w].project)
  BY <1>1, <1>2 DEF CompleteSuccess, TypeInv, TypeOK
<1>3. ASSUME NEW kind, NEW response \in Responses, Complete(w, kind, response)
      PROVE  /\ answer'[w] \in Responses /\ Remember(req[w], answer'[w])
             /\ \A v \in Workers : v # w => answer'[v] = answer[v]
  BY <1>1, <1>3 DEF Complete, TypeInv, TypeOK
<1> QED
  BY <1>1, <1>2, <1>3 DEF Settle

LEMMA RepliesAreReadyNext ==
  ASSUME TypeInv, RequestsAreSent, RepliesAreReady, [Next]_vars
  PROVE  RepliesAreReady'
<1> USE DEF TypeInv, TypeOK, RepliesAreReady
<1>1. ASSUME NEW w \in Workers, Receive(w)
      PROVE  RepliesAreReady'
  <2>1. PICK r \in Requests :
          Replay(w, r) \/ Busy(w, r) \/ DuplicateId(w, r)
          \/ StartUnannounced(w, r) \/ Start(w, r) \/ Cancel(w, r)
    BY <1>1 DEF Receive
  <2>2. CASE Start(w, r)
    BY <2>2 DEF Start
  <2>3. ASSUME NEW response \in Responses, req' = [req EXCEPT ![w] = r],
               answer' = [answer EXCEPT ![w] = response],
               pc' = [pc EXCEPT ![w] = "replying"]
        PROVE  RepliesAreReady'
    BY <2>3
  <2>4. r.key \in DOMAIN completed => completed[r.key].response \in Responses
    BY DEF LedgerTypes, IsPartial
  <2> QED
    BY <2>1, <2>2, <2>3, <2>4, ReplyType
       DEF Replay, Busy, DuplicateId, StartUnannounced, Cancel, Respond, Codes
<1>2. ASSUME NEW w \in Workers,
             CheckBefore(w) \/ Inspect(w) \/ CheckAfter(w) \/ WriteReply(w)
      PROVE  RepliesAreReady'
  BY <1>2 DEF CheckBefore, Inspect, CheckAfter, Executed, Unlocked, WriteReply
<1>3. ASSUME NEW w \in Workers, Settle(w)
      PROVE  RepliesAreReady'
  BY <1>3, SettleAnswers DEF Settle, RequestsAreSent, Executing
<1>4. ASSUME NEW s \in Subscribers, Subscribe(s) \/ SubscriberStep(s)
      PROVE  RepliesAreReady'
  BY <1>4 DEF Subscribe, SubscriberStep, Take, Written, WriteFails,
              EndOfStream, Close, Elsewhere, worker
<1>5. CASE Restart
  BY <1>5 DEF Restart, Lost
<1>6. CASE UNCHANGED vars
  BY <1>6 DEF vars, worker
<1> QED
  BY <1>1, <1>2, <1>3, <1>4, <1>5, <1>6 DEF Next, WorkerStep

\* What holds of the ledger, the projects and the event numbers, the steps
\* of threads leave alone that answer nothing new.
LedgerFacts == LedgerIsEnumerated /\ LastSuccessIsCurrent /\ DiskMatchesMemory

LEMMA LedgerFrame ==
  ASSUME LedgerFacts, UNCHANGED <<project, stored, ledger>>,
         CanEmit' => CanEmit
  PROVE  LedgerFacts'
  BY DEF LedgerFacts, LedgerIsEnumerated, Enumerates, LastSuccessIsCurrent,
         DiskMatchesMemory, ledger

LEMMA EmitNumbers ==
  ASSUME TypeInv, NEW kind, NEW i, NEW p, Emit(kind, i, p)
  PROVE  CanEmit' => CanEmit
  BY ConstantsAssumption DEF Emit, CanEmit, TypeInv, TypeOK, StreamTypes

LEMMA CancelLedger ==
  ASSUME LedgerInv, TypeInv', NEW w \in Workers, NEW r \in AllRequests,
         Cancel(w, r)
  PROVE  LedgerFacts'
<1> DEFINE target  == r.mutation.target
           outcome == IF target \in DOMAIN active THEN "accepted"
                      ELSE IF target \in completed_requests
                           THEN "alreadyFinished" ELSE "notFound"
           response == Reply(outcome)
<1>1. /\ r.key \notin DOMAIN completed /\ Remember(r, response)
      /\ UNCHANGED <<project, stored, sequence>>
  BY DEF Cancel, Fresh, stream
<1>2. TypeInv /\ LedgerIsEnumerated /\ LastSuccessIsCurrent
  BY DEF LedgerInv, TrackInv
<1>3. response.code # "projectOpened"
  BY DEF Reply
<1> HIDE DEF response
<1>4. LedgerIsEnumerated'
  BY <1>1, <1>2, RememberEnumerates
<1>5. Gains(r, response)
  BY <1>1, <1>2, RememberGains
<1>6. completed_order \in Seq(Keys) /\ completed_order' \in Seq(Keys)
  BY <1>2 DEF TypeInv, TypeOK, LedgerTypes
<1>7. LastSuccessIsCurrent'
  BY <1>1, <1>2, <1>3, <1>5, <1>6, GainsOther
<1>8. DiskMatchesMemory'
  BY <1>1 DEF LedgerInv, DiskMatchesMemory, CanEmit
<1> QED
  BY <1>4, <1>7, <1>8 DEF LedgerFacts

LEMMA SettleLedger ==
  ASSUME LedgerInv, TypeInv', NEW w \in Workers, Settle(w)
  PROVE  LedgerFacts'
<1>1. TypeInv /\ LedgerIsEnumerated /\ LastSuccessIsCurrent /\ DiskMatchesMemory
  BY DEF LedgerInv, TrackInv
<1>2. req[w] \in AllRequests /\ req[w].key \notin DOMAIN completed
  BY DEF LedgerInv, TrackInv, RunningIsTracked, KeyExecutesOnce, Settle,
         Executing
<1>3. completed_order \in Seq(Keys) /\ completed_order' \in Seq(Keys)
  BY <1>1 DEF TypeInv, TypeOK, LedgerTypes
<1>4. CASE /\ CanEmit /\ answer[w].code = "projectOpened"
           /\ stored' = answer[w].project
           /\ CompleteSuccess(w, answer[w].project)
  <2>1. Remember(req[w], answer[w]) /\ project' = answer[w].project
    BY <1>4 DEF CompleteSuccess
  <2>2. LedgerIsEnumerated' /\ Gains(req[w], answer[w])
    BY <1>1, <1>2, <2>1, RememberEnumerates, RememberGains
  <2>3. LastSuccessIsCurrent'
    BY <1>3, <1>4, <2>1, <2>2, GainsSuccess
  <2>4. DiskMatchesMemory'
    BY <1>4, <2>1 DEF DiskMatchesMemory
  <2> QED
    BY <2>2, <2>3, <2>4 DEF LedgerFacts
<1>5. ASSUME NEW response, response.code # "projectOpened",
             Remember(req[w], response), UNCHANGED project,
             CanEmit' => CanEmit, CanEmit => UNCHANGED stored
      PROVE  LedgerFacts'
  <2>1. LedgerIsEnumerated' /\ Gains(req[w], response)
    BY <1>1, <1>2, <1>5, RememberEnumerates, RememberGains
  <2>2. LastSuccessIsCurrent'
    BY <1>1, <1>3, <1>5, <2>1, GainsOther
  <2>3. DiskMatchesMemory'
    BY <1>1, <1>5 DEF DiskMatchesMemory
  <2> QED
    BY <2>1, <2>2, <2>3 DEF LedgerFacts
<1>6. CASE ~CanEmit /\ CompleteSuccess(w, answer[w].project)
  <2>1. Remember(req[w], Reply("internalError")) /\ UNCHANGED <<project, sequence>>
    BY <1>6 DEF CompleteSuccess, stream
  <2> QED
    BY <1>5, <1>6, <2>1 DEF Reply, CanEmit
<1>7. ASSUME NEW kind, NEW response, response.code # "projectOpened",
             Complete(w, kind, response), UNCHANGED stored
      PROVE  LedgerFacts'
  <2>1. CanEmit' => CanEmit
    BY <1>1, <1>7, EmitNumbers DEF Complete, stream, CanEmit
  <2> QED
    BY <1>5, <1>7, <2>1 DEF Complete, Reply
<1>8. Reply("internalError").code # "projectOpened"
  BY DEF Reply
<1> QED
  BY <1>4, <1>6, <1>7, <1>8 DEF Settle

LEMMA LedgerInvNext == LedgerInv /\ [Next]_vars => LedgerInv'
<1> SUFFICES ASSUME LedgerInv, [Next]_vars PROVE LedgerInv'
  OBVIOUS
<1>1. TrackInv' /\ RequestsAreSent' /\ RepliesAreReady'
  BY TrackInvNext, RequestsAreSentNext, RepliesAreReadyNext
     DEF LedgerInv, TrackInv
<1>2. TypeInv /\ TypeInv' /\ LedgerFacts
  BY <1>1 DEF LedgerInv, TrackInv, LedgerFacts
<1> SUFFICES LedgerFacts'
  BY <1>1 DEF LedgerInv, LedgerFacts
<1>3. ASSUME NEW w \in Workers, Receive(w)
      PROVE  LedgerFacts'
  <2>1. PICK r \in Requests :
          Replay(w, r) \/ Busy(w, r) \/ DuplicateId(w, r)
          \/ StartUnannounced(w, r) \/ Start(w, r) \/ Cancel(w, r)
    BY <1>3 DEF Receive
  <2>2. r \in AllRequests
    BY ConstantsAssumption
  <2>3. CASE Untouched
    BY <1>2, <2>3, LedgerFrame DEF Untouched, stream, CanEmit
  <2>4. CASE Start(w, r)
    <3>1. CanEmit' => CanEmit
      BY <1>2, <2>4, EmitNumbers DEF Start
    <3> QED
      BY <1>2, <2>4, <3>1, LedgerFrame DEF Start
  <2>5. CASE Cancel(w, r)
    BY <1>2, <2>2, <2>5, CancelLedger
  <2> QED
    BY <2>1, <2>3, <2>4, <2>5
       DEF Replay, Busy, DuplicateId, StartUnannounced
<1>4. ASSUME NEW w \in Workers, CheckBefore(w) \/ Inspect(w) \/ CheckAfter(w)
      PROVE  LedgerFacts'
  <2>1. Unlocked
    BY <1>4 DEF CheckBefore, Inspect, CheckAfter
  <2> QED
    BY <1>2, <2>1, LedgerFrame DEF Unlocked, stream, CanEmit
<1>5. ASSUME NEW w \in Workers, Settle(w)
      PROVE  LedgerFacts'
  BY <1>2, <1>5, SettleLedger
<1>6. ASSUME NEW w \in Workers, WriteReply(w)
      PROVE  LedgerFacts'
  BY <1>2, <1>6, LedgerFrame DEF WriteReply, Untouched, stream, CanEmit
<1>7. ASSUME NEW s \in Subscribers, Subscribe(s) \/ SubscriberStep(s)
      PROVE  LedgerFacts'
  <2>1. Elsewhere
    BY <1>7 DEF Subscribe, SubscriberStep, Take, Written, WriteFails,
                EndOfStream, Close
  <2> QED
    BY <1>2, <2>1, LedgerFrame DEF Elsewhere, CanEmit
<1>8. CASE Restart
  <2>1. Init'
    BY <1>2, <1>8, RestartInit
  <2>2. (Init => LedgerInv)'
    BY LedgerInvInit, PTL
  <2> QED
    BY <2>1, <2>2 DEF LedgerInv, LedgerFacts
<1>9. CASE UNCHANGED vars
  BY <1>2, <1>9, LedgerFrame DEF vars, CanEmit
<1> QED
  BY <1>3, <1>4, <1>5, <1>6, <1>7, <1>8, <1>9 DEF Next, WorkerStep

LEMMA LedgerInvariant == Spec => []LedgerInv
  BY LedgerInvInit, LedgerInvNext, PTL DEF Spec

\* The queues by which remember_completed evicts and the maps they bound
\* hold the same keys and ids, each once, and at most LedgerLimit of them.
THEOREM LedgerEnumerated == Spec => []LedgerIsEnumerated
<1>1. LedgerInv => LedgerIsEnumerated
  BY DEF LedgerInv
<1> QED
  BY <1>1, LedgerInvariant, PTL

\* The project a connecting client is told is that of the last success the
\* ledger remembers, in whatever order opens and cancellations settled.
THEOREM LastSuccessCurrent == Spec => []LastSuccessIsCurrent
<1>1. LedgerInv => LastSuccessIsCurrent
  BY DEF LedgerInv
<1> QED
  BY <1>1, LedgerInvariant, PTL

\* What complete_open saves and what it reports stay the same, until event
\* numbers run out.
THEOREM DiskMatched == Spec => []DiskMatchesMemory
<1>1. LedgerInv => DiskMatchesMemory
  BY DEF LedgerInv
<1> QED
  BY <1>1, LedgerInvariant, PTL

-----------------------------------------------------------------------------
(* The session implements OnceOnly.                                         *)

LEMMA OnceInit == Init => Once!Init
<1> SUFFICES ASSUME Init PROVE Once!Init
  OBVIOUS
<1>1. Running = {}
  BY DEF Init, Running
<1>2. DOMAIN completed_order = {}
  BY DEF Init
<1>3. Remembered = << >>
  BY <1>2 DEF Remembered
<1>4. Told = [w \in Workers |-> None]
  BY DEF Init, Told
<1> QED
  BY <1>1, <1>3, <1>4 DEF Once!Init

\* One answer more among the LedgerLimit last.
Pushed(old, x) ==
  IF Len(Append(old, x)) > LedgerLimit
  THEN Tail(Append(old, x)) ELSE Append(old, x)

LEMMA PushEqual ==
  ASSUME NEW S, NEW old \in Seq(S), NEW new \in Seq(S), NEW x \in S,
         NEW expired, IsPush(old, x, new, expired), Len(old) <= LedgerLimit
  PROVE  new = Pushed(old, x)
<1> DEFINE pushed == Append(old, x)
           d      == Dropped(old)
<1>1. /\ pushed \in Seq(S) /\ Len(pushed) = Len(old) + 1 /\ Len(old) \in Nat
      /\ \A i \in 1 .. Len(old) : pushed[i] = old[i]
      /\ pushed[Len(old) + 1] = x
      /\ LedgerLimit \in Nat
  BY ConstantsAssumption
<1>2. /\ Len(new) = Len(old) + 1 - d
      /\ \A i \in 1 .. Len(old) - d : new[i] = old[i + d]
      /\ new[Len(new)] = x
  BY DEF IsPush
<1> HIDE DEF pushed
<1>3. CASE Len(old) = LedgerLimit
  <2>1. pushed # << >> /\ Len(pushed) > LedgerLimit /\ d = 1
    BY <1>1, <1>3 DEF Dropped
  <2>2. /\ Tail(pushed) \in Seq(S) /\ Len(Tail(pushed)) = Len(old)
        /\ \A i \in 1 .. Len(old) : Tail(pushed)[i] = pushed[i + 1]
    BY <1>1, <2>1
  <2>3. ASSUME NEW i \in 1 .. Len(old)
        PROVE  Tail(pushed)[i] = new[i]
    <3>1. Tail(pushed)[i] = pushed[i + 1] /\ Len(new) = Len(old)
      BY <1>1, <1>2, <2>1, <2>2
    <3>2. CASE i = Len(old)
      BY <1>1, <1>2, <3>1, <3>2
    <3>3. CASE i # Len(old)
      <4>1. i + 1 \in 1 .. Len(old) /\ i \in 1 .. Len(old) - d
        BY <1>1, <2>1, <3>3
      <4> QED
        BY <1>1, <1>2, <2>1, <3>1, <4>1
    <3> QED
      BY <3>2, <3>3
  <2>4. new = Tail(pushed)
    BY <1>1, <1>2, <2>1, <2>2, <2>3
  <2> QED
    BY <2>1, <2>4 DEF pushed, Pushed
<1>4. CASE Len(old) < LedgerLimit
  <2>1. d = 0
    BY <1>1, <1>4 DEF Dropped
  <2>2. \A i \in 1 .. Len(pushed) : pushed[i] = new[i]
    BY <1>1, <1>2, <2>1
  <2>3. new = pushed /\ ~(Len(pushed) > LedgerLimit)
    BY <1>1, <1>2, <1>4, <2>1, <2>2
  <2> QED
    BY <2>3 DEF pushed, Pushed
<1> QED
  BY <1>1, <1>3, <1>4

LEMMA RememberedType ==
  ASSUME TypeInv, LedgerIsEnumerated
  PROVE  /\ Remembered \in Seq(Answers)
         /\ Len(Remembered) = Len(completed_order)
<1>1. /\ completed_order \in Seq(Keys)
      /\ \A i \in 1 .. Len(completed_order) :
           completed[completed_order[i]] \in
             [mutation : Mutations, response : Responses]
  BY DEF TypeInv, TypeOK, LedgerTypes, IsPartial, LedgerIsEnumerated, Enumerates
<1>2. Remembered \in [1 .. Len(completed_order) -> Answers]
  BY <1>1 DEF Remembered, Answers, Call
<1> QED
  BY <1>1, <1>2

\* A call the session knows is under a key in flight or in the ledger.
LEMMA KnownCalls ==
  ASSUME LedgerIsEnumerated, TypeInv
  PROVE  \A call : call \in Once!Known <=>
           \/ \E k \in DOMAIN in_flight : call = Call(k, in_flight[k])
           \/ \E k \in DOMAIN completed : call = Call(k, completed[k].mutation)
<1>1. DOMAIN completed = {completed_order[i] : i \in DOMAIN completed_order}
  BY DEF LedgerIsEnumerated, Enumerates
<1>2. {Remembered[i].call : i \in DOMAIN Remembered} =
        {Call(k, completed[k].mutation) : k \in DOMAIN completed}
  BY <1>1 DEF Remembered
<1> QED
  BY <1>2 DEF Once!Known, Running

LEMMA FreshCalls ==
  ASSUME LedgerIsEnumerated, TypeInv, NEW r, Fresh(r)
  PROVE  Once!IsFresh(Call(r.key, r.mutation))
  BY KnownCalls DEF Fresh, Call, Once!IsFresh

LEMMA ToldUnchanged ==
  ASSUME \A w \in Workers : pc'[w] = "replying" <=> pc[w] = "replying",
         \A w \in Workers : pc[w] = "replying" => /\ req'[w] = req[w]
                                                  /\ answer'[w] = answer[w]
  PROVE  Told' = Told
  BY DEF Told

LEMMA ToldOne ==
  ASSUME TypeInv, TypeInv', NEW w \in Workers, pc[w] # "replying",
         pc' = [pc EXCEPT ![w] = "replying"],
         req'[w] \in AllRequests, answer'[w] \in Responses,
         \A v \in Workers : v # w => /\ req'[v] = req[v]
                                     /\ answer'[v] = answer[v]
  PROVE  /\ Told[w] = None
         /\ Told' = [Told EXCEPT ![w] =
                       [call   |-> Call(req'[w].key, req'[w].mutation),
                        answer |-> answer'[w]]]
         /\ Told'[w] \in Answers /\ Told'[w] # None
<1>1. Told[w] = None
  BY DEF Told
<1>2. Told'[w] = [call   |-> Call(req'[w].key, req'[w].mutation),
                  answer |-> answer'[w]]
  BY DEF Told, TypeInv, TypeOK
<1>3. \A v \in Workers : v # w => Told'[v] = Told[v]
  BY DEF Told, TypeInv, TypeOK
<1>4. Told'[w] \in Answers
  BY <1>2 DEF Answers, Call, AllRequests
<1>5. Told' = [Told EXCEPT ![w] =
                 [call   |-> Call(req'[w].key, req'[w].mutation),
                  answer |-> answer'[w]]]
  BY <1>2, <1>3 DEF Told
<1> QED
  BY <1>1, <1>4, <1>5, AnswerAssumption

\* The answer that remember_completed adds is the newest remembered.
LEMMA GainsRemembered ==
  ASSUME TypeInv, TypeInv', LedgerIsEnumerated, LedgerIsEnumerated',
         NEW r \in AllRequests, NEW response \in Responses,
         Gains(r, response), NEW told,
         told = [call |-> Call(r.key, r.mutation), answer |-> response]
  PROVE  Remembered' = Pushed(Remembered, told)
<1> DEFINE d    == Dropped(completed_order)
           n    == Len(completed_order) + 1 - d
<1>1. /\ Remembered \in Seq(Answers)
      /\ Len(Remembered) = Len(completed_order)
  BY RememberedType
<1>2. /\ Remembered' \in Seq(Answers)
      /\ Len(Remembered') = Len(completed_order')
  <2>1. (TypeInv /\ LedgerIsEnumerated
           => /\ Remembered \in Seq(Answers)
              /\ Len(Remembered) = Len(completed_order))'
    BY RememberedType, PTL
  <2> QED
    BY <2>1
<1>3. told \in Answers
  BY DEF Answers, Call, AllRequests
<1>4. /\ n \in 1 .. LedgerLimit /\ Len(completed_order') = n
      /\ \A i \in 1 .. n - 1 :
           /\ i + d \in 1 .. Len(completed_order)
           /\ completed_order'[i] = completed_order[i + d]
           /\ completed'[completed_order'[i]]
                = completed[completed_order[i + d]]
      /\ completed_order'[n] = r.key
      /\ completed'[r.key] = [mutation |-> r.mutation, response |-> response]
  BY DEF Gains
<1>5. /\ Len(completed_order) \in Nat /\ Len(completed_order) <= LedgerLimit
      /\ DOMAIN completed_order = 1 .. Len(completed_order)
      /\ DOMAIN completed_order' = 1 .. n
      /\ LedgerLimit \in Nat \ {0}
  BY <1>4, ConstantsAssumption
     DEF TypeInv, TypeOK, LedgerTypes, LedgerIsEnumerated, Enumerates
<1> HIDE DEF n, d
<1>6. \A i \in 1 .. n - 1 : Remembered'[i] = Remembered[i + d]
  <2> TAKE i \in 1 .. n - 1
  <2>1. i \in 1 .. n
    BY <1>4
  <2> QED
    BY <1>4, <1>5, <2>1 DEF Remembered
<1>7. Remembered'[n] = told
  BY <1>4, <1>5 DEF Remembered
<1>8. Len(Remembered) <= LedgerLimit /\ d = Dropped(Remembered)
  BY <1>1, <1>5 DEF d, Dropped
<1>9. Len(Remembered) + 1 - d = n /\ Len(Remembered) - d = n - 1
  BY <1>1, <1>5, <1>8 DEF n, Dropped
<1>10. Len(Remembered') = n
  BY <1>2, <1>4
<1>11. IsPush(Remembered, told, Remembered',
              IF d = 1 THEN {Remembered[1]} ELSE {})
  BY <1>4, <1>6, <1>7, <1>8, <1>9, <1>10 DEF IsPush
<1> QED
  BY <1>1, <1>2, <1>3, <1>8, <1>11, PushEqual

LEMMA TellResponse ==
  ASSUME TypeInv, TypeInv', NEW w \in Workers, pc[w] = "idle",
         NEW r \in AllRequests, NEW response \in Responses,
         Respond(w, r, response)
  PROVE  Once!Tell(w, Call(r.key, r.mutation), response)
<1>1. req'[w] = r /\ answer'[w] = response
  BY DEF Respond, TypeInv, TypeOK
<1>2. \A v \in Workers : v # w => req'[v] = req[v] /\ answer'[v] = answer[v]
  BY DEF Respond, TypeInv, TypeOK
<1>3. pc' = [pc EXCEPT ![w] = "replying"]
  BY DEF Respond
<1>4. /\ Told[w] = None
      /\ Told' = [Told EXCEPT ![w] =
                    [call   |-> Call(req'[w].key, req'[w].mutation),
                     answer |-> answer'[w]]]
  BY <1>1, <1>2, <1>3, ToldOne
<1> QED
  BY <1>1, <1>4 DEF Once!Tell

LEMMA UntouchedOnce ==
  ASSUME UNCHANGED <<operations, ledger>>
  PROVE  UNCHANGED <<Running, Remembered>>
  BY DEF operations, ledger, Running, Remembered

LEMMA ReplayOnce ==
  ASSUME LedgerInv, TypeInv', NEW w \in Workers, pc[w] = "idle",
         NEW r \in Requests, Replay(w, r)
  PROVE  Once!Next
<1> DEFINE call == Call(r.key, r.mutation)
<1>1. r \in AllRequests /\ TypeInv /\ LedgerIsEnumerated
  BY ConstantsAssumption DEF LedgerInv, TrackInv
<1>2. UNCHANGED <<Running, Remembered>>
  BY UntouchedOnce DEF Replay, Untouched
<1>3. PICK i \in DOMAIN completed_order : completed_order[i] = r.key
  BY <1>1 DEF Replay, LedgerIsEnumerated, Enumerates
<1>4. completed[r.key].response \in Responses
  BY <1>1 DEF Replay, TypeInv, TypeOK, LedgerTypes, IsPartial
<1>5. CASE completed[r.key].mutation = r.mutation
  <2>1. Once!Tell(w, call, completed[r.key].response)
    BY <1>1, <1>4, <1>5, TellResponse DEF Replay
  <2>2. /\ i \in DOMAIN Remembered /\ Remembered[i].call = call
        /\ Remembered[i].answer = completed[r.key].response
    BY <1>3, <1>5 DEF Remembered
  <2>3. Once!Repeat(w, call)
    BY <1>2, <2>1, <2>2 DEF Once!Repeat
  <2> QED
    BY <2>3 DEF Once!Next
<1>6. CASE completed[r.key].mutation # r.mutation
  <2>1. Once!Tell(w, call, Reply("invalidRequest"))
    BY <1>1, <1>6, TellResponse, ReplyType DEF Replay, Codes
  <2>2. Call(r.key, completed[r.key].mutation) \in Once!Known
    BY <1>1, KnownCalls DEF Replay
  <2>3. Once!Refuse(w, call)
    BY <1>2, <1>6, <2>1, <2>2 DEF Once!Refuse, Call
  <2> QED
    BY <2>3 DEF Once!Next
<1> QED
  BY <1>5, <1>6

LEMMA BusyOnce ==
  ASSUME LedgerInv, TypeInv', NEW w \in Workers, pc[w] = "idle",
         NEW r \in Requests, Busy(w, r)
  PROVE  Once!Next
<1> DEFINE call == Call(r.key, r.mutation)
<1>1. r \in AllRequests /\ TypeInv /\ LedgerIsEnumerated
  BY ConstantsAssumption DEF LedgerInv, TrackInv
<1>2. UNCHANGED <<Running, Remembered>>
  BY UntouchedOnce DEF Busy, Untouched
<1>3. CASE in_flight[r.key] = r.mutation
  <2>1. Once!Tell(w, call, Reply("requestInProgress"))
    BY <1>1, <1>3, TellResponse, ReplyType DEF Busy, Codes
  <2>2. call \in Running
    BY <1>3 DEF Busy, Running
  <2>3. Once!Wait(w, call)
    BY <1>2, <2>1, <2>2 DEF Once!Wait
  <2> QED
    BY <2>3 DEF Once!Next
<1>4. CASE in_flight[r.key] # r.mutation
  <2>1. Once!Tell(w, call, Reply("invalidRequest"))
    BY <1>1, <1>4, TellResponse, ReplyType DEF Busy, Codes
  <2>2. Call(r.key, in_flight[r.key]) \in Once!Known
    BY <1>1, KnownCalls DEF Busy
  <2>3. Once!Refuse(w, call)
    BY <1>2, <1>4, <2>1, <2>2 DEF Once!Refuse, Call
  <2> QED
    BY <2>3 DEF Once!Next
<1> QED
  BY <1>3, <1>4

LEMMA DeclineOnce ==
  ASSUME LedgerInv, TypeInv', NEW w \in Workers, pc[w] = "idle",
         NEW r \in Requests, DuplicateId(w, r) \/ StartUnannounced(w, r)
  PROVE  Once!Next
<1> DEFINE call == Call(r.key, r.mutation)
<1>1. r \in AllRequests /\ TypeInv /\ LedgerIsEnumerated
  BY ConstantsAssumption DEF LedgerInv, TrackInv
<1>2. UNCHANGED <<Running, Remembered>>
  BY UntouchedOnce DEF DuplicateId, StartUnannounced, Untouched
<1>3. \E a \in {Reply("requestInProgress"), Reply("internalError")} :
        Once!Tell(w, call, a)
  BY <1>1, TellResponse, ReplyType DEF DuplicateId, StartUnannounced, Codes
<1>4. Once!IsFresh(call)
  BY <1>1, FreshCalls DEF DuplicateId, StartUnannounced
<1>5. Once!Decline(w, call)
  BY <1>2, <1>3, <1>4 DEF Once!Decline
<1> QED
  BY <1>5 DEF Once!Next

LEMMA StartOnce ==
  ASSUME LedgerInv, NEW w \in Workers, pc[w] = "idle",
         NEW r \in Requests, Start(w, r)
  PROVE  Once!Next
<1> DEFINE call == Call(r.key, r.mutation)
<1>1. TypeInv /\ LedgerIsEnumerated
  BY DEF LedgerInv, TrackInv
<1>2. Remembered' = Remembered
  BY DEF Start, ledger, Remembered
<1>3. Told' = Told
  BY <1>1, ToldUnchanged DEF Start, TypeInv, TypeOK
<1>4. Running' = Running \cup {call}
  BY DEF Start, Fresh, Running, Insert
<1>5. Once!IsFresh(call)
  BY <1>1, FreshCalls DEF Start
<1>6. Once!Begin(call)
  BY <1>2, <1>3, <1>4, <1>5 DEF Once!Begin
<1> QED
  BY <1>6 DEF Once!Next

\* An answer that is remembered, and told to one thread.
LEMMA AnswerOnce ==
  ASSUME LedgerInv, TypeInv', LedgerIsEnumerated', NEW w \in Workers,
         pc[w] # "replying", pc' = [pc EXCEPT ![w] = "replying"],
         req'[w] \in AllRequests, answer'[w] \in Responses,
         \A v \in Workers : v # w => /\ req'[v] = req[v]
                                     /\ answer'[v] = answer[v],
         NEW r, r = req'[w], NEW response, response = answer'[w],
         r.key \notin DOMAIN completed, Remember(r, response)
  PROVE  Once!Answer(w, Call(r.key, r.mutation))
<1> DEFINE told == [call |-> Call(r.key, r.mutation), answer |-> response]
<1>1. TypeInv /\ LedgerIsEnumerated
  BY DEF LedgerInv, TrackInv
<1>2. /\ Told[w] = None /\ Told' = [Told EXCEPT ![w] = told]
      /\ Told'[w] \in Answers /\ Told'[w] # None
  BY <1>1, ToldOne
<1>3. Told'[w] = told
  BY <1>2 DEF Told
<1>4. Gains(r, response)
  BY <1>1, RememberGains
<1>5. Remembered' = Pushed(Remembered, told)
  BY <1>1, <1>4, GainsRemembered
<1>6. Once!Tell(w, Call(r.key, r.mutation), Told'[w].answer)
  BY <1>2, <1>3 DEF Once!Tell
<1> QED
  BY <1>2, <1>3, <1>5, <1>6 DEF Once!Answer, Pushed

LEMMA CancelOnce ==
  ASSUME LedgerInv, TypeInv', LedgerIsEnumerated', NEW w \in Workers,
         pc[w] = "idle", NEW r \in Requests, Cancel(w, r)
  PROVE  Once!Next
<1> DEFINE call == Call(r.key, r.mutation)
<1>1. r \in AllRequests /\ TypeInv /\ LedgerIsEnumerated
  BY ConstantsAssumption DEF LedgerInv, TrackInv
<1>2. /\ req'[w] = r /\ answer'[w] \in Responses
      /\ r.key \notin DOMAIN completed /\ Remember(r, answer'[w])
      /\ pc' = [pc EXCEPT ![w] = "replying"]
      /\ \A v \in Workers : v # w => /\ req'[v] = req[v]
                                     /\ answer'[v] = answer[v]
  BY <1>1, ReplyType DEF Cancel, Fresh, Codes, TypeInv, TypeOK
<1>3. Once!Answer(w, call)
  BY <1>1, <1>2, AnswerOnce
<1>4. Once!IsFresh(call)
  BY <1>1, FreshCalls DEF Cancel
<1>5. Running' = Running
  BY DEF Cancel, operations, Running
<1>6. Once!ExecuteAtOnce(w, call)
  BY <1>3, <1>4, <1>5 DEF Once!ExecuteAtOnce
<1> QED
  BY <1>6 DEF Once!Next

LEMMA SettleOnce ==
  ASSUME LedgerInv, TypeInv', LedgerIsEnumerated', NEW w \in Workers,
         Settle(w)
  PROVE  Once!Next
<1> DEFINE r    == req[w]
           call == Call(r.key, r.mutation)
<1>1. TypeInv /\ Executing(w)
  BY DEF LedgerInv, TrackInv, Settle, Executing
<1>2. /\ r \in AllRequests /\ r \in Requests /\ r.key \in DOMAIN in_flight
      /\ in_flight[r.key] = r.mutation /\ r.key \notin DOMAIN completed
  BY <1>1 DEF LedgerInv, TrackInv, RequestsAreSent, RunningIsTracked,
              KeyExecutesOnce
<1>3. /\ answer'[w] \in Responses /\ Remember(r, answer'[w])
      /\ \A v \in Workers : v # w => answer'[v] = answer[v]
  BY <1>1, SettleAnswers
<1>4. req' = req /\ pc[w] # "replying" /\ pc' = [pc EXCEPT ![w] = "replying"]
  BY DEF Settle
<1>5. Once!Answer(w, call)
  BY <1>2, <1>3, <1>4, AnswerOnce
<1>6. call \in Running /\ Running' = Running \ {call}
  BY <1>2 DEF Settle, Running, Restrict, Call
<1>7. Once!Finish(w, call)
  BY <1>5, <1>6 DEF Once!Finish
<1> QED
  BY <1>2, <1>7 DEF Once!Next

LEMMA WriteReplyOnce ==
  ASSUME LedgerInv, NEW w \in Workers, WriteReply(w)
  PROVE  Once!Next
<1>0. TypeInv
  BY DEF LedgerInv, TrackInv
<1>1. UNCHANGED <<Running, Remembered>>
  BY UntouchedOnce DEF WriteReply, Untouched
<1>2. Told[w] \in Answers
  BY ConstantsAssumption DEF LedgerInv, RepliesAreReady, WriteReply, Told,
                             Answers, Call, AllRequests
<1>3. Told' = [Told EXCEPT ![w] = None]
  BY <1>0 DEF WriteReply, Told, TypeInv, TypeOK
<1>4. Once!Deliver(w)
  BY <1>1, <1>2, <1>3, AnswerAssumption DEF Once!Deliver
<1> QED
  BY <1>4 DEF Once!Next

\* The steps between, of which OnceOnly knows nothing.
LEMMA OtherOnce ==
  ASSUME TypeInv,
         \/ \E w \in Workers : CheckBefore(w) \/ Inspect(w) \/ CheckAfter(w)
         \/ \E s \in Subscribers : Subscribe(s) \/ SubscriberStep(s)
         \/ UNCHANGED vars
  PROVE  UNCHANGED <<Running, Remembered, Told>>
<1> USE DEF TypeInv, TypeOK
<1>1. UNCHANGED <<operations, ledger>>
  BY DEF CheckBefore, Inspect, CheckAfter, Unlocked, Subscribe,
         SubscriberStep, Take, Written, WriteFails, EndOfStream, Close,
         Elsewhere, vars
<1>2. ASSUME NEW w \in Workers, CheckBefore(w) \/ Inspect(w) \/ CheckAfter(w)
      PROVE  Told' = Told
  BY <1>2, ToldUnchanged DEF CheckBefore, Inspect, CheckAfter, Executed, Unlocked
<1>3. ASSUME NEW s \in Subscribers, Subscribe(s) \/ SubscriberStep(s)
      PROVE  UNCHANGED worker
  BY <1>3 DEF Subscribe, SubscriberStep, Take, Written, WriteFails,
              EndOfStream, Close, Elsewhere
<1>4. UNCHANGED vars => UNCHANGED worker
  BY DEF vars
<1>5. UNCHANGED worker => Told' = Told
  BY DEF worker, Told
<1> QED
  BY <1>1, <1>2, <1>3, <1>4, <1>5, UntouchedOnce

LEMMA RestartOnce == ASSUME Restart PROVE Once!Restart
<1>1. Running' = {}
  BY DEF Restart, Running
<1>2. DOMAIN completed_order' = {}
  BY DEF Restart
<1>3. Remembered' = << >>
  BY <1>2 DEF Remembered
<1>4. Told' = [w \in Workers |-> None]
  BY DEF Restart, Lost, Told
<1> QED
  BY <1>1, <1>3, <1>4 DEF Once!Restart

LEMMA OnceNext ==
  ASSUME LedgerInv, LedgerInv', [Next]_vars
  PROVE  [Once!Next]_Once!vars
<1>1. TypeInv /\ TypeInv' /\ LedgerIsEnumerated'
  BY DEF LedgerInv, TrackInv
<1>2. ASSUME NEW w \in Workers, Receive(w)
      PROVE  Once!Next
  BY <1>1, <1>2, ReplayOnce, BusyOnce, DeclineOnce, StartOnce, CancelOnce
     DEF Receive
<1>3. ASSUME NEW w \in Workers, Settle(w) \/ WriteReply(w)
      PROVE  Once!Next
  BY <1>1, <1>3, SettleOnce, WriteReplyOnce
<1>4. CASE Restart
  BY <1>4, RestartOnce DEF Once!Next
<1>5. CASE \/ \E w \in Workers : CheckBefore(w) \/ Inspect(w) \/ CheckAfter(w)
           \/ \E s \in Subscribers : Subscribe(s) \/ SubscriberStep(s)
           \/ UNCHANGED vars
  BY <1>1, <1>5, OtherOnce DEF Once!vars
<1> QED
  BY <1>2, <1>3, <1>4, <1>5 DEF Next, WorkerStep

\* The session keeps the promise of OnceOnly: begin_open, complete_open and
\* cancel_request execute a key once, remember_completed forgets only the
\* oldest answers, and every retry in between is told the remembered one.
THEOREM OnceOnlyImplemented == Spec => ImplementsOnceOnly
<1>1. Init => Once!Init
  BY OnceInit
<1>2. LedgerInv /\ LedgerInv' /\ [Next]_vars => [Once!Next]_Once!vars
  BY OnceNext
<1> QED
  BY <1>1, <1>2, LedgerInvariant, PTL DEF Spec, ImplementsOnceOnly, Once!Spec
=============================================================================
