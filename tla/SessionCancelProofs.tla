-------------------------- MODULE SessionCancelProofs --------------------------
(***************************************************************************)
(* What an accepted cancellation is worth, for any threads and requests.   *)
(***************************************************************************)
EXTENDS SessionCancel, SessionProofs

\* An open that was cancelled in time has its flag set until it has looked at it
\* for the second time, and has no project to report from then on.
Heeded(w) ==
  \/ InTime(w) /\ cancelled[w]
  \/ pc[w] \in {"settling", "replying"} /\ answer[w].code # "projectOpened"

RevokedInv == /\ revoked \subseteq Workers
              /\ \A w \in revoked : Heeded(w)

\* An accepted cancellation reaches the flag of the open that its client means:
\* the index leads from the id to the one thread that runs under it.
LEMMA RevokedFlag ==
  ASSUME TrackInv, NEW v \in Workers, NEW w \in Workers, InTime(w), Revokes(v, w)
  PROVE  InTime(w)' /\ cancelled'[w]
<1>1. PICK r \in Requests : /\ Cancel(v, r)
                            /\ answer'[v].code = "accepted"
                            /\ req[w].id = r.mutation.target
  BY DEF Revokes
<1>2. r.mutation.target \in DOMAIN active /\ active[r.mutation.target] = w
  BY <1>1 DEF TrackInv, RunningIsTracked, InTime, Executing
<1>3. cancelled' = [cancelled EXCEPT ![w] = TRUE]
  BY <1>1, <1>2 DEF Cancel
<1>4. v # w /\ pc' = [pc EXCEPT ![v] = "replying"]
  BY <1>1 DEF Revokes, Cancel, InTime
<1> QED
  BY <1>3, <1>4 DEF TrackInv, TypeInv, TypeOK, InTime

\* Whatever the threads do, the flag stays set and the answer what it is.
LEMMA HeededStep ==
  ASSUME TrackInv, Next, NEW w \in Workers, Heeded(w), pc'[w] # "idle"
  PROVE  Heeded(w)'
<1> USE DEF TrackInv, TypeInv, TypeOK, Heeded, InTime
<1>1. ASSUME NEW v \in Workers, v # w, Receive(v) \/ WorkerStep(v)
      PROVE  Heeded(w)'
  <2>1. /\ pc'[w] = pc[w] /\ answer'[w] = answer[w]
        /\ cancelled[w] => cancelled'[w]
    <3>1. CASE \E r \in Requests : Cancel(v, r)
      BY <1>1, <3>1 DEF Cancel
    <3>2. CASE Receive(v) /\ ~ \E r \in Requests : Cancel(v, r)
      BY <1>1, <3>2 DEF Receive, Replay, Busy, DuplicateId, StartUnannounced,
                        Start, Respond
    <3>3. CASE WorkerStep(v)
      BY <1>1, <3>3 DEF WorkerStep, CheckBefore, Inspect, CheckAfter, Executed,
                        Unlocked, Settle, Complete, CompleteSuccess, WriteReply
    <3> QED
      BY <1>1, <3>1, <3>2, <3>3
  <2> QED
    BY <2>1
<1>2. ~Receive(w) /\ ~WriteReply(w)
  BY DEF Receive, WriteReply
<1>3. CASE CheckBefore(w) \/ Inspect(w) \/ CheckAfter(w)
  BY <1>3 DEF CheckBefore, Inspect, CheckAfter, Executed, Unlocked, Reply
<1>4. CASE Settle(w)
  BY <1>4 DEF Settle, Complete, Reply
<1>5. ASSUME NEW s \in Subscribers, Subscribe(s) \/ SubscriberStep(s)
      PROVE  Heeded(w)'
  BY <1>5 DEF Subscribe, SubscriberStep, Take, Written, WriteFails,
              EndOfStream, Close, Elsewhere, worker
<1>6. ~Restart
  BY DEF Restart, Lost
<1> QED
  BY <1>1, <1>2, <1>3, <1>4, <1>5, <1>6 DEF Next, WorkerStep

\* RevokedInv is inductive.
LEMMA RevokedInvNext ==
  TrackInv /\ RevokedInv /\ [CancelNext]_CancelVars => RevokedInv'
<1> SUFFICES ASSUME TrackInv, RevokedInv, [CancelNext]_CancelVars
             PROVE  RevokedInv'
  OBVIOUS
<1>1. CASE CancelNext
  <2>1. revoked' = {w \in revoked : pc'[w] # "idle"}
          \cup {w \in Workers : InTime(w) /\ \E v \in Workers : Revokes(v, w)}
    BY <1>1 DEF CancelNext, Record
  <2>2. ASSUME NEW w \in revoked, pc'[w] # "idle" PROVE Heeded(w)'
    BY <1>1, <2>2, HeededStep DEF CancelNext, RevokedInv
  <2>3. ASSUME NEW w \in Workers, InTime(w), NEW v \in Workers, Revokes(v, w)
        PROVE  Heeded(w)'
    BY <2>3, RevokedFlag DEF Heeded
  <2> QED
    BY <2>1, <2>2, <2>3 DEF RevokedInv
<1>2. CASE UNCHANGED CancelVars
  BY <1>2 DEF CancelVars, vars, worker, RevokedInv, Heeded, InTime
<1> QED
  BY <1>1, <1>2

\* A step of such an open opens nothing.
LEMMA RevokedStep ==
  ASSUME TrackInv, RevokedInv, RevokedInv', Next,
         NEW w \in revoked \cap revoked', pc'[w] # pc[w]
  PROVE  /\ UNCHANGED <<minted, stored, project>>
         /\ pc'[w] \in {"settling", "replying"}
              => answer'[w].code # "projectOpened"
<1> USE DEF TrackInv, TypeInv, TypeOK
<1>1. w \in Workers /\ Heeded(w) /\ Heeded(w)'
  BY DEF RevokedInv
<1>2. pc'[w] # "idle" /\ pc[w] # "idle"
  BY <1>1 DEF Heeded, InTime
<1>3. ASSUME NEW v \in Workers, v # w, Receive(v) \/ WorkerStep(v)
      PROVE  FALSE
  BY <1>1, <1>3 DEF Receive, Replay, Busy, DuplicateId, StartUnannounced, Start,
                    Cancel, Respond, WorkerStep, CheckBefore, Inspect, CheckAfter,
                    Executed, Settle, WriteReply
<1>4. ASSUME NEW s \in Subscribers, Subscribe(s) \/ SubscriberStep(s)
      PROVE  FALSE
  BY <1>4 DEF Subscribe, SubscriberStep, Take, Written, WriteFails,
              EndOfStream, Close, Elsewhere, worker
<1>5. ~Receive(w) /\ ~WriteReply(w) /\ ~Restart
  BY <1>1, <1>2 DEF Receive, WriteReply, Restart, Lost
<1>6. CASE CheckBefore(w) \/ Inspect(w) \/ CheckAfter(w)
  BY <1>1, <1>6 DEF CheckBefore, Inspect, CheckAfter, Unlocked, Heeded, InTime
<1>7. CASE Settle(w)
  BY <1>1, <1>7 DEF Settle, Complete, Heeded, InTime
<1>8. UNCHANGED <<minted, stored, project>>
  BY <1>3, <1>4, <1>5, <1>6, <1>7 DEF Next, WorkerStep
<1> QED
  BY <1>1, <1>8 DEF Heeded, InTime

\* An open whose cancellation was accepted before its second look at the flag
\* generates, saves, reports and answers no project.
THEOREM CancelledComesToNothing == CancelSpec => CancelledOpensNothing
<1>1. CancelInit => TrackInv /\ RevokedInv
  BY TrackInvInit DEF CancelInit, RevokedInv
<1>2. TrackInv /\ [CancelNext]_CancelVars => TrackInv'
  <2>1. [CancelNext]_CancelVars => [Next]_vars
    BY DEF CancelNext, CancelVars
  <2> QED
    BY <2>1, TrackInvNext
<1>3. TrackInv /\ RevokedInv /\ RevokedInv' /\ [CancelNext]_CancelVars
        => [\A w \in revoked \cap revoked' :
              pc'[w] # pc[w] => /\ UNCHANGED <<minted, stored, project>>
                                /\ pc'[w] \in {"settling", "replying"}
                                     => answer'[w].code # "projectOpened"]_CancelVars
  BY RevokedStep DEF CancelNext
<1> QED
  BY <1>1, <1>2, <1>3, RevokedInvNext, PTL DEF CancelSpec, CancelledOpensNothing
=============================================================================
