----------------------------- MODULE SessionOnce -----------------------------
(***************************************************************************)
(* The session implements OnceOnly: a call is a mutation under a key, its  *)
(* execution is what a thread does while the key is in flight, and the     *)
(* ledger and its eviction queue are the answers remembered.               *)
(***************************************************************************)
EXTENDS Session

Call(key, mutation) == [key |-> key, mutation |-> mutation]

\* What a thread is told, and the ledger remembers: a call and its answer.
Answers == [call   : [key : Keys, mutation : Mutations],
            answer : Responses]

ASSUME AnswerAssumption == None \notin Answers

Running == {Call(k, in_flight[k]) : k \in DOMAIN in_flight}

Remembered ==
  [i \in DOMAIN completed_order |->
     [call   |-> Call(completed_order[i],
                      completed[completed_order[i]].mutation),
      answer |-> completed[completed_order[i]].response]]

Told ==
  [w \in Workers |->
     IF pc[w] = "replying"
     THEN [call   |-> Call(req[w].key, req[w].mutation),
           answer |-> answer[w]]
     ELSE None]

Once == INSTANCE OnceOnly WITH
  Callers    <- Workers,
  Calls      <- {Call(r.key, r.mutation) : r \in Requests},
  Limit      <- LedgerLimit,
  InProgress <- Reply("requestInProgress"),
  Conflict   <- Reply("invalidRequest"),
  Declined   <- {Reply("requestInProgress"), Reply("internalError")},
  running    <- Running,
  remembered <- Remembered,
  told       <- Told

\* The ledger keeps the promise of idempotency keys: whatever requests are
\* resent, in whatever order threads finish, a key is executed once, a retry
\* is told what the execution came to until that is evicted as the oldest,
\* and only a restart breaks this off (begin_open, complete_open,
\* cancel_request, remember_completed).
ImplementsOnceOnly == Once!Spec
=============================================================================
