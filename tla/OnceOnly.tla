------------------------------ MODULE OnceOnly ------------------------------
(***************************************************************************)
(* What the idempotency keys of the daemon promise its clients, with no    *)
(* mention of threads, locks, events or request ids: between two restarts  *)
(* a call is executed once however often it is made, every repetition is   *)
(* told the answer of that execution for as long as it is remembered, and  *)
(* a key used for one call is refused to any other.  The Limit last        *)
(* answers are remembered; a restart forgets them all.                     *)
(***************************************************************************)
EXTENDS Naturals, Sequences, SequencesExt

CONSTANTS
  Callers,     \* threads that are told answers
  Calls,       \* records with a key: the mutations clients ask for
  Limit,       \* answers remembered
  InProgress,  \* the answer to a call being executed
  Conflict,    \* the answer to a call whose key belongs to another
  Declined,    \* answers to a call that is not executed, and not remembered
  None         \* no answer

VARIABLES
  running,     \* the calls being executed
  remembered,  \* calls executed, with their answers, oldest first
  told         \* what each caller is being told: a call and an answer, or None

vars == <<running, remembered, told>>

Init ==
  /\ running = {}
  /\ remembered = << >>
  /\ told = [c \in Callers |-> None]

Known == running \cup {remembered[i].call : i \in DOMAIN remembered}

IsFresh(call) == \A known \in Known : known.key # call.key

Tell(c, call, answer) ==
  /\ told[c] = None
  /\ told' = [told EXCEPT ![c] = [call |-> call, answer |-> answer]]

\* The call has been executed: its answer, whatever it is, goes to its caller
\* and among those remembered, if need be in the place of the oldest.
Answer(c, call) ==
  /\ told'[c] # None
  /\ Tell(c, call, told'[c].answer)
  /\ LET answers == Append(remembered, told'[c])
     IN remembered' = IF Len(answers) > Limit THEN Tail(answers) ELSE answers

Begin(call) ==
  /\ IsFresh(call)
  /\ running' = running \cup {call}
  /\ UNCHANGED <<remembered, told>>

Finish(c, call) ==
  /\ call \in running
  /\ running' = running \ {call}
  /\ Answer(c, call)

\* A call executed in one step.
ExecuteAtOnce(c, call) ==
  /\ IsFresh(call)
  /\ Answer(c, call)
  /\ UNCHANGED running

Repeat(c, call) ==
  /\ \E i \in DOMAIN remembered :
       /\ remembered[i].call = call
       /\ Tell(c, call, remembered[i].answer)
  /\ UNCHANGED <<running, remembered>>

Wait(c, call) ==
  /\ call \in running
  /\ Tell(c, call, InProgress)
  /\ UNCHANGED <<running, remembered>>

Refuse(c, call) ==
  /\ \E known \in Known : known.key = call.key /\ known # call
  /\ Tell(c, call, Conflict)
  /\ UNCHANGED <<running, remembered>>

\* A new call the service cannot take on now.
Decline(c, call) ==
  /\ IsFresh(call)
  /\ \E answer \in Declined : Tell(c, call, answer)
  /\ UNCHANGED <<running, remembered>>

Deliver(c) ==
  /\ told[c] # None
  /\ told' = [told EXCEPT ![c] = None]
  /\ UNCHANGED <<running, remembered>>

Restart ==
  /\ running' = {}
  /\ remembered' = << >>
  /\ told' = [c \in Callers |-> None]

Next ==
  \/ \E call \in Calls : Begin(call)
  \/ \E c \in Callers, call \in Calls :
       \/ Finish(c, call) \/ ExecuteAtOnce(c, call) \/ Repeat(c, call)
       \/ Wait(c, call) \/ Refuse(c, call) \/ Decline(c, call)
  \/ \E c \in Callers : Deliver(c)
  \/ Restart

Spec == Init /\ [][Next]_vars
=============================================================================
