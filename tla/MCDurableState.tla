---------------------------- MODULE MCDurableState ---------------------------
(* Instances of DurableState for TLC: all ids are model values.  Projects,   *)
(* plans and holders are interchangeable, and so are tasks with the same     *)
(* budget: the rows keep an order, the ids have none.                        *)
EXTENDS DurableState, TLC

CONSTANT BigTasks  \* tasks whose disk budget does not fit its column

MCBudget ==
  [t \in Tasks |->
     [memory |-> 1, disk |-> IF t \in BigTasks THEN 4 ELSE 3, tools |-> 1,
      limits |-> [prompt |-> 1, completion |-> 2, cost |-> 3]]]

Interchangeable ==
  UNION {Permutations(S) :
           S \in {Projects, Plans, Holders, BigTasks, Tasks \ BigTasks}}
=============================================================================
