---------------------------- MODULE ResourceBudget ----------------------------
(***************************************************************************)
(* The resource budget of a task (crates/kesharon-domain/src/budget.rs)    *)
(* and the columns the state repository keeps it in (RawTaskBudget in      *)
(* crates/kesharon-daemon/src/storage.rs): unsigned amounts of two widths, *)
(* some of them optional, in a database whose integers are signed.         *)
(***************************************************************************)
EXTENDS Naturals

CONSTANTS
  MaxU64, MaxI64, MaxU16,  \* the largest numbers of these types
  None                     \* Option::None, NULL

ASSUME WidthsAssumption ==
  /\ MaxU64 \in Nat /\ MaxI64 \in Nat /\ MaxU16 \in Nat \ {0}
  /\ MaxU16 <= MaxI64 /\ MaxI64 < MaxU64

ASSUME NullAssumption == None \notin Nat

-----------------------------------------------------------------------------
(* ResourceBudget::new and with_token_limits: no amount is zero, and a      *)
(* budget has all three token limits or none.                               *)
Limits == [prompt : 1 .. MaxU64, completion : 1 .. MaxU64, cost : 1 .. MaxU64]

Budgets == [memory : 1 .. MaxU64, disk : 1 .. MaxU64, tools : 1 .. MaxU16,
            limits : Limits \cup {None}]

\* What comes back from the database.
Column == 1 .. MaxI64

Columns == [memory : Column, disk : Column, tools : 1 .. MaxU16,
            prompt : Column \cup {None}, completion : Column \cup {None},
            cost : Column \cup {None}]

-----------------------------------------------------------------------------
(* Writing.                                                                 *)

\* i64_from_u64 reports an amount too large as an error.
Fits(amount) == amount <= MaxI64

Storable(b) ==
  /\ Fits(b.memory) /\ Fits(b.disk)
  /\ b.limits # None =>
       Fits(b.limits.prompt) /\ Fits(b.limits.completion) /\ Fits(b.limits.cost)

ColumnsOf(b) ==
  [memory |-> b.memory, disk |-> b.disk, tools |-> b.tools,
   prompt     |-> IF b.limits = None THEN None ELSE b.limits.prompt,
   completion |-> IF b.limits = None THEN None ELSE b.limits.completion,
   cost       |-> IF b.limits = None THEN None ELSE b.limits.cost]

-----------------------------------------------------------------------------
(* Reading.                                                                 *)

Limited(r) == None \notin {r.prompt, r.completion, r.cost}

\* RawTaskBudget::into_resource_budget, unless it fails: on a number that is
\* not of the type, or is zero.
Readable(r) ==
  /\ r.memory \in 1 .. MaxU64 /\ r.disk \in 1 .. MaxU64
  /\ r.tools \in 1 .. MaxU16
  /\ Limited(r) => {r.prompt, r.completion, r.cost} \subseteq 1 .. MaxU64

\* Mutant: two columns are taken for one another.
ParseBudgetSwapped(r) ==
  [memory |-> r.memory, disk |-> r.disk, tools |-> r.tools,
   limits |-> IF Limited(r)
              THEN [prompt |-> r.completion, completion |-> r.prompt, cost |-> r.cost]
              ELSE None]

ParseBudget(r) ==
  [memory |-> r.memory, disk |-> r.disk, tools |-> r.tools,
   limits |-> IF Limited(r)
              THEN [prompt |-> r.prompt, completion |-> r.completion, cost |-> r.cost]
              ELSE None]
=============================================================================
