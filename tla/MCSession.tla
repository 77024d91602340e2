------------------------------ MODULE MCSession ------------------------------
(***************************************************************************)
(* Instances of Session for TLC.  Requests are chosen so that each way two *)
(* of them can meet happens: a retry with the same key under a new id, the *)
(* same id under a new key, the same key for another mutation, a           *)
(* cancellation of each of them, and an unrelated open.                    *)
(***************************************************************************)
EXTENDS SessionFeed, SessionOnce, TLC

CONSTANTS w1, w2, s1, s2, r1, r2, r3, k1, k2, k3, p1, p2, d1

Open(i, k, p)   == [id |-> i, key |-> k, mutation |-> [op |-> "open", path |-> p]]
Stop(i, k, t)   == [id |-> i, key |-> k, mutation |-> [op |-> "cancel", target |-> t]]

\* Both paths lead to the same repository: one of them is a link.
MCCanonicalRoot == [p \in Paths |-> d1]

LedgerRequests == {Open(r1, k1, p1), Open(r2, k1, p1), Open(r2, k1, p2),
                   Open(r1, k2, p1), Stop(r2, k2, r1), Stop(r3, k3, r1)}

StreamRequests == {Open(r1, k1, p1), Open(r2, k2, p1)}

ProgressRequests == {Open(r1, k1, p1), Stop(r3, k3, r1)}

SymmetricThreads == Permutations(Workers) \cup Permutations(Subscribers)
=============================================================================
