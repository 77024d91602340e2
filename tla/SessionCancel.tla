----------------------------- MODULE SessionCancel -----------------------------
(***************************************************************************)
(* What an accepted cancellation is worth.  To the client it names an open *)
(* by its request id; in the session the id leads to the flag of a thread, *)
(* which that thread looks at twice.  A history variable records, with the *)
(* client's eyes, which opens were cancelled in time; the session does not *)
(* read it.                                                                *)
(***************************************************************************)
EXTENDS Session

VARIABLE revoked  \* threads whose open was cancelled before its second look

\* The open of w has not looked at its flag for the last time.
InTime(w) == pc[w] \in {"started", "inspecting", "inspected"}

\* Thread v executes a cancellation that names the open of w, and tells its
\* client that it is accepted.  A response that is only replayed is no execution.
Revokes(v, w) ==
  /\ pc[v] = "idle"
  /\ \E r \in Requests : /\ Cancel(v, r)
                         /\ answer'[v].code = "accepted"
                         /\ req[w].id = r.mutation.target

Record ==
  revoked' = {w \in revoked : pc'[w] # "idle"}
             \cup {w \in Workers : InTime(w) /\ \E v \in Workers : Revokes(v, w)}

CancelVars == <<vars, revoked>>

CancelInit == Init /\ revoked = {}

CancelNext == Next /\ Record

CancelSpec == CancelInit /\ [][CancelNext]_CancelVars

\* An open whose cancellation was accepted before it looked at its flag for the
\* second time comes to nothing, however the threads go on from there: it
\* generates no project id, writes nothing to the database, does not become the
\* current project and is not answered as opened.
CancelledOpensNothing ==
  [][\A w \in revoked \cap revoked' :
       pc'[w] # pc[w] => /\ UNCHANGED <<minted, stored, project>>
                         /\ pc'[w] \in {"settling", "replying"}
                              => answer'[w].code # "projectOpened"]_CancelVars
=============================================================================
