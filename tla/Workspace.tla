------------------------------ MODULE Workspace ------------------------------
(***************************************************************************)
(* The state of the web view (apps/desktop/src/useWorkspace.ts) between    *)
(* its two sources: the updates of the event stream, in order, and the     *)
(* answers to its own calls, each when it comes.                           *)
(*                                                                         *)
(* The other side is kept to what the web view can tell of it: an open     *)
(* that has reached the daemon is announced, runs and is announced to have *)
(* ended, and its answer sets out; the host may give up waiting; the       *)
(* stream may lose events and then starts again from a snapshot.           *)
(*                                                                         *)
(* Left out, with the actions that touch nothing else: the path and goal   *)
(* fields, the connection badge, and the stream's id and last sequence     *)
(* number, which the reducer stores and never reads.                       *)
(***************************************************************************)
EXTENDS Naturals, Sequences

CONSTANTS
  Calls,      \* calls of chooseAndOpen: the host's id for the open each makes,
              \* and the project it opens
  MaxLosses,  \* how often the stream may be lost
  None

ASSUME WorkspaceAssumption == MaxLosses \in Nat /\ None \notin Calls

\* req-client-open-<time>: the web view's own name for an open.
ClientId(c) == <<c>>
Ids == Calls \cup {ClientId(c) : c \in Calls}

VARIABLES
  project, openingOperation,  \* WorkspaceState
  openingError,  \* its error banner: the open it is about, or None
  call,       \* where each call is
  answer,     \* what openProject returns to it, once it does
  cancels,    \* targets of cancelRequest under way
  updates,    \* stream updates the web view has not handled
  link,       \* whether the daemon's events reach updates
  losses,
  authority,  \* the daemon's project
  operation,  \* where the daemon is with each open
  flagged,    \* opens whose cancel flag is set
  overtaken   \* history: what of "project" and "error" is shown because of an
              \* answer the daemon had moved on from when it arrived

view   == <<project, openingOperation, openingError>>
bridge == <<call, answer, cancels>>
stream == <<updates, link, losses>>
daemon == <<authority, operation, flagged>>
vars   == <<view, bridge, stream, daemon, overtaken>>

Running == {c \in Calls : operation[c] = "running"}
Waiting == {c \in Calls : call[c] = "waiting"}

Card(i, s) == [requestId |-> i, status |-> s]

Init ==
  /\ project = None
  /\ openingOperation = None
  /\ openingError = None
  /\ call = [c \in Calls |-> "unused"]
  /\ answer = [c \in Calls |-> None]
  /\ cancels = {}
  /\ updates = << >>
  /\ link = "none"
  /\ losses = 0
  /\ authority = None
  /\ operation = [c \in Calls |-> "none"]
  /\ flagged = {}
  /\ overtaken = {}

-----------------------------------------------------------------------------
(* The user.                                                                *)

\* CLEAR_ERROR.
HideError ==
  /\ openingError' = None
  /\ overtaken' = overtaken \ {"error"}

ClearError ==
  /\ openingError # None
  /\ HideError
  /\ UNCHANGED <<project, openingOperation, bridge, stream, daemon>>

\* The buttons that lead here are enabled while no card is shown.
ChooseAndOpen(c) ==
  /\ openingOperation = None
  /\ call[c] = "unused"
  /\ call' = [call EXCEPT ![c] = "choosing"]
  /\ HideError
  /\ UNCHANGED <<project, openingOperation, answer, cancels, stream, daemon>>

\* chooseProjectDirectory returns nothing: the user closed the picker.
PickNothing(c) ==
  /\ call[c] = "choosing"
  /\ call' = [call EXCEPT ![c] = "unused"]
  /\ UNCHANGED <<view, answer, cancels, stream, daemon, overtaken>>

\* chooseProjectDirectory fails: OPENING_FAILED takes down any card there is.
PickFails(c) ==
  /\ call[c] = "choosing"
  /\ call' = [call EXCEPT ![c] = "unused"]
  /\ openingOperation' = None
  /\ openingError' = c
  /\ overtaken' = overtaken \ {"error"}
  /\ UNCHANGED <<project, answer, cancels, stream, daemon>>

\* START_OPENING, and openProject sets out.  The id of the card stays here.
Pick(c) ==
  /\ call[c] = "choosing"
  /\ call' = [call EXCEPT ![c] = "waiting"]
  /\ openingOperation' = Card(ClientId(c), "opening")
  /\ operation' = [operation EXCEPT ![c] = "sent"]
  /\ HideError
  /\ UNCHANGED <<project, answer, cancels, stream, authority, flagged>>

\* cancelOpening.  Nothing is made of its answer.
CancelOpening ==
  /\ openingOperation # None
  /\ openingOperation.status = "opening"
  /\ openingOperation' = [openingOperation EXCEPT !.status = "cancelling"]
  /\ cancels' = cancels \cup {openingOperation.requestId}
  /\ UNCHANGED <<project, openingError, call, answer, stream, daemon, overtaken>>

-----------------------------------------------------------------------------
(* Answers.                                                                 *)

\* PROJECT_OPENED or OPENING_FAILED.
OpenAnswers(c) ==
  /\ call[c] = "waiting"
  /\ answer[c] # None
  /\ call' = [call EXCEPT ![c] = "done"]
  /\ openingOperation' = None
  /\ IF answer[c] = "opened"
     THEN /\ project' = c
          /\ openingError' = None
          /\ overtaken' = IF authority = c THEN {} ELSE {"project"}
     ELSE /\ openingError' = c
          /\ overtaken' = (overtaken \ {"error"})
                          \cup IF authority = c THEN {"error"} ELSE {}
          /\ UNCHANGED project
  /\ answer' = [answer EXCEPT ![c] = None]
  /\ UNCHANGED <<cancels, stream, daemon>>

-----------------------------------------------------------------------------
(* Updates of the stream.                                                   *)

\* Mutant: a snapshot without open under way leaves the card as it is.
ApplySnapshotKeepingCard(u) ==
  /\ openingOperation' =
       IF u.first = None THEN openingOperation
       ELSE Card(u.first, IF openingOperation = None THEN "opening"
                           ELSE openingOperation.status)
  /\ project' = u.project
  /\ openingError' = None
  /\ overtaken' = {}

\* Mutant: a snapshot without project leaves the project as it is.
ApplySnapshotKeepingProject(u) ==
  /\ openingOperation' =
       IF u.first = None THEN None
       ELSE Card(u.first, IF openingOperation = None THEN "opening"
                           ELSE openingOperation.status)
  /\ project' = IF u.project = None THEN project ELSE u.project
  /\ openingError' = None
  /\ overtaken' = {}

ApplySnapshot(u) ==
  /\ openingOperation' =
       IF u.first = None THEN None
       ELSE Card(u.first, IF openingOperation = None THEN "opening"
                           ELSE openingOperation.status)
  /\ project' = u.project
  /\ openingError' = None
  /\ overtaken' = {}

\* Mutant: the card keeps the id it has.
ApplyStartedKeepingId(u) ==
  /\ openingOperation' = Card(IF openingOperation = None THEN None
                              ELSE openingOperation.requestId, "opening")
  /\ UNCHANGED <<project, openingError, overtaken>>

ApplyStarted(u) ==
  /\ openingOperation' = Card(u.id, "opening")
  /\ UNCHANGED <<project, openingError, overtaken>>

\* Mutant: a project opened leaves the error as it is.
ShowEndKeepingError(u) ==
  CASE u.type = "opened" -> /\ project' = u.id
                            /\ overtaken' = overtaken \ {"project"}
                            /\ UNCHANGED openingError
    [] u.type = "failed" -> /\ openingError' = u.id
                            /\ overtaken' = overtaken \ {"error"}
                            /\ UNCHANGED project
    [] OTHER             -> UNCHANGED <<project, openingError, overtaken>>

\* What the end of an open leaves to see.
ShowEnd(u) ==
  CASE u.type = "opened" -> /\ project' = u.id
                            /\ openingError' = None
                            /\ overtaken' = {}
    [] u.type = "failed" -> /\ openingError' = u.id
                            /\ overtaken' = overtaken \ {"error"}
                            /\ UNCHANGED project
    [] OTHER             -> UNCHANGED <<project, openingError, overtaken>>

\* Mutant: a cancelled open keeps its card.
ApplyEndKeepingCancelled(u) ==
  /\ IF u.type = "cancelled" THEN UNCHANGED openingOperation
     ELSE openingOperation' = None
  /\ ShowEnd(u)

\* The end of any open takes the card away, whichever open it names.
ApplyEnd(u) ==
  /\ openingOperation' = None
  /\ ShowEnd(u)

HandleStreamUpdate ==
  /\ updates # << >>
  /\ updates' = Tail(updates)
  /\ LET u == Head(updates) IN
       CASE u.type = "snapshot" -> ApplySnapshot(u)
         [] u.type = "started"  -> ApplyStarted(u)
         [] OTHER               -> ApplyEnd(u)
  /\ UNCHANGED <<bridge, link, losses, daemon>>

-----------------------------------------------------------------------------
(* The daemon, through the host.                                            *)

Emit(type, c) ==
  IF link = "fed" THEN updates' = Append(updates, [type |-> type, id |-> c])
  ELSE UNCHANGED updates

\* An answer that comes too late for the host is dropped.
Return(c, a) ==
  answer' = IF call[c] = "waiting" /\ answer[c] = None
            THEN [answer EXCEPT ![c] = a] ELSE answer

Begin(c) ==
  /\ operation[c] = "sent"
  /\ operation' = [operation EXCEPT ![c] = "running"]
  /\ Emit("started", c)
  /\ UNCHANGED <<view, bridge, link, losses, authority, flagged, overtaken>>

\* The request does not get through, or is refused.
Refuse(c) ==
  /\ operation[c] = "sent"
  /\ operation' = [operation EXCEPT ![c] = "ended"]
  /\ Return(c, "failed")
  /\ UNCHANGED <<view, call, cancels, stream, authority, flagged, overtaken>>

\* A flag set in time cancels; one set too late does nothing.
End(c) ==
  /\ operation[c] = "running"
  /\ operation' = [operation EXCEPT ![c] = "ended"]
  /\ \/ /\ authority' = c
        /\ Emit("opened", c)
        /\ Return(c, "opened")
     \/ /\ Emit("failed", c)
        /\ Return(c, "failed")
        /\ UNCHANGED authority
     \/ /\ c \in flagged
        /\ Emit("cancelled", c)
        /\ Return(c, "failed")
        /\ UNCHANGED authority
  /\ flagged' = flagged \ {c}
  /\ UNCHANGED <<view, call, cancels, link, losses, overtaken>>

\* The host's deadline for an open passes, or its connection is lost.
GiveUp(c) ==
  /\ call[c] = "waiting"
  /\ answer[c] = None
  /\ answer' = [answer EXCEPT ![c] = "failed"]
  /\ UNCHANGED <<view, call, cancels, stream, daemon, overtaken>>

\* A cancellation reaches the daemon, or does not.
CancelRequest(t) ==
  /\ t \in cancels
  /\ cancels' = cancels \ {t}
  /\ flagged' \in {flagged, flagged \cup ({t} \cap Running)}
  /\ UNCHANGED <<view, call, answer, stream, authority, operation, overtaken>>

-----------------------------------------------------------------------------
(* The stream.                                                              *)

\* The stream ends, or its daemon does; no one has noticed yet.
Lose ==
  /\ link = "fed"
  /\ losses < MaxLosses
  /\ link' = "lost"
  /\ losses' = losses + 1
  /\ UNCHANGED <<view, bridge, updates, daemon, overtaken>>

\* The web view looks at the first open of a snapshot only, and their order is
\* that of a hash map.
Subscribe ==
  /\ link # "fed"
  /\ link' = "fed"
  /\ \E first \in IF Running = {} THEN {None} ELSE Running :
       updates' = Append(updates, [type |-> "snapshot", project |-> authority,
                                   first |-> first])
  /\ UNCHANGED <<view, bridge, losses, daemon, overtaken>>

\* A new daemon remembers nothing, and its clients get no answer.
Restart ==
  /\ losses < MaxLosses
  /\ losses' = losses + 1
  /\ link' = IF link = "fed" THEN "lost" ELSE link
  /\ authority' = None
  /\ flagged' = {}
  /\ operation' = [c \in Calls |->
                     IF c \in Running THEN "ended" ELSE operation[c]]
  /\ answer' = [c \in Calls |->
                  IF c \in Running \cap Waiting /\ answer[c] = None
                  THEN "failed" ELSE answer[c]]
  /\ UNCHANGED <<view, call, cancels, updates, overtaken>>

-----------------------------------------------------------------------------
UserStep(c) == ChooseAndOpen(c) \/ PickNothing(c) \/ PickFails(c) \/ Pick(c)

OpenStep(c) == Begin(c) \/ Refuse(c) \/ End(c) \/ GiveUp(c)

Next ==
  \/ CancelOpening \/ ClearError \/ HandleStreamUpdate
  \/ Lose \/ Subscribe \/ Restart
  \/ \E c \in Calls : UserStep(c) \/ OpenAnswers(c) \/ OpenStep(c)
  \/ \E t \in cancels : CancelRequest(t)

Spec == Init /\ [][Next]_vars

\* The web view handles what has arrived; every open that was sent is answered,
\* if only by the host's deadline, and every open that runs ends.  Neither the
\* user nor the stream has to do anything.
FairSpec == /\ Spec
            /\ WF_vars(HandleStreamUpdate)
            /\ \A c \in Calls : /\ WF_vars(OpenAnswers(c))
                                /\ WF_vars(GiveUp(c))
                                /\ WF_vars(End(c))

-----------------------------------------------------------------------------
Updates ==
  [type : {"snapshot"}, project : Calls \cup {None}, first : Calls \cup {None}]
  \cup [type : {"started", "opened", "cancelled", "failed"}, id : Calls]

\* Type invariant.
TypeOK ==
  /\ project \in Calls \cup {None}
  /\ \/ openingOperation = None
     \/ openingOperation \in [requestId : Ids, status : {"opening", "cancelling"}]
  /\ openingError \in Calls \cup {None}
  /\ call \in [Calls -> {"unused", "choosing", "waiting", "done"}]
  /\ answer \in [Calls -> {None, "opened", "failed"}]
  /\ cancels \in SUBSET Ids
  /\ updates \in Seq(Updates)
  /\ link \in {"none", "fed", "lost"}
  /\ losses \in 0 .. MaxLosses
  /\ authority \in Calls \cup {None}
  /\ operation \in [Calls -> {"none", "sent", "running", "ended"}]
  /\ flagged \in SUBSET Calls
  /\ overtaken \in SUBSET {"project", "error"}

\* The web view has handled all that the stream and its own calls have for it.
UpToDate == link = "fed" /\ updates = << >> /\ Waiting = {}

\* The reducer takes projects from the stream and from answers: what it ends up
\* with is the daemon's project, through lost streams and restarts, unless an
\* answer came so late that the daemon had moved on.
ProjectIsAuthoritative ==
  UpToDate /\ "project" \notin overtaken => project = authority

\* Once all is handled no error is shown about the open whose project is open:
\* the host's deadline may report an open as failed that succeeds later, which
\* an event, a snapshot or another answer must put right, unless the report
\* itself came after the news of success.
NoErrorForOpenProject ==
  UpToDate /\ "error" \notin overtaken =>
    openingError = None \/ openingError # authority

\* No card is left over: once all is handled, the open it shows is running,
\* though cards are put up and taken away by two sources in either order.
CardShowsRunningOpen ==
  UpToDate /\ openingOperation # None => openingOperation.requestId \in Running

\* Under FairSpec, every card goes away in the end, or the stream is lost.
OpeningEnds ==
  openingOperation # None ~> openingOperation = None \/ link # "fed"

\* "In-flight opening progress card with Cancel action" (PROJECT.md, F13): a
\* cancellation the user asks for while an open runs is for an open the daemon
\* knows.
CancelNamesAnOpen ==
  Running # {} => cancels \subseteq Calls
=============================================================================
