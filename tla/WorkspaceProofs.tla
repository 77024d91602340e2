--------------------------- MODULE WorkspaceProofs ---------------------------
(***************************************************************************)
(* Proofs about the state of the web view, for any calls and any number of *)
(* losses of the stream.                                                   *)
(*                                                                         *)
(* The web view has two sources, so what it shows now says little: what    *)
(* counts is what it will show once it has handled the updates on their    *)
(* way.  Of each part of the view (project, error, card) the last update   *)
(* that speaks of it decides.  The invariant says of that update that it   *)
(* agrees with the daemon, and of the view itself only if no update speaks *)
(* of the part any more.                                                   *)
(***************************************************************************)
EXTENDS Workspace, TLAPS

-----------------------------------------------------------------------------
(* Which update is the last to speak of a part of the view.                 *)

Speaks(s, types, i) == s[i].type \in types

Latest(s, types, i) ==
  Speaks(s, types, i) /\ \A j \in DOMAIN s : j > i => ~Speaks(s, types, j)

Silent(s, types) == \A i \in DOMAIN s : ~Speaks(s, types, i)

AboutProject == {"snapshot", "opened"}
AboutError   == {"snapshot", "opened", "failed"}
AboutCard    == {"snapshot", "started", "opened", "cancelled", "failed"}

\* What the view will show because of it.
ProjectOf(u) == IF u.type = "snapshot" THEN u.project ELSE u.id

ErrorOf(u) == IF u.type = "failed" THEN u.id ELSE None

CardOf(u) == CASE u.type = "snapshot" -> u.first
               [] u.type = "started"  -> u.id
               [] OTHER               -> None

-----------------------------------------------------------------------------
(* The inductive invariant.                                                 *)

\* The daemon is told of an open after it is picked, and has its project once
\* it has ended.
OpensAreOrdered ==
  \A c \in Calls : /\ call[c] \in {"unused", "choosing"} => operation[c] = "none"
                   /\ authority = c => operation[c] = "ended"

ProjectFollows ==
  link = "fed" =>
    /\ \A i \in DOMAIN updates :
         Latest(updates, AboutProject, i) => ProjectOf(updates[i]) = authority
    /\ Silent(updates, AboutProject) /\ "project" \notin overtaken =>
         project = authority

NotOpen(e) == e = None \/ e # authority

ErrorFollows ==
  link = "fed" =>
    /\ \A i \in DOMAIN updates :
         Latest(updates, AboutError, i) => NotOpen(ErrorOf(updates[i]))
    /\ Silent(updates, AboutError) /\ "error" \notin overtaken =>
         NotOpen(openingError)

CardFollows ==
  link = "fed" =>
    /\ \A i \in DOMAIN updates :
         Latest(updates, AboutCard, i) => CardOf(updates[i]) \in Running \cup {None}
    /\ Silent(updates, AboutCard) /\ openingOperation # None =>
         openingOperation.requestId \in Running \cup {ClientId(c) : c \in Waiting}

ViewInv == /\ TypeOK /\ OpensAreOrdered
           /\ ProjectFollows /\ ErrorFollows /\ CardFollows

-----------------------------------------------------------------------------
(* Lemmas on what updates speak of.                                         *)

\* An update that comes in is the latest, or does not matter to the part.
AppendSpeaks(s, u, types) ==
  /\ \A i \in DOMAIN Append(s, u) : Latest(Append(s, u), types, i) =>
       \/ Append(s, u)[i] = u /\ u.type \in types
       \/ /\ i \in DOMAIN s /\ Latest(s, types, i) /\ Append(s, u)[i] = s[i]
          /\ u.type \notin types
  /\ Silent(Append(s, u), types) => Silent(s, types) /\ u.type \notin types

LEMMA UpdateArrives ==
  ASSUME NEW S, NEW s \in Seq(S), NEW u \in S, NEW types
  PROVE  AppendSpeaks(s, u, types)
<1> DEFINE t == Append(s, u)
<1>1. /\ Len(s) \in Nat /\ DOMAIN s = 1 .. Len(s) /\ DOMAIN t = 1 .. Len(s) + 1
      /\ t[Len(s) + 1] = u /\ \A i \in DOMAIN s : t[i] = s[i]
  OBVIOUS
<1> HIDE DEF t
<1>2. DOMAIN s \subseteq DOMAIN t /\ Len(s) + 1 \in DOMAIN t
  BY <1>1
<1>3. \A i \in DOMAIN t : i \in DOMAIN s \/ i = Len(s) + 1
  BY <1>1
<1>4. ASSUME NEW i \in DOMAIN t, Latest(t, types, i), i \in DOMAIN s
      PROVE  Latest(s, types, i) /\ t[i] = s[i] /\ u.type \notin types
  <2>1. Len(s) + 1 > i
    BY <1>1, <1>4
  <2>2. u.type \notin types
    BY <1>1, <1>2, <1>4, <2>1 DEF Latest, Speaks
  <2>3. t[i] = s[i] /\ \A j \in DOMAIN s : t[j] = s[j] /\ j \in DOMAIN t
    BY <1>1, <1>2, <1>4
  <2> QED BY <1>4, <2>2, <2>3 DEF Latest, Speaks
<1>5. ASSUME NEW i \in DOMAIN t, Latest(t, types, i), i = Len(s) + 1
      PROVE  t[i] = u /\ u.type \in types
  BY <1>1, <1>5 DEF Latest, Speaks
<1>6. Silent(t, types) => Silent(s, types) /\ u.type \notin types
  BY <1>1, <1>2 DEF Silent, Speaks
<1> QED BY <1>3, <1>4, <1>5, <1>6 DEF AppendSpeaks, t

\* The update that is handled is the first: the latest stays the latest, and
\* if none is left that speaks of the part, it was the latest itself.
TailSpeaks(s, types) ==
  /\ \A i \in DOMAIN Tail(s) : Latest(Tail(s), types, i) =>
       /\ i + 1 \in DOMAIN s /\ Tail(s)[i] = s[i + 1]
       /\ Latest(s, types, i + 1)
  /\ Silent(Tail(s), types) =>
       \/ Head(s).type \in types /\ Latest(s, types, 1)
       \/ Head(s).type \notin types /\ Silent(s, types)

LEMMA UpdateLeaves ==
  ASSUME NEW S, NEW s \in Seq(S), s # << >>, NEW types
  PROVE  /\ TailSpeaks(s, types)
         /\ Head(s) \in S /\ 1 \in DOMAIN s /\ s[1] = Head(s)
<1> DEFINE t == Tail(s)
<1>1. /\ Len(s) \in Nat \ {0} /\ DOMAIN s = 1 .. Len(s) /\ DOMAIN t = 1 .. Len(s) - 1
      /\ \A i \in DOMAIN t : t[i] = s[i + 1]
      /\ Head(s) = s[1] /\ Head(s) \in S
  OBVIOUS
<1> HIDE DEF t
<1>2. /\ 1 \in DOMAIN s /\ \A i \in DOMAIN t : i \in Nat /\ i + 1 \in DOMAIN s
      /\ \A j \in DOMAIN s : j \in Nat /\ (j = 1 \/ j - 1 \in DOMAIN t)
  BY <1>1
<1>3. ASSUME NEW i \in DOMAIN t, Latest(t, types, i)
      PROVE  Latest(s, types, i + 1)
  <2>1. Speaks(s, types, i + 1)
    BY <1>1, <1>3 DEF Latest, Speaks
  <2>2. ASSUME NEW j \in DOMAIN s, j > i + 1 PROVE ~Speaks(s, types, j)
    <3>1. j - 1 \in DOMAIN t /\ j - 1 > i /\ (j - 1) + 1 = j
      BY <1>2, <2>2
    <3> QED BY <1>1, <1>3, <3>1 DEF Latest, Speaks
  <2> QED BY <2>1, <2>2 DEF Latest
<1>4. ASSUME Silent(t, types), NEW j \in DOMAIN s, j # 1 PROVE ~Speaks(s, types, j)
  <2>1. j - 1 \in DOMAIN t /\ (j - 1) + 1 = j
    BY <1>2, <1>4
  <2> QED BY <1>1, <1>4, <2>1 DEF Silent, Speaks
<1>5. ASSUME Silent(t, types), Head(s).type \in types PROVE Latest(s, types, 1)
  BY <1>1, <1>2, <1>4, <1>5 DEF Latest, Speaks
<1>6. ASSUME Silent(t, types), Head(s).type \notin types PROVE Silent(s, types)
  BY <1>1, <1>4, <1>6 DEF Silent, Speaks
<1> QED BY <1>1, <1>2, <1>3, <1>5, <1>6 DEF TailSpeaks, t

-----------------------------------------------------------------------------
(* Lemmas on the steps.                                                     *)

\* The handling of an update shows what it speaks of and nothing else.
Handled(u) ==
  /\ \/ u.type \in AboutProject /\ project' = ProjectOf(u)
     \/ /\ u.type \notin AboutProject /\ project' = project
        /\ "project" \in overtaken => "project" \in overtaken'
  /\ \/ u.type \in AboutError /\ openingError' = ErrorOf(u)
     \/ /\ u.type \notin AboutError /\ openingError' = openingError
        /\ "error" \in overtaken => "error" \in overtaken'
  /\ openingOperation' # None =>
       /\ openingOperation'.requestId = CardOf(u) /\ CardOf(u) # None
       /\ openingOperation'.status \in {"opening", "cancelling"}

LEMMA UpdateHandled ==
  ASSUME TypeOK, HandleStreamUpdate
  PROVE  /\ Handled(Head(updates)) /\ Head(updates) \in Updates
         /\ updates \in Seq(Updates) /\ updates # << >> /\ updates' = Tail(updates)
         /\ UNCHANGED <<link, authority, call, operation>>
<1> DEFINE u == Head(updates)
<1>1. /\ updates \in Seq(Updates) /\ updates # << >> /\ updates' = Tail(updates)
      /\ UNCHANGED <<link, authority, call, operation>>
  BY DEF TypeOK, HandleStreamUpdate, bridge, daemon
<1>2. u \in Updates
  BY <1>1, UpdateLeaves
<1>3. ASSUME u.type = "snapshot", ApplySnapshot(u) PROVE Handled(u)
  <2>1. /\ project' = ProjectOf(u) /\ openingError' = ErrorOf(u)
    BY <1>3 DEF ApplySnapshot, ProjectOf, ErrorOf
  <2>2. CardOf(u) = u.first
    BY <1>3 DEF CardOf
  <2>3. openingOperation' # None =>
          /\ openingOperation'.requestId = u.first /\ u.first # None
          /\ openingOperation'.status \in {"opening", "cancelling"}
    BY <1>3 DEF ApplySnapshot, Card, TypeOK
  <2> QED BY <1>3, <2>1, <2>2, <2>3 DEF Handled, AboutProject, AboutError
<1>4. ASSUME u.type = "started", ApplyStarted(u) PROVE Handled(u)
  <2>1. CardOf(u) = u.id /\ u.id \in Calls
    BY <1>2, <1>4 DEF CardOf, Updates
  <2>2. u.id # None
    BY <2>1, WorkspaceAssumption
  <2> QED BY <1>4, <2>1, <2>2 DEF ApplyStarted, Card, Handled, AboutProject, AboutError
<1>5. ASSUME u.type \in {"opened", "cancelled", "failed"}, ApplyEnd(u)
      PROVE  Handled(u)
  BY <1>5 DEF ApplyEnd, ShowEnd, Handled, AboutProject, AboutError, ProjectOf, ErrorOf
<1>6. \/ u.type = "snapshot" /\ ApplySnapshot(u)
      \/ u.type = "started" /\ ApplyStarted(u)
      \/ u.type \in {"opened", "cancelled", "failed"} /\ ApplyEnd(u)
  <2>1. u.type \in {"snapshot", "started", "opened", "cancelled", "failed"}
    BY <1>2 DEF Updates
  <2> QED BY <2>1 DEF HandleStreamUpdate
<1> HIDE DEF u
<1>7. Handled(u)
  BY <1>3, <1>4, <1>5, <1>6
<1> QED BY <1>1, <1>2, <1>7 DEF u

\* What the daemon sends, if it is heard.
Announced(type, c) ==
  \/ link # "fed" /\ UNCHANGED updates
  \/ /\ updates' = Append(updates, [type |-> type, id |-> c])
     /\ [type |-> type, id |-> c] \in Updates

LEMMA Announcement ==
  ASSUME NEW c \in Calls, NEW type \in {"started", "opened", "cancelled", "failed"},
         Emit(type, c)
  PROVE  Announced(type, c)
<1>1. [type |-> type, id |-> c] \in Updates
  BY DEF Updates
<1> QED BY <1>1 DEF Announced, Emit

\* How an open ends.
EndsAs(c, type) ==
  /\ Announced(type, c)
  /\ operation[c] = "running" /\ operation' = [operation EXCEPT ![c] = "ended"]
  /\ flagged' = flagged \ {c}
  /\ Return(c, IF type = "opened" THEN "opened" ELSE "failed")
  /\ authority' = IF type = "opened" THEN c ELSE authority
  /\ UNCHANGED <<view, call, cancels, link, losses, overtaken>>

LEMMA Ending ==
  ASSUME NEW c \in Calls, End(c)
  PROVE  \E type \in {"opened", "cancelled", "failed"} : EndsAs(c, type)
<1>1. CASE authority' = c /\ Emit("opened", c) /\ Return(c, "opened")
  BY <1>1, Announcement DEF End, EndsAs
<1>2. CASE Emit("failed", c) /\ Return(c, "failed") /\ UNCHANGED authority
  BY <1>2, Announcement DEF End, EndsAs
<1>3. CASE Emit("cancelled", c) /\ Return(c, "failed") /\ UNCHANGED authority
  BY <1>3, Announcement DEF End, EndsAs
<1> QED BY <1>1, <1>2, <1>3 DEF End

-----------------------------------------------------------------------------
(* Types.                                                                   *)

LEMMA TypesInit == Init => TypeOK
BY WorkspaceAssumption DEF Init, TypeOK

LEMMA TypesStep == TypeOK /\ [Next]_vars => TypeOK'
<1> SUFFICES ASSUME TypeOK, [Next]_vars PROVE TypeOK'
  OBVIOUS
<1> USE WorkspaceAssumption
<1>0. CASE UNCHANGED vars
  BY <1>0 DEF vars, view, bridge, stream, daemon, TypeOK, Running, Waiting
<1>1. CASE CancelOpening
  BY <1>1 DEF CancelOpening, TypeOK, stream, daemon
<1>2. CASE ClearError
  BY <1>2 DEF ClearError, HideError, TypeOK, bridge, stream, daemon
<1>3. CASE HandleStreamUpdate
  <2> DEFINE u == Head(updates)
  <2>1. u \in Updates /\ Tail(updates) \in Seq(Updates)
    <3>1. updates \in Seq(Updates) /\ updates # << >>
      BY <1>3 DEF HandleStreamUpdate, TypeOK
    <3> QED BY <3>1, UpdateLeaves
  <2>2. \/ u.type = "snapshot" /\ ApplySnapshot(u)
        \/ u.type = "started" /\ ApplyStarted(u)
        \/ ApplyEnd(u) /\ u.type \in {"opened", "cancelled", "failed"}
    BY <1>3, <2>1 DEF HandleStreamUpdate, Updates
  <2> HIDE DEF u
  <2>3. /\ project' \in Calls \cup {None} /\ openingError' \in Calls \cup {None}
        /\ overtaken' \in SUBSET {"project", "error"}
    BY <2>1, <2>2 DEF ApplySnapshot, ApplyStarted, ApplyEnd, ShowEnd, Updates, TypeOK
  <2>4. \/ openingOperation' = None
        \/ openingOperation' \in [requestId : Ids, status : {"opening", "cancelling"}]
    BY <2>1, <2>2 DEF ApplySnapshot, ApplyStarted, ApplyEnd, Card, Ids, Updates, TypeOK
  <2> QED
    BY <1>3, <2>1, <2>3, <2>4 DEF HandleStreamUpdate, TypeOK, bridge, daemon
<1>4. CASE Lose
  BY <1>4 DEF Lose, TypeOK, view, bridge, daemon
<1>5. CASE Subscribe
  BY <1>5 DEF Subscribe, Running, TypeOK, Updates, view, bridge, daemon
<1>6. CASE Restart
  BY <1>6 DEF Restart, TypeOK, view, Running, Waiting
<1>7. ASSUME NEW c \in Calls, UserStep(c) PROVE TypeOK'
  <2>1. CASE ChooseAndOpen(c)
    BY <2>1 DEF ChooseAndOpen, HideError, TypeOK, stream, daemon
  <2>2. CASE PickNothing(c)
    BY <2>2 DEF PickNothing, TypeOK, view, stream, daemon
  <2>3. CASE PickFails(c)
    BY <2>3 DEF PickFails, TypeOK, stream, daemon
  <2>4. CASE Pick(c)
    BY <2>4 DEF Pick, HideError, Card, Ids, TypeOK, stream
  <2> QED BY <1>7, <2>1, <2>2, <2>3, <2>4 DEF UserStep
<1>8. ASSUME NEW c \in Calls, OpenAnswers(c) PROVE TypeOK'
  BY <1>8 DEF OpenAnswers, TypeOK, stream, daemon
<1>9. ASSUME NEW c \in Calls, OpenStep(c) PROVE TypeOK'
  <2>1. CASE Begin(c)
    <3>1. Announced("started", c)
      BY <2>1, Announcement DEF Begin
    <3>2. updates' \in Seq(Updates)
      BY <3>1 DEF Announced, TypeOK
    <3> QED BY <2>1, <3>2 DEF Begin, TypeOK, view, bridge
  <2>2. CASE Refuse(c)
    BY <2>2 DEF Refuse, Return, TypeOK, view, stream
  <2>3. CASE End(c)
    <3>1. PICK type \in {"opened", "cancelled", "failed"} : EndsAs(c, type)
      BY <2>3, Ending
    <3>2. updates' \in Seq(Updates)
      BY <3>1 DEF EndsAs, Announced, TypeOK
    <3> QED BY <3>1, <3>2 DEF EndsAs, Return, TypeOK, view
  <2>4. CASE GiveUp(c)
    BY <2>4 DEF GiveUp, TypeOK, view, stream, daemon
  <2> QED BY <1>9, <2>1, <2>2, <2>3, <2>4 DEF OpenStep
<1>10. ASSUME NEW c \in cancels, CancelRequest(c) PROVE TypeOK'
  BY <1>10 DEF CancelRequest, Running, TypeOK, view, stream
<1> QED
  BY <1>0, <1>1, <1>2, <1>3, <1>4, <1>5, <1>6, <1>7, <1>8, <1>9, <1>10 DEF Next

-----------------------------------------------------------------------------
(* The order of calls, opens and projects.                                  *)

LEMMA OrderStep == TypeOK /\ OpensAreOrdered /\ [Next]_vars => OpensAreOrdered'
<1> SUFFICES ASSUME TypeOK, OpensAreOrdered, [Next]_vars PROVE OpensAreOrdered'
  OBVIOUS
<1> USE WorkspaceAssumption DEF OpensAreOrdered
<1>0. CASE UNCHANGED <<call, operation, authority>>
  BY <1>0
<1>1. CASE UNCHANGED vars \/ CancelOpening \/ ClearError \/ HandleStreamUpdate
           \/ Lose \/ Subscribe
  BY <1>0, <1>1
     DEF vars, bridge, daemon, CancelOpening, ClearError, HandleStreamUpdate, Lose, Subscribe
<1>2. CASE Restart
  BY <1>2 DEF Restart, Running, TypeOK
<1>3. ASSUME NEW c \in Calls, UserStep(c) PROVE OpensAreOrdered'
  BY <1>3 DEF UserStep, ChooseAndOpen, PickNothing, PickFails, Pick, TypeOK, stream, daemon
<1>4. ASSUME NEW c \in Calls, OpenAnswers(c) PROVE OpensAreOrdered'
  BY <1>4 DEF OpenAnswers, TypeOK, daemon
<1>5. ASSUME NEW c \in Calls, Begin(c) PROVE OpensAreOrdered'
  BY <1>5 DEF Begin, TypeOK, bridge
<1>6. ASSUME NEW c \in Calls, Refuse(c) \/ GiveUp(c) PROVE OpensAreOrdered'
  BY <1>6 DEF Refuse, GiveUp, TypeOK, stream, daemon
<1>7. ASSUME NEW c \in Calls, End(c) PROVE OpensAreOrdered'
  <2>1. PICK type \in {"opened", "cancelled", "failed"} : EndsAs(c, type)
    BY <1>7, Ending
  <2> QED BY <2>1 DEF EndsAs, TypeOK
<1>8. ASSUME NEW c \in cancels, CancelRequest(c) PROVE OpensAreOrdered'
  BY <1>0, <1>8 DEF CancelRequest
<1> QED
  BY <1>1, <1>2, <1>3, <1>4, <1>5, <1>6, <1>7, <1>8 DEF Next, OpenStep

-----------------------------------------------------------------------------
(* The project.                                                             *)

LEMMA ProjectStep ==
  TypeOK /\ ProjectFollows /\ [Next]_vars => ProjectFollows'
<1> SUFFICES ASSUME TypeOK, ProjectFollows, [Next]_vars, link' = "fed"
             PROVE  ProjectFollows'
  BY DEF ProjectFollows
<1>0. ASSUME UNCHANGED <<updates, link, authority, project>>,
             "project" \in overtaken => "project" \in overtaken'
      PROVE  ProjectFollows'
  BY <1>0 DEF ProjectFollows
<1>1. ASSUME NEW u \in Updates, updates' = Append(updates, u),
             u.type \in AboutProject => ProjectOf(u) = authority',
             \/ u.type \in AboutProject
             \/ UNCHANGED <<link, authority, project, overtaken>>
      PROVE  ProjectFollows'
  <2>1. AppendSpeaks(updates, u, AboutProject)
    BY UpdateArrives DEF TypeOK
  <2>2. CASE u.type \in AboutProject
    BY <1>1, <2>1, <2>2 DEF AppendSpeaks, ProjectFollows
  <2>3. CASE u.type \notin AboutProject
    BY <1>1, <2>1, <2>3 DEF AppendSpeaks, ProjectFollows
  <2> QED BY <2>2, <2>3
<1>2. CASE UNCHANGED vars \/ CancelOpening \/ ClearError
  BY <1>0, <1>2
     DEF vars, view, stream, daemon, CancelOpening, ClearError, HideError
<1>3. CASE HandleStreamUpdate
  <2> DEFINE u == Head(updates)
  <2>1. /\ Handled(u) /\ updates \in Seq(Updates) /\ updates # << >>
        /\ updates' = Tail(updates) /\ UNCHANGED <<link, authority>>
    BY <1>3, UpdateHandled
  <2>2. TailSpeaks(updates, AboutProject) /\ 1 \in DOMAIN updates /\ updates[1] = u
    BY <2>1, UpdateLeaves
  <2> HIDE DEF u
  <2>3. /\ \A i \in DOMAIN updates :
             Latest(updates, AboutProject, i) => ProjectOf(updates[i]) = authority
        /\ Silent(updates, AboutProject) /\ "project" \notin overtaken =>
             project = authority
    BY <2>1 DEF ProjectFollows
  <2>4. \A i \in DOMAIN updates' :
          Latest(updates', AboutProject, i) => ProjectOf(updates'[i]) = authority
    BY <2>1, <2>2, <2>3 DEF TailSpeaks
  <2>5. ASSUME Silent(updates', AboutProject), "project" \notin overtaken'
        PROVE  project' = authority
    BY <2>1, <2>2, <2>3, <2>5 DEF TailSpeaks, Handled
  <2> QED BY <2>1, <2>4, <2>5 DEF ProjectFollows
<1>4. CASE Lose \/ Restart
  BY <1>4 DEF Lose, Restart
<1>5. CASE Subscribe
  <2>1. PICK first \in Calls \cup {None} :
          updates' = Append(updates, [type |-> "snapshot", project |-> authority,
                                      first |-> first])
    BY <1>5 DEF Subscribe, Running
  <2> DEFINE u == [type |-> "snapshot", project |-> authority, first |-> first]
  <2>2. u \in Updates /\ u.type \in AboutProject /\ ProjectOf(u) = authority
    BY DEF TypeOK, Updates, AboutProject, ProjectOf
  <2> HIDE DEF u
  <2>3. UNCHANGED authority
    BY <1>5 DEF Subscribe, daemon
  <2> QED BY <1>1, <2>1, <2>2, <2>3 DEF u
<1>6. ASSUME NEW c \in Calls, UserStep(c) PROVE ProjectFollows'
  BY <1>0, <1>6
     DEF UserStep, ChooseAndOpen, PickNothing, PickFails, Pick, HideError, view, stream,
         daemon
<1>7. ASSUME NEW c \in Calls, OpenAnswers(c) PROVE ProjectFollows'
  BY <1>0, <1>7 DEF OpenAnswers, ProjectFollows, stream, daemon
<1>8. ASSUME NEW c \in Calls, Begin(c) PROVE ProjectFollows'
  <2>1. Announced("started", c) /\ UNCHANGED <<view, link, authority, overtaken>>
    BY <1>8, Announcement DEF Begin
  <2>2. [type |-> "started", id |-> c].type \notin AboutProject
    BY DEF AboutProject
  <2> QED BY <1>0, <1>1, <2>1, <2>2 DEF Announced, view
<1>9. ASSUME NEW c \in Calls, Refuse(c) \/ GiveUp(c) PROVE ProjectFollows'
  BY <1>0, <1>9 DEF Refuse, GiveUp, view, stream, daemon
<1>10. ASSUME NEW c \in Calls, End(c) PROVE ProjectFollows'
  <2>1. PICK type \in {"opened", "cancelled", "failed"} : EndsAs(c, type)
    BY <1>10, Ending
  <2> DEFINE u == [type |-> type, id |-> c]
  <2>2. /\ u.type \in AboutProject => ProjectOf(u) = authority'
        /\ u.type \in AboutProject \/ UNCHANGED <<link, authority, project, overtaken>>
    BY <2>1 DEF EndsAs, AboutProject, ProjectOf, view
  <2>3. u \in Updates /\ updates' = Append(updates, u)
    BY <2>1 DEF EndsAs, Announced
  <2> QED BY <1>1, <2>2, <2>3
<1>11. ASSUME NEW c \in cancels, CancelRequest(c) PROVE ProjectFollows'
  BY <1>0, <1>11 DEF CancelRequest, view, stream
<1> QED
  BY <1>2, <1>3, <1>4, <1>5, <1>6, <1>7, <1>8, <1>9, <1>10, <1>11 DEF Next, OpenStep

-----------------------------------------------------------------------------
(* The error.                                                               *)

LEMMA ErrorStep ==
  TypeOK /\ OpensAreOrdered /\ ErrorFollows /\ [Next]_vars => ErrorFollows'
<1> SUFFICES ASSUME TypeOK, OpensAreOrdered, ErrorFollows, [Next]_vars, link' = "fed"
             PROVE  ErrorFollows'
  BY DEF ErrorFollows
<1>0. ASSUME UNCHANGED <<updates, link, authority>>,
             \/ UNCHANGED openingError /\ ("error" \in overtaken => "error" \in overtaken')
             \/ "error" \notin overtaken' => NotOpen(openingError')
      PROVE  ErrorFollows'
  BY <1>0 DEF ErrorFollows, NotOpen
<1>1. ASSUME NEW u \in Updates, updates' = Append(updates, u),
             \/ u.type \in AboutError /\ NotOpen(ErrorOf(u))'
             \/ /\ u.type \notin AboutError
                /\ UNCHANGED <<link, authority, openingError, overtaken>>
      PROVE  ErrorFollows'
  <2>1. AppendSpeaks(updates, u, AboutError)
    BY UpdateArrives DEF TypeOK
  <2>2. CASE u.type \in AboutError
    BY <1>1, <2>1, <2>2 DEF AppendSpeaks, ErrorFollows, NotOpen
  <2>3. CASE u.type \notin AboutError
    BY <1>1, <2>1, <2>3 DEF AppendSpeaks, ErrorFollows, NotOpen
  <2> QED BY <2>2, <2>3
<1>2. CASE UNCHANGED vars \/ CancelOpening \/ ClearError
  BY <1>0, <1>2
     DEF vars, view, stream, daemon, CancelOpening, ClearError, HideError, NotOpen
<1>3. CASE HandleStreamUpdate
  <2> DEFINE u == Head(updates)
  <2>1. /\ Handled(u) /\ updates \in Seq(Updates) /\ updates # << >>
        /\ updates' = Tail(updates) /\ UNCHANGED <<link, authority>>
    BY <1>3, UpdateHandled
  <2>2. TailSpeaks(updates, AboutError) /\ 1 \in DOMAIN updates /\ updates[1] = u
    BY <2>1, UpdateLeaves
  <2> HIDE DEF u
  <2>3. /\ \A i \in DOMAIN updates :
             Latest(updates, AboutError, i) => NotOpen(ErrorOf(updates[i]))
        /\ Silent(updates, AboutError) /\ "error" \notin overtaken =>
             NotOpen(openingError)
    BY <2>1 DEF ErrorFollows
  <2>4. \A i \in DOMAIN updates' :
          Latest(updates', AboutError, i) => NotOpen(ErrorOf(updates'[i]))
    BY <2>1, <2>2, <2>3 DEF TailSpeaks
  <2>5. ASSUME Silent(updates', AboutError), "error" \notin overtaken'
        PROVE  NotOpen(openingError')
    BY <2>1, <2>2, <2>3, <2>5 DEF TailSpeaks, Handled
  <2> QED BY <2>1, <2>4, <2>5 DEF ErrorFollows, NotOpen
<1>4. CASE Lose \/ Restart
  BY <1>4 DEF Lose, Restart
<1>5. CASE Subscribe
  <2>1. PICK first \in Calls \cup {None} :
          updates' = Append(updates, [type |-> "snapshot", project |-> authority,
                                      first |-> first])
    BY <1>5 DEF Subscribe, Running
  <2> DEFINE u == [type |-> "snapshot", project |-> authority, first |-> first]
  <2>2. u \in Updates /\ u.type \in AboutError /\ ErrorOf(u) = None
    BY DEF TypeOK, Updates, AboutError, ErrorOf
  <2> HIDE DEF u
  <2> QED BY <1>1, <2>1, <2>2 DEF u, NotOpen
<1>6. ASSUME NEW c \in Calls, UserStep(c) PROVE ErrorFollows'
  <2>1. CASE ChooseAndOpen(c) \/ PickNothing(c) \/ Pick(c)
    BY <1>0, <2>1 DEF ChooseAndOpen, PickNothing, Pick, HideError, NotOpen, view, stream,
       daemon
  <2>2. CASE PickFails(c)
    <3>1. authority # c
      BY <2>2 DEF PickFails, OpensAreOrdered
    <3> QED BY <1>0, <2>2, <3>1 DEF PickFails, NotOpen, stream, daemon
  <2> QED BY <1>6, <2>1, <2>2 DEF UserStep
<1>7. ASSUME NEW c \in Calls, OpenAnswers(c) PROVE ErrorFollows'
  BY <1>0, <1>7 DEF OpenAnswers, NotOpen, stream, daemon
<1>8. ASSUME NEW c \in Calls, Begin(c) PROVE ErrorFollows'
  <2>1. Announced("started", c) /\ UNCHANGED <<view, link, authority, overtaken>>
    BY <1>8, Announcement DEF Begin
  <2>2. [type |-> "started", id |-> c].type \notin AboutError
    BY DEF AboutError
  <2> QED BY <1>0, <1>1, <2>1, <2>2 DEF Announced, view
<1>9. ASSUME NEW c \in Calls, Refuse(c) \/ GiveUp(c) PROVE ErrorFollows'
  BY <1>0, <1>9 DEF Refuse, GiveUp, view, stream, daemon
<1>10. ASSUME NEW c \in Calls, End(c) PROVE ErrorFollows'
  <2>1. PICK type \in {"opened", "cancelled", "failed"} : EndsAs(c, type)
    BY <1>10, Ending
  <2> DEFINE u == [type |-> type, id |-> c]
  <2>2. authority # c
    BY <2>1 DEF EndsAs, OpensAreOrdered
  <2>3. CASE type = "opened"
    <3>1. u.type \in AboutError /\ ErrorOf(u) = None
      BY <2>3 DEF AboutError, ErrorOf
    <3> QED BY <1>1, <2>1, <3>1 DEF EndsAs, Announced, NotOpen
  <2>4. CASE type = "failed"
    <3>1. u.type \in AboutError /\ ErrorOf(u) = c /\ UNCHANGED authority
      BY <2>1, <2>4 DEF AboutError, ErrorOf, EndsAs
    <3> QED BY <1>1, <2>1, <2>2, <3>1 DEF EndsAs, Announced, NotOpen
  <2>5. CASE type = "cancelled"
    <3>1. u.type \notin AboutError /\ UNCHANGED <<authority, openingError, overtaken, link>>
      BY <2>1, <2>5 DEF AboutError, EndsAs, view
    <3> QED BY <1>1, <2>1, <3>1 DEF EndsAs, Announced
  <2> QED BY <2>3, <2>4, <2>5
<1>11. ASSUME NEW c \in cancels, CancelRequest(c) PROVE ErrorFollows'
  BY <1>0, <1>11 DEF CancelRequest, view, stream
<1> QED
  BY <1>2, <1>3, <1>4, <1>5, <1>6, <1>7, <1>8, <1>9, <1>10, <1>11 DEF Next, OpenStep

-----------------------------------------------------------------------------
(* The card.                                                                *)

\* What a card may be about once no update is left: an open that runs, or one
\* that the web view has sent and that has not answered.
Known(i) == i \in Running \cup {ClientId(c) : c \in Waiting}

LEMMA CardStep ==
  TypeOK /\ OpensAreOrdered /\ CardFollows /\ [Next]_vars => CardFollows'
<1> SUFFICES ASSUME TypeOK, OpensAreOrdered, CardFollows, [Next]_vars, link' = "fed"
             PROVE  CardFollows'
  BY DEF CardFollows
<1>0. ASSUME UNCHANGED <<updates, link, operation>>,
             \/ openingOperation' = None
             \/ Known(openingOperation.requestId)'
             \/ /\ openingOperation # None
                /\ openingOperation'.requestId = openingOperation.requestId
                /\ Waiting \subseteq Waiting'
      PROVE  CardFollows'
  <2>1. Running' = Running
    BY <1>0 DEF Running
  <2>2. \A i \in DOMAIN updates' :
          Latest(updates', AboutCard, i) => CardOf(updates'[i]) \in Running' \cup {None}
    BY <1>0, <2>1 DEF CardFollows
  <2>3. ASSUME Silent(updates, AboutCard), openingOperation' # None
        PROVE  Known(openingOperation.requestId)'
    <3>1. ASSUME openingOperation # None,
                 openingOperation'.requestId = openingOperation.requestId,
                 Waiting \subseteq Waiting'
          PROVE  Known(openingOperation.requestId)'
      <4>1. Known(openingOperation.requestId)
        BY <1>0, <2>3, <3>1 DEF CardFollows, Known
      <4> QED BY <2>1, <3>1, <4>1 DEF Known, ClientId
    <3> QED BY <1>0, <2>3, <3>1
  <2> QED BY <1>0, <2>2, <2>3 DEF CardFollows, Known
<1>1. ASSUME NEW u \in Updates, updates' = Append(updates, u),
             CardOf(u) \in Running' \cup {None}
      PROVE  CardFollows'
  <2>1. AppendSpeaks(updates, u, AboutCard) /\ u.type \in AboutCard
    BY UpdateArrives DEF TypeOK, Updates, AboutCard
  <2> QED BY <1>1, <2>1 DEF AppendSpeaks, CardFollows
<1>2. CASE UNCHANGED vars \/ ClearError
  BY <1>0, <1>2 DEF vars, view, bridge, stream, daemon, ClearError, Waiting
<1>3. CASE CancelOpening
  <2>1. openingOperation'.requestId = openingOperation.requestId
    BY <1>3 DEF CancelOpening, TypeOK
  <2> QED BY <1>0, <1>3, <2>1 DEF CancelOpening, stream, daemon, Waiting
<1>4. CASE HandleStreamUpdate
  <2> DEFINE u == Head(updates)
  <2>1. /\ Handled(u) /\ u \in Updates /\ updates \in Seq(Updates) /\ updates # << >>
        /\ updates' = Tail(updates) /\ UNCHANGED <<link, call, operation>>
    BY <1>4, UpdateHandled
  <2>2. TailSpeaks(updates, AboutCard) /\ 1 \in DOMAIN updates /\ updates[1] = u
    BY <2>1, UpdateLeaves
  <2>3. u.type \in AboutCard
    BY <2>1 DEF Updates, AboutCard
  <2> HIDE DEF u
  <2>4. Running' = Running
    BY <2>1 DEF Running
  <2>5. \A i \in DOMAIN updates :
          Latest(updates, AboutCard, i) => CardOf(updates[i]) \in Running \cup {None}
    BY <2>1 DEF CardFollows
  <2>6. \A i \in DOMAIN updates' :
          Latest(updates', AboutCard, i) => CardOf(updates'[i]) \in Running \cup {None}
    BY <2>1, <2>2, <2>5 DEF TailSpeaks
  <2>7. ASSUME Silent(updates', AboutCard), openingOperation' # None
        PROVE  openingOperation'.requestId \in Running
    BY <2>1, <2>2, <2>3, <2>5, <2>7 DEF TailSpeaks, Handled
  <2> QED BY <2>4, <2>6, <2>7 DEF CardFollows
<1>5. CASE Lose \/ Restart
  BY <1>5 DEF Lose, Restart
<1>6. CASE Subscribe
  <2>1. PICK first \in Running \cup {None} :
          updates' = Append(updates, [type |-> "snapshot", project |-> authority,
                                      first |-> first])
    BY <1>6 DEF Subscribe
  <2> DEFINE u == [type |-> "snapshot", project |-> authority, first |-> first]
  <2>2. u \in Updates /\ CardOf(u) = first
    BY DEF TypeOK, Updates, CardOf, Running
  <2> HIDE DEF u
  <2>3. Running' = Running
    BY <1>6 DEF Subscribe, daemon, Running
  <2> QED BY <1>1, <2>1, <2>2, <2>3 DEF u
<1>7. ASSUME NEW c \in Calls, UserStep(c) PROVE CardFollows'
  <2>1. CASE ChooseAndOpen(c)
    BY <1>0, <2>1 DEF ChooseAndOpen, stream, daemon
  <2>2. CASE PickNothing(c)
    <3>1. Waiting \subseteq Waiting'
      BY <2>2 DEF PickNothing, Waiting, TypeOK
    <3> QED BY <1>0, <2>2, <3>1 DEF PickNothing, view, stream, daemon
  <2>3. CASE PickFails(c)
    BY <1>0, <2>3 DEF PickFails, stream, daemon
  <2>4. CASE Pick(c)
    <3>1. c \in Waiting' /\ openingOperation'.requestId = ClientId(c)
      BY <2>4 DEF Pick, Waiting, Card, TypeOK
    <3>2. Running' = Running
      BY <2>4 DEF Pick, OpensAreOrdered, Running, TypeOK
    <3> QED BY <2>4, <3>1, <3>2 DEF Pick, CardFollows, stream
  <2> QED BY <1>7, <2>1, <2>2, <2>3, <2>4 DEF UserStep
<1>8. ASSUME NEW c \in Calls, OpenAnswers(c) PROVE CardFollows'
  BY <1>0, <1>8 DEF OpenAnswers, stream, daemon
<1>9. ASSUME NEW c \in Calls, Begin(c) PROVE CardFollows'
  <2>1. Announced("started", c)
    BY <1>9, Announcement DEF Begin
  <2> DEFINE u == [type |-> "started", id |-> c]
  <2>2. CardOf(u) = c /\ c \in Running'
    BY <1>9 DEF Begin, Running, CardOf, TypeOK
  <2>3. link = "fed"
    BY <1>9 DEF Begin
  <2> QED BY <1>1, <2>1, <2>2, <2>3 DEF Announced
<1>10. ASSUME NEW c \in Calls, Refuse(c) PROVE CardFollows'
  <2>1. Running' = Running /\ UNCHANGED <<view, stream, call>>
    BY <1>10 DEF Refuse, Running, TypeOK
  <2> QED BY <2>1 DEF CardFollows, view, stream, Waiting
<1>11. ASSUME NEW c \in Calls, End(c) PROVE CardFollows'
  <2>1. PICK type \in {"opened", "cancelled", "failed"} : EndsAs(c, type)
    BY <1>11, Ending
  <2> DEFINE u == [type |-> type, id |-> c]
  <2>2. CardOf(u) = None
    BY DEF CardOf
  <2>3. link = "fed"
    BY <2>1 DEF EndsAs
  <2> QED BY <1>1, <2>1, <2>2, <2>3 DEF EndsAs, Announced
<1>12. ASSUME NEW c \in Calls, GiveUp(c) PROVE CardFollows'
  BY <1>0, <1>12 DEF GiveUp, view, stream, daemon, Waiting
<1>13. ASSUME NEW c \in cancels, CancelRequest(c) PROVE CardFollows'
  BY <1>0, <1>13 DEF CancelRequest, view, stream, Waiting
<1> QED
  BY <1>2, <1>3, <1>4, <1>5, <1>6, <1>7, <1>8, <1>9, <1>10, <1>11, <1>12, <1>13
     DEF Next, OpenStep

-----------------------------------------------------------------------------
LEMMA ViewInvariant == Spec => []ViewInv
<1>1. Init => ViewInv
  <2> SUFFICES ASSUME Init PROVE ViewInv
    OBVIOUS
  <2>1. TypeOK
    BY TypesInit
  <2>2. OpensAreOrdered
    BY WorkspaceAssumption DEF Init, OpensAreOrdered
  <2>3. ProjectFollows /\ ErrorFollows /\ CardFollows
    BY DEF Init, ProjectFollows, ErrorFollows, CardFollows
  <2> QED BY <2>1, <2>2, <2>3 DEF ViewInv
<1>2. ViewInv /\ [Next]_vars => ViewInv'
  BY TypesStep, OrderStep, ProjectStep, ErrorStep, CardStep DEF ViewInv
<1> QED BY <1>1, <1>2, PTL DEF Spec

\* The state of the web view is well typed.
THEOREM ViewTypes == Spec => []TypeOK
<1>1. ViewInv => TypeOK
  BY DEF ViewInv
<1> QED BY <1>1, ViewInvariant, PTL

\* With nothing left to handle, nothing speaks any more.
LEMMA NothingSpeaks ==
  ASSUME UpToDate, NEW types
  PROVE  link = "fed" /\ Waiting = {} /\ Silent(updates, types)
BY DEF UpToDate, Silent

\* ProjectIsAuthoritative: the web view ends up with the daemon's project.
THEOREM ProjectAuthoritative == Spec => []ProjectIsAuthoritative
<1>1. ViewInv => ProjectIsAuthoritative
  BY NothingSpeaks DEF ViewInv, ProjectFollows, ProjectIsAuthoritative
<1> QED BY <1>1, ViewInvariant, PTL

\* NoErrorForOpenProject: no error is left over about the open that succeeded.
THEOREM NoErrorForOpen == Spec => []NoErrorForOpenProject
<1>1. ViewInv => NoErrorForOpenProject
  BY NothingSpeaks DEF ViewInv, ErrorFollows, NotOpen, NoErrorForOpenProject
<1> QED BY <1>1, ViewInvariant, PTL

\* CardShowsRunningOpen: no card is left over.
THEOREM CardShowsRunning == Spec => []CardShowsRunningOpen
<1>1. ViewInv => CardShowsRunningOpen
  BY NothingSpeaks DEF ViewInv, CardFollows, CardShowsRunningOpen
<1> QED BY <1>1, ViewInvariant, PTL
=============================================================================
