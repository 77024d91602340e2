-------------------------- MODULE StreamWorkerProofs --------------------------
(***************************************************************************)
(* Proofs about the event stream worker and the supervisor under it, for   *)
(* any number of subscriptions, any bound on the events of a daemon and    *)
(* any capacity of the feed.                                               *)
(*                                                                         *)
(* The supervisor's part (HostInv) is proved from its own actions, since   *)
(* every step of a worker leaves it alone.  The workers' part needs of it  *)
(* that the daemon which feeds a connection is the last one, and that a    *)
(* daemon is replaced only when it is gone: otherwise the numbers a        *)
(* connection still holds would be compared with those of another stream.  *)
(***************************************************************************)
EXTENDS StreamWorker, TLAPS

-----------------------------------------------------------------------------
(* The supervisor.                                                          *)

\* While a replacement is under way the host has neither a daemon nor a client
\* until it has spawned the next, and the budget allows just one more.
Replacement ==
  /\ ~restart_used => incarnation = 1
  /\ step \in {"replacing", "over"} => alive = {} /\ client = None /\ child = None
  /\ step = "spawned" => client = None
  /\ step = "published" => client = incarnation

HostInv == Host!TypeOK /\ HostHoldsDaemon /\ Replacement

LEMMA HostInit == Host!Init => HostInv
<1> SUFFICES ASSUME Host!Init PROVE HostInv
  OBVIOUS
<1>1. alive \subseteq 1 .. incarnation /\ listening \subseteq alive
  BY DEF Host!Init
<1>a. restart_used \in BOOLEAN
  BY DEF Host!Init
<1>2. /\ incarnation \in 1 .. 2
      /\ client \in {1, 2, None} /\ child \in {1, 2, None}
      /\ step = "watching" /\ host = "running"
  BY DEF Host!Init
<1>3. HostHoldsDaemon /\ Replacement
  BY DEF Host!Init, HostHoldsDaemon, Host!HostHoldsDaemon, Replacement
<1> QED BY <1>1, <1>a, <1>2, <1>3 DEF HostInv, Host!TypeOK

LEMMA HostStep == HostInv /\ [Host!Next]_supervised => HostInv'
<1> USE DEF HostInv, Host!TypeOK, HostHoldsDaemon, Host!HostHoldsDaemon, Replacement
<1> SUFFICES ASSUME HostInv, [Host!Next]_supervised PROVE HostInv'
  OBVIOUS
<1>1. CASE UNCHANGED supervised
  BY <1>1 DEF supervised
<1>2. CASE Host!Listen
  BY <1>2 DEF Host!Listen
<1>3. CASE Host!Die
  BY <1>3 DEF Host!Die
<1>4. CASE Host!Discard
  BY <1>4 DEF Host!Discard, Host!Observations, Host!ShouldReplace
<1>5. CASE Host!Spawn
  BY <1>5 DEF Host!Spawn
<1>6. CASE Host!SpawnFails
  BY <1>6 DEF Host!SpawnFails
<1>7. CASE Host!GiveUp
  BY <1>7 DEF Host!GiveUp
<1>8. CASE Host!PublishClient
  BY <1>8 DEF Host!PublishClient
<1>9. CASE Host!StoreChild
  BY <1>9 DEF Host!StoreChild
<1>10. CASE Host!Exit
  BY <1>10 DEF Host!Exit
<1>11. CASE Host!End
  BY <1>11 DEF Host!End
<1> QED
  BY <1>1, <1>2, <1>3, <1>4, <1>5, <1>6, <1>7, <1>8, <1>9, <1>10, <1>11
     DEF Host!Next, Host!Watch

\* Every step of the whole is one of the supervisor or leaves it alone.
LEMMA SupervisedStep == [Next]_vars => [Host!Next]_supervised
BY DEF Next, vars, daemon, Publish, Die, Listen, Supervise, Quit, End, StartWorker,
       WorkerStep, Stop, Connect, SubscribeSucceeds, SubscribeFails, Refused, Sleep,
       ShowSnapshot, ReadEvent, ReadPartOfEvent, ReadNothing, ProbeSucceeds,
       ProbeFails, Host!Next

\* HostHoldsDaemon: the host's client and child are those of the only daemon.
THEOREM HostHolds == Spec => []HostHoldsDaemon
<1>1. Init => HostInv
  BY HostInit DEF Init
<1>2. HostInv /\ [Next]_vars => HostInv'
  BY HostStep, SupervisedStep
<1>3. HostInv => HostHoldsDaemon
  BY DEF HostInv
<1> QED BY <1>1, <1>2, <1>3, PTL DEF Spec

-----------------------------------------------------------------------------
(* The workers.                                                             *)

\* The daemon that feeds a connection is the last one, and is up.
FedByDaemon == live # None => incarnation \in listening

\* A worker is spawned once.
UnbornAbsent == \A w \in Workers : w > latest => phase[w] = "absent"

\* What the inbox of a connection holds, from its first snapshot on: the
\* numbers that come next, to the daemon's last while the daemon feeds it.
Follows(w) ==
  /\ expected[w] >= 1
  /\ ~torn[w] =>
       /\ \A i \in DOMAIN inbox[w] : inbox[w][i] = expected[w] - 1 + i
       /\ live = w => /\ stream[w] = incarnation
                      /\ expected[w] - 1 + Len(inbox[w]) = sequence

\* Once the snapshot is shown, the view is where the connection is.
ShowsConnection(w) == ~torn[w] => expected[w] = shown[w].sequence + 1

Connections ==
  \A w \in Workers :
    /\ phase[w] \in {"subscribed", "reading", "probing"} => Follows(w)
    /\ phase[w] \in {"reading", "probing"} => ShowsConnection(w)

WorkerInv == /\ TypeOK /\ HostInv
             /\ FedByDaemon /\ UnbornAbsent /\ LiveMeansConnected /\ Connections

\* The updates a worker can send.
Notices == [kind : {"nothing", "reconnecting", "live"}, stream : {1, 2, None},
            sequence : 0 .. MaxSequence]

LEMMA NoticeForms ==
  /\ Nothing \in Notices /\ Nothing.kind = "nothing"
  /\ Reconnecting \in Notices /\ Reconnecting.kind = "reconnecting"
  /\ \A i, n : /\ Live(i, n).kind = "live" /\ Live(i, n).stream = i
               /\ Live(i, n).sequence = n
  /\ \A i \in {1, 2, None}, n \in 0 .. MaxSequence : Live(i, n) \in Notices
BY BoundsAssumption DEF Notices, Nothing, Reconnecting, Live

\* What is left of a sequence without its first element.
LEMMA HeadAndTail ==
  ASSUME NEW S, NEW s \in Seq(S), s # << >>
  PROVE  /\ Head(s) \in S /\ Head(s) = s[1]
         /\ Tail(s) \in Seq(S) /\ Len(Tail(s)) = Len(s) - 1 /\ Len(s) \in Nat
         /\ \A i \in DOMAIN Tail(s) : /\ i \in Nat /\ i + 1 \in DOMAIN s
                                     /\ Tail(s)[i] = s[i + 1]
OBVIOUS

\* What the web view is told when a connection cannot be made...
LEMMA TellTypes ==
  ASSUME TypeOK, NEW w \in Workers, TellReconnecting(w)
  PROVE  /\ has_connected_once' \in [Workers -> BOOLEAN]
         /\ is_reconnecting' \in [Workers -> BOOLEAN]
         /\ shown' \in [Workers -> Notices]
         /\ \A v \in Workers : \/ shown'[v] = shown[v]
                               \/ v = w /\ shown'[v] = Reconnecting
<1> DEFINE told == has_connected_once[w] /\ ~is_reconnecting[w]
<1>1. CASE told
  <2>1. /\ shown' = [shown EXCEPT ![w] = Reconnecting]
        /\ is_reconnecting' = [is_reconnecting EXCEPT ![w] = TRUE]
        /\ UNCHANGED has_connected_once
    BY <1>1 DEF TellReconnecting
  <2> QED BY <2>1, NoticeForms DEF TypeOK, Notices
<1>2. CASE ~told
  <2>1. UNCHANGED <<shown, is_reconnecting, has_connected_once>>
    BY <1>2 DEF TellReconnecting
  <2> QED BY <2>1 DEF TypeOK, Notices
<1> QED BY <1>1, <1>2

\* ... and when it is left.
Abandoned(w) ==
  /\ phase' = [phase EXCEPT ![w] = "connecting"]
  /\ stream' \in [Workers -> {1, 2, None}]
  /\ inbox' \in [Workers -> Seq(1 .. MaxSequence)]
  /\ torn' \in [Workers -> BOOLEAN]
  /\ expected' \in [Workers -> 0 .. MaxSequence + 1]
  /\ has_connected_once' \in [Workers -> BOOLEAN]
  /\ is_reconnecting' \in [Workers -> BOOLEAN]
  /\ shown' \in [Workers -> Notices] /\ shown'[w] = Reconnecting
  /\ \A v \in Workers \ {w} :
       /\ shown'[v] = shown[v] /\ stream'[v] = stream[v]
       /\ inbox'[v] = inbox[v] /\ torn'[v] = torn[v]
       /\ expected'[v] = expected[v]

LEMMA AbandonTypes ==
  ASSUME TypeOK, NEW w \in Workers, Abandon(w)
  PROVE  Abandoned(w)
<1>1. /\ stream' = [stream EXCEPT ![w] = None]
      /\ inbox' = [inbox EXCEPT ![w] = << >>]
      /\ torn' = [torn EXCEPT ![w] = FALSE]
      /\ expected' = [expected EXCEPT ![w] = 0]
      /\ shown' = [shown EXCEPT ![w] = Reconnecting]
      /\ is_reconnecting' = [is_reconnecting EXCEPT ![w] = TRUE]
      /\ UNCHANGED has_connected_once
      /\ phase' = [phase EXCEPT ![w] = "connecting"]
  BY DEF Abandon, Disconnect, Goto
<1>2. torn' \in [Workers -> BOOLEAN] /\ is_reconnecting' \in [Workers -> BOOLEAN]
  BY <1>1 DEF TypeOK
<1>3. \A v \in Workers \ {w} : torn'[v] = torn[v]
  BY <1>1 DEF TypeOK
<1>4. /\ shown' \in [Workers -> Notices] /\ shown'[w] = Reconnecting
      /\ \A v \in Workers \ {w} : shown'[v] = shown[v]
  BY <1>1, NoticeForms DEF TypeOK, Notices
<1>5. /\ stream' \in [Workers -> {1, 2, None}]
      /\ inbox' \in [Workers -> Seq(1 .. MaxSequence)]
      /\ expected' \in [Workers -> 0 .. MaxSequence + 1]
      /\ \A v \in Workers \ {w} :
           /\ stream'[v] = stream[v] /\ inbox'[v] = inbox[v]
           /\ expected'[v] = expected[v]
  BY <1>1, BoundsAssumption DEF TypeOK
<1>6. has_connected_once' \in [Workers -> BOOLEAN]
  BY <1>1 DEF TypeOK
<1> QED BY <1>1, <1>2, <1>3, <1>4, <1>5, <1>6 DEF Abandoned

LEMMA WorkerInit == Init => WorkerInv
<1> SUFFICES ASSUME Init PROVE WorkerInv
  OBVIOUS
<1>1. HostInv
  BY HostInit DEF Init
<1>2. TypeOK
  BY <1>1, BoundsAssumption DEF Init, TypeOK, HostInv, Nothing
<1>3. FedByDaemon /\ UnbornAbsent /\ LiveMeansConnected /\ Connections
  BY DEF Init, FedByDaemon, UnbornAbsent, LiveMeansConnected, Connections, Nothing
<1> QED BY <1>1, <1>2, <1>3 DEF WorkerInv

\* A step of the daemon or of its supervisor leaves the workers alone, and
\* either ends the feed or lets it go on as it was.
LEMMA WorkersUndisturbed ==
  ASSUME WorkerInv, HostInv',
         UNCHANGED <<latest, phase, target, reader, notice>>,
         sequence' \in 0 .. MaxSequence,
         \/ live' = None
         \/ UNCHANGED <<live, incarnation, sequence>> /\ listening \subseteq listening'
  PROVE  WorkerInv'
<1>1. TypeOK'
  BY DEF WorkerInv, HostInv, TypeOK, reader, notice
<1>2. FedByDaemon'
  BY DEF WorkerInv, FedByDaemon
<1>3. UnbornAbsent' /\ LiveMeansConnected'
  BY DEF WorkerInv, UnbornAbsent, LiveMeansConnected, reader, notice
<1>4. Connections'
  BY BoundsAssumption
     DEF WorkerInv, Connections, Follows, ShowsConnection, reader, notice
<1> QED BY <1>1, <1>2, <1>3, <1>4 DEF WorkerInv

\* A worker that goes from one place of its loop to another, without a word to
\* the web view, enters or leaves no place where it has a connection.
LEMMA WorkerMoved ==
  ASSUME WorkerInv, HostInv', NEW w \in Workers,
         NEW p \in {"connecting", "refused", "reading", "probing"}, Goto(w, p),
         UNCHANGED <<daemon, latest, target, reader, notice>>,
         live' = live \/ live' = None,
         phase[w] \notin {"absent", "subscribed"},
         phase[w] \in {"reading", "probing"} <=> p \in {"reading", "probing"}
  PROVE  WorkerInv'
<1>1. TypeOK'
  BY BoundsAssumption DEF WorkerInv, HostInv, TypeOK, Goto, daemon, reader, notice
<1>2. FedByDaemon'
  BY DEF WorkerInv, FedByDaemon, daemon, supervised
<1>3. UnbornAbsent' /\ LiveMeansConnected'
  BY DEF WorkerInv, TypeOK, UnbornAbsent, LiveMeansConnected, Goto, reader, notice
<1>4. Connections'
  BY BoundsAssumption
     DEF WorkerInv, TypeOK, Connections, Follows, ShowsConnection, Goto, daemon,
         supervised, reader, notice
<1> QED BY <1>1, <1>2, <1>3, <1>4 DEF WorkerInv

\* A connection is left for a new one.
LEMMA AbandonedKeepsInv ==
  ASSUME WorkerInv, HostInv', NEW w \in Workers, Abandon(w),
         UNCHANGED <<daemon, live, latest, target>>,
         phase[w] \in {"reading", "probing"}
  PROVE  WorkerInv'
<1> USE BoundsAssumption DEF WorkerInv, Workers
<1>1. Abandoned(w) /\ UNCHANGED <<daemon, live, latest, target>>
  BY AbandonTypes
<1>2. TypeOK'
  <2>1. phase' \in [Workers -> {"absent", "connecting", "subscribing", "refused",
                                "sleeping", "subscribed", "reading", "probing",
                                "stopped"}]
    BY <1>1 DEF TypeOK, Abandoned
  <2> QED BY <1>1, <2>1 DEF Abandoned, TypeOK, HostInv, Notices, daemon
<1>3. /\ \A v \in Workers \ {w} : phase'[v] = phase[v]
      /\ phase'[w] = "connecting"
  BY <1>1 DEF TypeOK, Abandoned
<1>4. shown'[w].kind # "live"
  BY <1>1, NoticeForms DEF Abandoned
<1>5. LiveMeansConnected'
  BY <1>1, <1>3, <1>4 DEF LiveMeansConnected, Abandoned
<1>6. Connections'
  <2>1. SUFFICES ASSUME NEW v \in Workers \ {w},
                        phase'[v] \in {"subscribed", "reading", "probing"}
                 PROVE  /\ Follows(v)'
                        /\ phase'[v] \in {"reading", "probing"} => ShowsConnection(v)'
    BY <1>3 DEF Connections
  <2>2. /\ phase'[v] = phase[v] /\ shown'[v] = shown[v] /\ stream'[v] = stream[v]
        /\ inbox'[v] = inbox[v] /\ torn'[v] = torn[v] /\ expected'[v] = expected[v]
        /\ UNCHANGED <<incarnation, sequence, live>>
    BY <1>1, <1>3 DEF Abandoned, daemon, supervised
  <2>3. Follows(v) /\ (phase[v] \in {"reading", "probing"} => ShowsConnection(v))
    BY <2>1, <2>2 DEF Connections
  <2> QED BY <2>2, <2>3 DEF Follows, ShowsConnection
<1>7. w <= latest
  BY DEF UnbornAbsent, TypeOK
<1>8. FedByDaemon' /\ UnbornAbsent'
  BY <1>1, <1>3, <1>7 DEF FedByDaemon, UnbornAbsent, daemon, supervised
<1> QED BY <1>2, <1>5, <1>6, <1>8

LEMMA WorkerInvStep == WorkerInv /\ [Next]_vars => WorkerInv'
<1> SUFFICES ASSUME WorkerInv, [Next]_vars PROVE WorkerInv'
  OBVIOUS
<1> USE BoundsAssumption DEF WorkerInv, Workers
<1>a. HostInv'
  BY HostStep, SupervisedStep
<1>0. CASE UNCHANGED vars
  BY <1>a, <1>0, WorkersUndisturbed DEF vars, daemon, supervised, TypeOK
<1>1. CASE Publish
  <2>1. TypeOK'
    <3>1. /\ sequence' \in 0 .. MaxSequence /\ live' \in Workers \cup {None}
          /\ sequence + 1 \in 1 .. MaxSequence
      BY <1>1 DEF Publish, TypeOK
    <3>2. inbox' \in [Workers -> Seq(1 .. MaxSequence)]
      <4>1. CASE UNCHANGED inbox
        BY <4>1 DEF TypeOK
      <4>2. ASSUME live # None,
                   inbox' = [inbox EXCEPT ![live] = Append(@, sequence + 1)]
            PROVE  inbox' \in [Workers -> Seq(1 .. MaxSequence)]
        <5>1. live \in Workers /\ inbox[live] \in Seq(1 .. MaxSequence)
          BY <4>2 DEF TypeOK
        <5>2. Append(inbox[live], sequence + 1) \in Seq(1 .. MaxSequence)
          BY <3>1, <5>1
        <5> QED BY <4>2, <5>1, <5>2 DEF TypeOK
      <4> QED BY <1>1, <4>1, <4>2 DEF Publish
    <3> QED BY <1>a, <1>1, <3>1, <3>2 DEF Publish, notice, TypeOK, HostInv
  <2>2. FedByDaemon'
    BY <1>1 DEF Publish, supervised, FedByDaemon
  <2>3. UnbornAbsent'
    BY <1>1 DEF Publish, UnbornAbsent, TypeOK
  <2>4. LiveMeansConnected'
    BY <1>1 DEF Publish, notice, LiveMeansConnected, TypeOK
  <2>5. Connections'
    <3>1. /\ UNCHANGED <<incarnation, phase, stream, torn, expected, shown>>
          /\ sequence' = sequence + 1
      BY <1>1 DEF Publish, supervised, notice
    <3>2. CASE live' = None /\ UNCHANGED inbox
      BY <3>1, <3>2 DEF Connections, Follows, ShowsConnection
    <3>3. ASSUME live # None, UNCHANGED live,
                 inbox' = [inbox EXCEPT ![live] = Append(@, sequence + 1)]
          PROVE  Connections'
      <4>1. live \in Workers /\ inbox[live] \in Seq(Nat) /\ sequence + 1 \in Nat
        BY <3>3 DEF TypeOK
      <4>2. /\ inbox'[live] = Append(inbox[live], sequence + 1)
            /\ \A v \in Workers \ {live} : inbox'[v] = inbox[v]
        BY <3>3, <4>1 DEF TypeOK
      <4>3. /\ Len(inbox'[live]) = Len(inbox[live]) + 1
            /\ DOMAIN inbox'[live] = 1 .. Len(inbox[live]) + 1
            /\ inbox'[live][Len(inbox[live]) + 1] = sequence + 1
            /\ \A i \in DOMAIN inbox[live] : inbox'[live][i] = inbox[live][i]
            /\ DOMAIN inbox[live] = 1 .. Len(inbox[live])
        BY <4>1, <4>2
      <4>4. ASSUME phase[live] \in {"subscribed", "reading", "probing"}
            PROVE  Follows(live)'
        <5>1. expected[live] \in Nat /\ sequence \in Nat /\ Len(inbox[live]) \in Nat
          BY <4>1 DEF TypeOK
        <5>2. Follows(live)
          BY <4>1, <4>4 DEF Connections
        <5>3. ASSUME ~torn[live] PROVE \A i \in DOMAIN inbox'[live] :
                                         inbox'[live][i] = expected[live] - 1 + i
          <6>1. expected[live] - 1 + Len(inbox[live]) = sequence
            BY <4>1, <5>2, <5>3 DEF Follows
          <6>2. expected[live] - 1 + (Len(inbox[live]) + 1) = sequence + 1
            BY <5>1, <6>1
          <6>3. \A i \in DOMAIN inbox'[live] :
                  i \in DOMAIN inbox[live] \/ i = Len(inbox[live]) + 1
            BY <4>3, <5>1
          <6>4. \A i \in DOMAIN inbox[live] : inbox[live][i] = expected[live] - 1 + i
            BY <5>2, <5>3 DEF Follows
          <6> QED BY <4>3, <6>2, <6>3, <6>4
        <5>4. ~torn[live] => /\ stream[live] = incarnation
                             /\ expected[live] - 1 + Len(inbox'[live]) = sequence + 1
          BY <4>3, <5>1, <5>2 DEF Follows
        <5> QED BY <3>1, <3>3, <5>2, <5>3, <5>4 DEF Follows
      <4> QED
        BY <3>1, <3>3, <4>2, <4>4 DEF Connections, Follows, ShowsConnection
    <3> QED BY <1>1, <3>2, <3>3 DEF Publish
  <2> QED BY <1>a, <2>1, <2>2, <2>3, <2>4, <2>5
<1>2. CASE Die
  <2>1. /\ sequence' \in 0 .. MaxSequence /\ live' = None
        /\ UNCHANGED <<latest, phase, target, reader, notice>>
    BY <1>2 DEF Die
  <2> QED BY <1>a, <2>1, WorkersUndisturbed
<1>3. CASE Listen
  BY <1>a, <1>3, WorkersUndisturbed DEF Listen, Host!Listen, TypeOK
<1>4. CASE Supervise
  <2>1. live = None \/ UNCHANGED <<incarnation, listening>>
    BY <1>4 DEF Supervise, Host!Watch, Host!Discard, Host!Spawn, Host!SpawnFails,
       Host!GiveUp, Host!PublishClient, Host!StoreChild, FedByDaemon, HostInv,
       Host!TypeOK, Replacement
  <2> QED BY <1>a, <1>4, <2>1, WorkersUndisturbed DEF Supervise, TypeOK
<1>5. CASE Quit
  <2>1. TypeOK'
    BY <1>a, <1>5 DEF Quit, Host!Exit, Nothing, TypeOK, HostInv
  <2>2. FedByDaemon'
    BY <1>5 DEF Quit, Host!Exit, FedByDaemon
  <2>3. UnbornAbsent'
    BY <1>5 DEF Quit, Host!Exit, UnbornAbsent, TypeOK
  <2>4. LiveMeansConnected'
    BY <1>5 DEF Quit, Host!Exit, Nothing, LiveMeansConnected, TypeOK
  <2>5. Connections'
    BY <1>5 DEF Quit, Host!Exit, Connections, Follows, ShowsConnection, TypeOK
  <2> QED BY <1>a, <2>1, <2>2, <2>3, <2>4, <2>5
<1>6. CASE End
  BY <1>a, <1>6, WorkersUndisturbed DEF End, Host!End, TypeOK
<1>7. CASE StartWorker
  <2>1. TypeOK'
    <3>1. latest' \in 0 .. MaxSubscriptions /\ latest + 1 \in Workers
      BY <1>7 DEF StartWorker, TypeOK
    <3> QED BY <1>a, <1>7, <3>1 DEF StartWorker, Goto, daemon, reader, notice,
               TypeOK, HostInv
  <2>2. FedByDaemon'
    BY <1>7 DEF StartWorker, daemon, supervised, FedByDaemon
  <2>3. UnbornAbsent'
    BY <1>7 DEF StartWorker, Goto, UnbornAbsent, TypeOK
  <2>4. LiveMeansConnected'
    BY <1>a, <1>7
       DEF StartWorker, Goto, Reachable, daemon, supervised, reader, notice,
           LiveMeansConnected, TypeOK, UnbornAbsent
  <2>5. Connections'
    BY <1>7
       DEF StartWorker, Goto, daemon, supervised, reader, notice, Connections,
           Follows, ShowsConnection, TypeOK
  <2> QED BY <1>a, <2>1, <2>2, <2>3, <2>4, <2>5
<1>8. ASSUME NEW w \in Workers, Stop(w) PROVE WorkerInv'
  <2>1. TypeOK'
    BY <1>a, <1>8 DEF Stop, Goto, Disconnect, Nothing, daemon, TypeOK, HostInv
  <2>2. FedByDaemon'
    BY <1>8 DEF Stop, daemon, supervised, FedByDaemon
  <2>3. UnbornAbsent'
    BY <1>8 DEF Stop, Goto, UnbornAbsent, TypeOK
  <2>4. LiveMeansConnected'
    BY <1>8 DEF Stop, Goto, Disconnect, Nothing, LiveMeansConnected, TypeOK
  <2>5. Connections'
    BY <1>8
       DEF Stop, Goto, Disconnect, daemon, supervised, Connections, Follows,
           ShowsConnection, TypeOK
  <2> QED BY <1>a, <2>1, <2>2, <2>3, <2>4, <2>5
<1>9. ASSUME NEW w \in Workers, Connect(w) PROVE WorkerInv'
  <2>a. /\ UNCHANGED <<daemon, live, latest, reader>>
        /\ UNCHANGED notice \/ TellReconnecting(w)
    BY <1>9 DEF Connect
  <2>b. /\ UNCHANGED <<daemon, live, latest, reader>>
        /\ \A v \in Workers : \/ shown'[v] = shown[v]
                              \/ v = w /\ shown'[v] = Reconnecting
    BY <2>a, TellTypes DEF notice
  <2>c. /\ \A v \in Workers \ {w} : phase'[v] = phase[v]
        /\ phase[w] \notin {"subscribed", "reading", "probing"}
        /\ phase'[w] \notin {"subscribed", "reading", "probing"}
    BY <1>9 DEF Connect, Goto, TypeOK
  <2>1. TypeOK'
    <3>1. /\ phase' \in [Workers -> {"absent", "connecting", "subscribing", "refused",
                                     "sleeping", "subscribed", "reading", "probing",
                                     "stopped"}]
          /\ target' \in [Workers -> {1, 2, None}]
      BY <1>9 DEF Connect, Goto, TypeOK, HostInv, Host!TypeOK
    <3> QED BY <1>a, <2>a, <3>1, TellTypes
               DEF daemon, reader, notice, TypeOK, HostInv, Notices
  <2>2. FedByDaemon'
    BY <1>9 DEF Connect, daemon, supervised, FedByDaemon
  <2>3. UnbornAbsent'
    BY <1>9 DEF Connect, Goto, UnbornAbsent, TypeOK
  <2>4. LiveMeansConnected'
    BY <2>b, <2>c, NoticeForms DEF LiveMeansConnected, reader
  <2>5. Connections'
    BY <2>b, <2>c
       DEF Connections, Follows, ShowsConnection, daemon, supervised, reader
  <2> QED BY <1>a, <2>1, <2>2, <2>3, <2>4, <2>5
<1>10. ASSUME NEW w \in Workers, SubscribeSucceeds(w) PROVE WorkerInv'
  <2>1. TypeOK'
    <3>1. incarnation \in {1, 2, None} /\ sequence + 1 \in 0 .. MaxSequence + 1
      BY DEF HostInv, Host!TypeOK, TypeOK
    <3>2. << >> \in Seq(1 .. MaxSequence)
      OBVIOUS
    <3> QED BY <1>a, <1>10, <3>1, <3>2 DEF SubscribeSucceeds, Goto, daemon, notice,
               TypeOK, HostInv
  <2>2. FedByDaemon'
    BY <1>a, <1>10
       DEF SubscribeSucceeds, Reachable, Goto, daemon, supervised, notice,
           FedByDaemon, HostInv, Replacement, Host!TypeOK, TypeOK,
           HostHoldsDaemon, Host!HostHoldsDaemon
  <2>3. UnbornAbsent'
    BY <1>10 DEF SubscribeSucceeds, Goto, UnbornAbsent, TypeOK
  <2>4. LiveMeansConnected'
    BY <1>10 DEF SubscribeSucceeds, Goto, notice, LiveMeansConnected, TypeOK
  <2>5. Connections'
    BY <1>10
       DEF SubscribeSucceeds, Goto, daemon, supervised, notice, Connections,
           Follows, ShowsConnection, TypeOK
  <2> QED BY <1>a, <2>1, <2>2, <2>3, <2>4, <2>5
<1>11. ASSUME NEW w \in Workers, SubscribeFails(w) PROVE WorkerInv'
  BY <1>a, <1>11, WorkerMoved DEF SubscribeFails
<1>12. ASSUME NEW w \in Workers, Refused(w) PROVE WorkerInv'
  <2>a. /\ UNCHANGED <<daemon, live, latest, reader>>
        /\ UNCHANGED notice \/ TellReconnecting(w)
    BY <1>12 DEF Refused
  <2>b. /\ UNCHANGED <<daemon, live, latest, reader>>
        /\ \A v \in Workers : \/ shown'[v] = shown[v]
                              \/ v = w /\ shown'[v] = Reconnecting
    BY <2>a, TellTypes DEF notice
  <2>c. /\ \A v \in Workers \ {w} : phase'[v] = phase[v]
        /\ phase[w] \notin {"subscribed", "reading", "probing"}
        /\ phase'[w] \notin {"subscribed", "reading", "probing"}
    BY <1>12 DEF Refused, Goto, TypeOK
  <2>1. TypeOK'
    <3>1. /\ phase' \in [Workers -> {"absent", "connecting", "subscribing", "refused",
                                     "sleeping", "subscribed", "reading", "probing",
                                     "stopped"}]
          /\ target' \in [Workers -> {1, 2, None}]
      BY <1>12 DEF Refused, Goto, TypeOK
    <3> QED BY <1>a, <2>a, <3>1, TellTypes
               DEF daemon, reader, notice, TypeOK, HostInv, Notices
  <2>2. FedByDaemon'
    BY <1>12 DEF Refused, daemon, supervised, FedByDaemon
  <2>3. UnbornAbsent'
    BY <1>12 DEF Refused, Goto, UnbornAbsent, TypeOK
  <2>4. LiveMeansConnected'
    BY <2>b, <2>c, NoticeForms DEF LiveMeansConnected, reader
  <2>5. Connections'
    BY <2>b, <2>c
       DEF Connections, Follows, ShowsConnection, daemon, supervised, reader
  <2> QED BY <1>a, <2>1, <2>2, <2>3, <2>4, <2>5
<1>13. ASSUME NEW w \in Workers, Sleep(w) PROVE WorkerInv'
  BY <1>a, <1>13, WorkerMoved DEF Sleep
<1>14. ASSUME NEW w \in Workers, ShowSnapshot(w) PROVE WorkerInv'
  <2>1. TypeOK'
    <3>1. expected[w] - 1 \in 0 .. MaxSequence /\ stream[w] \in {1, 2, None}
      BY <1>14 DEF ShowSnapshot, TypeOK, Connections, Follows
    <3>2. shown' \in [Workers -> Notices]
      BY <1>14, <3>1, NoticeForms DEF ShowSnapshot, TypeOK, Notices
    <3>3. /\ has_connected_once' \in [Workers -> BOOLEAN]
          /\ is_reconnecting' \in [Workers -> BOOLEAN]
      BY <1>14 DEF ShowSnapshot, TypeOK
    <3> QED BY <1>a, <1>14, <3>2, <3>3 DEF ShowSnapshot, Goto, daemon, reader, TypeOK,
               HostInv, Notices
  <2>2. FedByDaemon'
    BY <1>14 DEF ShowSnapshot, daemon, supervised, FedByDaemon
  <2>3. UnbornAbsent'
    BY <1>14 DEF ShowSnapshot, Goto, UnbornAbsent, TypeOK
  <2>4. LiveMeansConnected'
    BY NoticeForms, <1>14 DEF ShowSnapshot, Goto, reader, LiveMeansConnected, TypeOK
  <2>5. Connections'
    BY NoticeForms, <1>14
       DEF ShowSnapshot, Goto, daemon, supervised, reader, Connections, Follows,
           ShowsConnection, TypeOK
  <2> QED BY <1>a, <2>1, <2>2, <2>3, <2>4, <2>5
<1>15. ASSUME NEW w \in Workers, ReadEvent(w) PROVE WorkerInv'
  <2>a. /\ phase[w] = "reading" /\ inbox[w] # << >>
        /\ UNCHANGED <<daemon, live, latest, target>>
    BY <1>15 DEF ReadEvent
  <2>b. CASE Abandon(w)
    BY <1>a, <2>a, <2>b, AbandonedKeepsInv
  <2>c. ASSUME Head(inbox[w]) = expected[w], ~torn[w],
               shown' = [shown EXCEPT ![w] = Live(stream[w], expected[w])],
               expected' = [expected EXCEPT ![w] = @ + 1],
               inbox' = [inbox EXCEPT ![w] = Tail(@)],
               UNCHANGED <<phase, stream, torn, has_connected_once, is_reconnecting>>
        PROVE  WorkerInv'
    <3>a. inbox[w] \in Seq(1 .. MaxSequence) /\ inbox[w] # << >>
      BY <2>a DEF TypeOK
    <3>b. Head(inbox[w]) \in 1 .. MaxSequence
      BY <3>a, HeadAndTail
    <3>1. expected[w] \in 1 .. MaxSequence /\ stream[w] \in {1, 2, None}
      BY <2>c, <3>b DEF TypeOK
    <3>2. /\ Tail(inbox[w]) \in Seq(1 .. MaxSequence)
          /\ Len(Tail(inbox[w])) = Len(inbox[w]) - 1 /\ Len(inbox[w]) \in Nat
          /\ \A i \in DOMAIN Tail(inbox[w]) : /\ i \in Nat /\ i + 1 \in DOMAIN inbox[w]
                                              /\ Tail(inbox[w])[i] = inbox[w][i + 1]
      BY <3>a, HeadAndTail
    <3>3. TypeOK'
      <4>1. shown' \in [Workers -> Notices]
        <5>1. expected[w] \in 0 .. MaxSequence
          BY <3>1
        <5>2. Live(stream[w], expected[w]) \in Notices
          BY <3>1, <5>1, NoticeForms
        <5>3. shown \in [Workers -> Notices]
          BY DEF TypeOK, Notices
        <5> QED BY <2>c, <5>2, <5>3
      <4>2. /\ expected' \in [Workers -> 0 .. MaxSequence + 1]
            /\ inbox' \in [Workers -> Seq(1 .. MaxSequence)]
        <5>1. expected[w] + 1 \in 0 .. MaxSequence + 1
          BY <3>1
        <5> QED BY <2>c, <3>2, <5>1 DEF TypeOK
      <4> QED BY <1>a, <2>a, <2>c, <4>1, <4>2 DEF daemon, TypeOK, HostInv, Notices
    <3>4. /\ \A v \in Workers \ {w} : /\ shown'[v] = shown[v] /\ inbox'[v] = inbox[v]
                                      /\ expected'[v] = expected[v]
          /\ shown'[w] = Live(stream[w], expected[w])
          /\ inbox'[w] = Tail(inbox[w]) /\ expected'[w] = expected[w] + 1
      BY <2>c DEF TypeOK
    <3>5. LiveMeansConnected'
      BY <2>a, <2>c, <3>4, NoticeForms DEF LiveMeansConnected
    <3>6. Follows(w)' /\ ShowsConnection(w)'
      <4>1. Follows(w)
        BY <2>a DEF Connections
      <4>2. \A i \in DOMAIN inbox'[w] : inbox'[w][i] = expected'[w] - 1 + i
        <5>1. \A i \in DOMAIN inbox[w] : inbox[w][i] = expected[w] - 1 + i
          BY <2>c, <4>1 DEF Follows
        <5>2. \A i \in DOMAIN Tail(inbox[w]) :
                Tail(inbox[w])[i] = expected[w] - 1 + (i + 1) /\ i \in Nat
          BY <3>2, <5>1
        <5>3. \A a, i \in Nat : a - 1 + (i + 1) = (a + 1) - 1 + i
          OBVIOUS
        <5>4. expected[w] \in Nat
          BY <3>1
        <5>5. \A i \in DOMAIN Tail(inbox[w]) :
                Tail(inbox[w])[i] = (expected[w] + 1) - 1 + i
          BY <5>2, <5>3, <5>4
        <5> QED BY <3>4, <5>5
      <4>3. live = w => /\ stream[w] = incarnation
                        /\ expected'[w] - 1 + Len(inbox'[w]) = sequence
        <5>1. live = w => /\ stream[w] = incarnation
                          /\ expected[w] - 1 + Len(inbox[w]) = sequence
          BY <2>c, <4>1 DEF Follows
        <5>2. \A a, b \in Nat : (a + 1) - 1 + (b - 1) = a - 1 + b
          OBVIOUS
        <5>3. expected[w] \in Nat /\ Len(inbox[w]) \in Nat
          BY <3>1, <3>2
        <5>4. expected'[w] - 1 + Len(inbox'[w])
                = (expected[w] + 1) - 1 + (Len(inbox[w]) - 1)
          BY <3>2, <3>4
        <5> QED BY <5>1, <5>2, <5>3, <5>4
      <4>4. ShowsConnection(w)'
        BY <3>1, <3>4, NoticeForms DEF ShowsConnection
      <4> QED BY <2>a, <2>c, <3>1, <3>4, <4>2, <4>3, <4>4 DEF Follows, daemon, supervised
    <3>7. Connections'
      BY <2>a, <2>c, <3>4, <3>6
         DEF Connections, Follows, ShowsConnection, daemon, supervised
    <3>8. FedByDaemon' /\ UnbornAbsent'
      BY <2>a, <2>c DEF FedByDaemon, UnbornAbsent, daemon, supervised
    <3> QED BY <1>a, <3>3, <3>5, <3>7, <3>8
  <2> QED BY <1>15, <2>b, <2>c DEF ReadEvent
<1>16. ASSUME NEW w \in Workers, ReadPartOfEvent(w) PROVE WorkerInv'
  <2>1. TypeOK'
    <3>1. inbox[w] \in Seq(1 .. MaxSequence) /\ inbox[w] # << >>
      BY <1>16 DEF ReadPartOfEvent, TypeOK
    <3>2. Tail(inbox[w]) \in Seq(1 .. MaxSequence)
      BY <3>1, HeadAndTail
    <3>3. torn' \in [Workers -> BOOLEAN]
      BY <1>16 DEF ReadPartOfEvent, TypeOK
    <3> QED BY <1>a, <1>16, <3>2, <3>3 DEF ReadPartOfEvent, Goto, daemon, notice,
               TypeOK, HostInv
  <2>2. FedByDaemon'
    BY <1>16 DEF ReadPartOfEvent, daemon, supervised, FedByDaemon
  <2>3. UnbornAbsent'
    BY <1>16 DEF ReadPartOfEvent, Goto, UnbornAbsent, TypeOK
  <2>4. LiveMeansConnected'
    BY <1>16 DEF ReadPartOfEvent, Goto, notice, LiveMeansConnected, TypeOK
  <2>5. Connections'
    BY <1>16
       DEF ReadPartOfEvent, Goto, daemon, supervised, notice, Connections,
           Follows, ShowsConnection, TypeOK
  <2> QED BY <1>a, <2>1, <2>2, <2>3, <2>4, <2>5
<1>17. ASSUME NEW w \in Workers, ReadNothing(w) PROVE WorkerInv'
  BY <1>a, <1>17, WorkerMoved DEF ReadNothing
<1>18. ASSUME NEW w \in Workers, ProbeSucceeds(w) PROVE WorkerInv'
  BY <1>a, <1>18, WorkerMoved DEF ProbeSucceeds
<1>19. ASSUME NEW w \in Workers, ProbeFails(w) PROVE WorkerInv'
  BY <1>a, <1>19, AbandonedKeepsInv DEF ProbeFails
<1> QED
  BY <1>0, <1>1, <1>2, <1>3, <1>4, <1>5, <1>6, <1>7, <1>8, <1>9, <1>10, <1>11, <1>12,
     <1>13, <1>14, <1>15, <1>16, <1>17, <1>18, <1>19 DEF Next, WorkerStep

LEMMA WorkerInvariant == Spec => []WorkerInv
<1> QED BY WorkerInit, WorkerInvStep, PTL DEF Spec

\* The worker's state is well typed: it never waits for a number, nor shows
\* one, beyond what a daemon can have sent.
THEOREM WorkerTypes == Spec => []TypeOK
<1>1. WorkerInv => TypeOK
  BY DEF WorkerInv
<1> QED BY <1>1, WorkerInvariant, PTL

\* LiveMeansConnected: a worker that has lost its connection has said so.
THEOREM LiveConnected == Spec => []LiveMeansConnected
<1>1. WorkerInv => LiveMeansConnected
  BY DEF WorkerInv
<1> QED BY <1>1, WorkerInvariant, PTL

\* InboxContinuesView: what a connection still holds is what comes after the
\* view, and all of it while the daemon feeds the connection.
THEOREM InboxContinues == Spec => []InboxContinuesView
<1>1. WorkerInv => InboxContinuesView
  <2> SUFFICES ASSUME WorkerInv, NEW w \in Workers,
                      phase[w] \in {"reading", "probing"}, ~torn[w]
               PROVE  /\ expected[w] = shown[w].sequence + 1
                      /\ \A i \in DOMAIN inbox[w] : inbox[w][i] = shown[w].sequence + i
                      /\ live = w => /\ stream[w] = incarnation
                                     /\ shown[w].sequence + Len(inbox[w]) = sequence
    BY DEF InboxContinuesView
  <2>1. Follows(w) /\ expected[w] = shown[w].sequence + 1
    BY DEF WorkerInv, Connections, ShowsConnection
  <2>2. shown[w].sequence \in Nat
    BY BoundsAssumption DEF WorkerInv, TypeOK
  <2>3. expected[w] - 1 = shown[w].sequence
    BY <2>1, <2>2
  <2> QED BY <2>1, <2>3 DEF Follows
<1> QED BY <1>1, WorkerInvariant, PTL

-----------------------------------------------------------------------------
(* What the web view is shown.                                              *)

\* Only the handling of a snapshot and of an event make a view live.
LEMMA LiveShown ==
  ASSUME WorkerInv, [Next]_vars, NEW w \in Workers,
         shown'[w] # shown[w], shown'[w].kind = "live"
  PROVE  ShowSnapshot(w) \/ ReadEvent(w)
<1> USE BoundsAssumption DEF WorkerInv
<1>1. shown \in [Workers -> Notices] /\ TypeOK
  BY DEF TypeOK, Notices
<1>2. ~UNCHANGED shown
  OBVIOUS
<1>3. ~Quit
  BY NoticeForms DEF Quit
<1>4. \E v \in Workers : WorkerStep(v)
  BY <1>2, <1>3
     DEF Next, vars, notice, Publish, Die, Listen, Supervise, End, StartWorker
<1>5. PICK v \in Workers : WorkerStep(v)
  BY <1>4
<1>6. ~Stop(v)
  BY <1>1, NoticeForms DEF Stop
<1>7. ~TellReconnecting(v)
  BY TellTypes, NoticeForms
<1>8. ~Abandon(v)
  <2> SUFFICES ASSUME Abandon(v) PROVE FALSE
    OBVIOUS
  <2>1. shown' = [shown EXCEPT ![v] = Reconnecting]
    BY DEF Abandon
  <2> QED BY <1>1, <2>1, NoticeForms
<1>9. ShowSnapshot(v) \/ ReadEvent(v)
  BY <1>2, <1>5, <1>6, <1>7, <1>8
     DEF WorkerStep, Connect, Refused, SubscribeSucceeds, SubscribeFails, Sleep,
         ReadPartOfEvent, ReadNothing, ProbeSucceeds, ProbeFails, notice
<1>10. v = w
  BY <1>1, <1>8, <1>9 DEF ShowSnapshot, ReadEvent, Abandon
<1> QED BY <1>9, <1>10

\* UpdatesAreConsecutive: the update after a live one is the next event of the
\* same stream, or says that the connection is lost.
THEOREM UpdatesConsecutive == Spec => UpdatesAreConsecutive
<1>1. ASSUME WorkerInv, [Next]_vars, NEW w \in Workers,
             shown[w].kind = "live", shown'[w].kind = "live", shown'[w] # shown[w]
      PROVE  /\ shown'[w].stream = shown[w].stream
             /\ shown'[w].sequence = shown[w].sequence + 1
  <2>1. phase[w] \in {"reading", "probing"} /\ stream[w] = shown[w].stream
    BY <1>1 DEF WorkerInv, LiveMeansConnected
  <2>2. ReadEvent(w)
    BY <1>1, <2>1, LiveShown DEF ShowSnapshot
  <2>3. ~Abandon(w)
    BY <1>1, NoticeForms DEF Abandon, WorkerInv, TypeOK
  <2>4. /\ shown' = [shown EXCEPT ![w] = Live(stream[w], expected[w])]
        /\ ~torn[w]
    BY <2>2, <2>3 DEF ReadEvent
  <2>5. shown'[w] = Live(stream[w], expected[w])
    BY <1>1, <2>4 DEF WorkerInv, TypeOK
  <2>6. expected[w] = shown[w].sequence + 1
    BY <1>1, <2>1, <2>4 DEF WorkerInv, Connections, ShowsConnection
  <2> QED BY <2>1, <2>5, <2>6, NoticeForms
<1>2. WorkerInv /\ [Next]_vars =>
        [\A w \in Workers :
           shown[w].kind = "live" /\ shown'[w].kind = "live" /\ shown'[w] # shown[w]
             => /\ shown'[w].stream = shown[w].stream
                /\ shown'[w].sequence = shown[w].sequence + 1]_vars
  BY <1>1
<1> QED BY <1>2, WorkerInvariant, PTL DEF Spec, UpdatesAreConsecutive
=============================================================================
