---------------------------- MODULE StreamWorker ----------------------------
(***************************************************************************)
(* The desktop host's event stream worker                                  *)
(* (apps/desktop/src-tauri/src/lib.rs, execute_subscribe_daemon_events).   *)
(* Each call from the web view starts a worker that keeps one subscription *)
(* to the daemon open, forwards what it reads to the web view, and         *)
(* reconnects when the daemon is lost.  A new call supersedes the worker   *)
(* of the previous one by setting its cancel flag.                         *)
(*                                                                         *)
(* The daemon process is the one the host supervises (Supervisor), and its *)
(* stream is what subscribers see of it (Session, WorkspaceFeed): numbered *)
(* per incarnation, sent to the latest subscriber, and cut off when the    *)
(* client lags by Capacity messages.  Events carry only their number here. *)
(***************************************************************************)
EXTENDS Naturals, Sequences

CONSTANTS
  MaxSubscriptions,  \* bound: calls of subscribe_daemon_events
  MaxSequence,       \* bound: events of one daemon incarnation
  Capacity,          \* messages a client may lag behind
  None

Workers == 1 .. MaxSubscriptions

ASSUME BoundsAssumption ==
  /\ MaxSubscriptions \in Nat /\ MaxSequence \in Nat /\ Capacity \in Nat \ {0}
  /\ None \notin Workers

VARIABLES
  incarnation,  \* the last daemon: its stream id is new
  alive, listening, client, child, restart_used, step, host,  \* as supervised
  sequence,     \* number of the last event of the daemon that is alive
  live,         \* worker whose connection the daemon feeds
  latest,       \* the worker whose cancel flag is not set
  phase,        \* of each worker: where it is in its loop
  target,       \* incarnation of the client it cloned, while it uses it
  stream,       \* current_stream_id of its connection, None without one
  inbox,        \* event numbers it can still read from its connection
  torn,         \* whether a frame was abandoned half read
  expected,     \* expected_sequence
  has_connected_once, is_reconnecting,
  shown         \* the last update it sent to the web view, until it stops

Host == INSTANCE Supervisor

supervised == <<incarnation, alive, listening, client, child, restart_used,
                step, host>>
daemon == <<supervised, sequence>>
reader == <<stream, inbox, torn, expected>>
notice == <<has_connected_once, is_reconnecting, shown>>
vars   == <<daemon, live, latest, phase, target, reader, notice>>

Nothing      == [kind |-> "nothing", stream |-> None, sequence |-> 0]
Reconnecting == [kind |-> "reconnecting", stream |-> None, sequence |-> 0]
Live(i, n)   == [kind |-> "live", stream |-> i, sequence |-> n]

Init ==
  /\ Host!Init
  /\ sequence = 0 /\ live = None /\ latest = 0
  /\ phase = [w \in Workers |-> "absent"]
  /\ target = [w \in Workers |-> None]
  /\ stream = [w \in Workers |-> None]
  /\ inbox = [w \in Workers |-> << >>]
  /\ torn = [w \in Workers |-> FALSE]
  /\ expected = [w \in Workers |-> 0]
  /\ has_connected_once = [w \in Workers |-> FALSE]
  /\ is_reconnecting = [w \in Workers |-> FALSE]
  /\ shown = [w \in Workers |-> Nothing]

-----------------------------------------------------------------------------
(* The daemon and its supervisor.                                           *)

\* The client's daemon accepts requests.
Reachable(c) == c \in listening

\* An event is fed to the live connection, or costs it the feed.
Publish ==
  /\ Reachable(incarnation)
  /\ sequence < MaxSequence
  /\ sequence' = sequence + 1
  /\ IF live # None /\ stream[live] # None /\ Len(inbox[live]) < Capacity
     THEN /\ inbox' = [inbox EXCEPT ![live] = Append(@, sequence + 1)]
          /\ UNCHANGED live
     ELSE /\ live' = None
          /\ UNCHANGED inbox
  /\ UNCHANGED <<supervised, latest, phase, target, stream, torn, expected, notice>>

\* The connections and the numbers of a daemon go with it; what it has sent
\* can still be read.
Die ==
  /\ Host!Die
  /\ sequence' = 0 /\ live' = None
  /\ UNCHANGED <<latest, phase, target, reader, notice>>

Supervise ==
  /\ Host!Watch
  /\ UNCHANGED <<sequence, live, latest, phase, target, reader, notice>>

Listen ==
  /\ Host!Listen
  /\ UNCHANGED <<sequence, live, latest, phase, target, reader, notice>>

\* The user quits: the web view, and with it all that its workers are for, is
\* gone.
Quit ==
  /\ Host!Exit
  /\ sequence' = 0 /\ live' = None
  /\ phase' = [w \in Workers |-> "absent"]
  /\ target' = [w \in Workers |-> None]
  /\ stream' = [w \in Workers |-> None]
  /\ inbox' = [w \in Workers |-> << >>]
  /\ torn' = [w \in Workers |-> FALSE]
  /\ expected' = [w \in Workers |-> 0]
  /\ has_connected_once' = [w \in Workers |-> FALSE]
  /\ is_reconnecting' = [w \in Workers |-> FALSE]
  /\ shown' = [w \in Workers |-> Nothing]
  /\ UNCHANGED latest

End ==
  /\ Host!End
  /\ UNCHANGED <<sequence, live, latest, phase, target, reader, notice>>

-----------------------------------------------------------------------------
(* The worker's loop.                                                       *)

\* Mutant: the flag of the previous subscription is not set.
CancelledNever(w) == w \notin Workers

Cancelled(w) == w # latest

Goto(w, p) == phase' = [phase EXCEPT ![w] = p]

Disconnect(w) ==
  /\ stream' = [stream EXCEPT ![w] = None]
  /\ inbox' = [inbox EXCEPT ![w] = << >>]
  /\ torn' = [torn EXCEPT ![w] = FALSE]
  /\ expected' = [expected EXCEPT ![w] = 0]

\* execute_subscribe_daemon_events: supersede the previous worker, spawn one.
StartWorker ==
  /\ host = "running"
  /\ latest < MaxSubscriptions
  /\ latest' = latest + 1
  /\ Goto(latest + 1, "connecting")
  /\ UNCHANGED <<daemon, live, target, reader, notice>>

Stop(w) ==
  /\ phase[w] \in {"connecting", "subscribed", "refused", "reading"}
  /\ Cancelled(w)
  /\ Goto(w, "stopped")
  /\ Disconnect(w)
  /\ target' = [target EXCEPT ![w] = None]
  /\ has_connected_once' = [has_connected_once EXCEPT ![w] = FALSE]
  /\ is_reconnecting' = [is_reconnecting EXCEPT ![w] = FALSE]
  /\ shown' = [shown EXCEPT ![w] = Nothing]
  /\ UNCHANGED <<daemon, live, latest>>

\* The web view is told once that a connection it knew of is gone.
TellReconnecting(w) ==
  /\ IF has_connected_once[w] /\ ~is_reconnecting[w]
     THEN /\ shown' = [shown EXCEPT ![w] = Reconnecting]
          /\ is_reconnecting' = [is_reconnecting EXCEPT ![w] = TRUE]
     ELSE UNCHANGED <<shown, is_reconnecting>>
  /\ UNCHANGED has_connected_once

Connect(w) ==
  /\ phase[w] = "connecting"
  /\ ~Cancelled(w)
  /\ \/ /\ client = None
        /\ TellReconnecting(w)
        /\ Goto(w, "sleeping")
        /\ UNCHANGED target
     \/ /\ client # None
        /\ target' = [target EXCEPT ![w] = client]
        /\ Goto(w, "subscribing")
        /\ UNCHANGED notice
  /\ UNCHANGED <<daemon, live, latest, reader>>

\* DaemonClient::subscribe, past the check of the cancel flag.
SubscribeSucceeds(w) ==
  /\ phase[w] = "subscribing"
  /\ Reachable(target[w])
  /\ live' = w
  /\ stream' = [stream EXCEPT ![w] = incarnation]
  /\ inbox' = [inbox EXCEPT ![w] = << >>]
  /\ expected' = [expected EXCEPT ![w] = sequence + 1]
  /\ target' = [target EXCEPT ![w] = None]
  /\ Goto(w, "subscribed")
  /\ UNCHANGED <<daemon, latest, torn, notice>>

\* Unreachable, busy, or too slow to answer; in the last case the daemon may
\* have made the abandoned connection its subscriber.
SubscribeFails(w) ==
  /\ phase[w] = "subscribing"
  /\ \/ UNCHANGED live
     \/ Reachable(target[w]) /\ live' = None
  /\ Goto(w, "refused")
  /\ UNCHANGED <<daemon, latest, target, reader, notice>>

\* Mutant: the next attempt is made with the same client.
RefusedKeepingClient(w) ==
  /\ phase[w] = "refused"
  /\ ~Cancelled(w)
  /\ TellReconnecting(w)
  /\ Goto(w, "subscribing")
  /\ UNCHANGED <<daemon, live, latest, target, reader>>

Refused(w) ==
  /\ phase[w] = "refused"
  /\ ~Cancelled(w)
  /\ TellReconnecting(w)
  /\ target' = [target EXCEPT ![w] = None]
  /\ Goto(w, "sleeping")
  /\ UNCHANGED <<daemon, live, latest, reader>>

\* The back-off delay.
Sleep(w) ==
  /\ phase[w] = "sleeping"
  /\ Goto(w, "connecting")
  /\ UNCHANGED <<daemon, live, latest, target, reader, notice>>

ShowSnapshot(w) ==
  /\ phase[w] = "subscribed"
  /\ ~Cancelled(w)
  /\ shown' = [shown EXCEPT ![w] = Live(stream[w], expected[w] - 1)]
  /\ has_connected_once' = [has_connected_once EXCEPT ![w] = TRUE]
  /\ is_reconnecting' = [is_reconnecting EXCEPT ![w] = FALSE]
  /\ Goto(w, "reading")
  /\ UNCHANGED <<daemon, live, latest, target, reader>>

\* Mutant: the web view is not told.
AbandonQuietly(w) ==
  /\ Goto(w, "connecting")
  /\ Disconnect(w)
  /\ UNCHANGED notice

\* Leave a connection that is out of step or broken for a new one.
Abandon(w) ==
  /\ shown' = [shown EXCEPT ![w] = Reconnecting]
  /\ is_reconnecting' = [is_reconnecting EXCEPT ![w] = TRUE]
  /\ Goto(w, "connecting")
  /\ Disconnect(w)
  /\ UNCHANGED has_connected_once

\* Mutant: expected_sequence does not advance.
ReadEventExpectingSame(w) ==
  /\ phase[w] = "reading"
  /\ ~Cancelled(w)
  /\ inbox[w] # << >>
  /\ IF Head(inbox[w]) = expected[w] /\ ~torn[w]
     THEN /\ shown' = [shown EXCEPT ![w] = Live(stream[w], expected[w])]
          /\ inbox' = [inbox EXCEPT ![w] = Tail(@)]
          /\ UNCHANGED <<phase, stream, torn, expected, has_connected_once,
                         is_reconnecting>>
     ELSE Abandon(w)
  /\ UNCHANGED <<daemon, live, latest, target>>

\* Mutant: the sequence number is not compared.
ReadEventUnchecked(w) ==
  /\ phase[w] = "reading"
  /\ ~Cancelled(w)
  /\ inbox[w] # << >>
  /\ shown' = [shown EXCEPT ![w] = Live(stream[w], Head(inbox[w]))]
  /\ expected' = [expected EXCEPT ![w] = Head(inbox[w]) + 1]
  /\ inbox' = [inbox EXCEPT ![w] = Tail(@)]
  /\ UNCHANGED <<daemon, live, latest, phase, target, stream, torn,
                 has_connected_once, is_reconnecting>>

\* Mutant: the event is read, but not forwarded.
ReadEventUnsent(w) ==
  /\ phase[w] = "reading"
  /\ ~Cancelled(w)
  /\ inbox[w] # << >>
  /\ expected' = [expected EXCEPT ![w] = @ + 1]
  /\ inbox' = [inbox EXCEPT ![w] = Tail(@)]
  /\ UNCHANGED <<daemon, live, latest, phase, target, stream, torn, notice>>

ReadEvent(w) ==
  /\ phase[w] = "reading"
  /\ ~Cancelled(w)
  /\ inbox[w] # << >>
  /\ IF Head(inbox[w]) = expected[w] /\ ~torn[w]
     THEN /\ shown' = [shown EXCEPT ![w] = Live(stream[w], expected[w])]
          /\ expected' = [expected EXCEPT ![w] = @ + 1]
          /\ inbox' = [inbox EXCEPT ![w] = Tail(@)]
          /\ UNCHANGED <<phase, stream, torn, has_connected_once,
                         is_reconnecting>>
     ELSE Abandon(w)
  /\ UNCHANGED <<daemon, live, latest, target>>

\* The read timeout passes inside a frame: what was read of it is lost, and
\* the next read will take the rest for the start of a frame.
ReadPartOfEvent(w) ==
  /\ phase[w] = "reading"
  /\ ~Cancelled(w)
  /\ inbox[w] # << >>
  /\ inbox' = [inbox EXCEPT ![w] = Tail(@)]
  /\ torn' = [torn EXCEPT ![w] = TRUE]
  /\ Goto(w, "probing")
  /\ UNCHANGED <<daemon, live, latest, target, stream, expected, notice>>

\* Nothing to read within the timeout.  The end of the stream is no
\* different: read_exact_with_timeout waits at the end of file, too.
ReadNothing(w) ==
  /\ phase[w] = "reading"
  /\ ~Cancelled(w)
  /\ inbox[w] = << >>
  /\ Goto(w, "probing")
  /\ UNCHANGED <<daemon, live, latest, target, reader, notice>>

\* A health request, through the client of the moment.
ProbeSucceeds(w) ==
  /\ phase[w] = "probing"
  /\ client # None /\ Reachable(client)
  /\ Goto(w, "reading")
  /\ UNCHANGED <<daemon, live, latest, target, reader, notice>>

ProbeFails(w) ==
  /\ phase[w] = "probing"
  /\ Abandon(w)
  /\ UNCHANGED <<daemon, live, latest, target>>

-----------------------------------------------------------------------------
WorkerStep(w) ==
  \/ Stop(w) \/ Connect(w) \/ SubscribeSucceeds(w) \/ SubscribeFails(w)
  \/ Refused(w) \/ Sleep(w) \/ ShowSnapshot(w)
  \/ ReadEvent(w) \/ ReadPartOfEvent(w) \/ ReadNothing(w)
  \/ ProbeSucceeds(w) \/ ProbeFails(w)

Next == \/ Publish \/ Die \/ Listen \/ Supervise \/ Quit \/ End
        \/ StartWorker
        \/ \E w \in Workers : WorkerStep(w)

Spec == Init /\ [][Next]_vars

\* Worker tasks and the supervisor run; every wait of theirs has a timeout.
\* A daemon that can be reached for good does not refuse every subscription,
\* nor a healthy one every health request.
Fairness ==
  /\ WF_vars(Supervise) /\ WF_vars(Listen)
  /\ \A w \in Workers :
       /\ WF_vars(WorkerStep(w))
       /\ SF_vars(SubscribeSucceeds(w))
       /\ SF_vars(ProbeSucceeds(w))

FairSpec == Spec /\ Fairness

-----------------------------------------------------------------------------
\* Type invariant.
TypeOK ==
  /\ Host!TypeOK
  /\ sequence \in 0 .. MaxSequence
  /\ live \in Workers \cup {None}
  /\ latest \in 0 .. MaxSubscriptions
  /\ phase \in [Workers -> {"absent", "connecting", "subscribing", "refused",
                            "sleeping", "subscribed", "reading", "probing",
                            "stopped"}]
  /\ target \in [Workers -> {1, 2, None}]
  /\ stream \in [Workers -> {1, 2, None}]
  /\ inbox \in [Workers -> Seq(1 .. MaxSequence)]
  /\ torn \in [Workers -> BOOLEAN]
  /\ expected \in [Workers -> 0 .. MaxSequence + 1]
  /\ has_connected_once \in [Workers -> BOOLEAN]
  /\ is_reconnecting \in [Workers -> BOOLEAN]
  /\ shown \in [Workers -> [kind : {"nothing", "reconnecting", "live"},
                            stream : {1, 2, None},
                            sequence : 0 .. MaxSequence]]

\* A worker that has lost its connection has told the web view so: the view
\* is "live" only while the worker reads the connection that made it so.
LiveMeansConnected ==
  \A w \in Workers : shown[w].kind = "live" =>
    phase[w] \in {"reading", "probing"} /\ stream[w] = shown[w].stream

\* The supervisor keeps to the last daemon, and keeps hold of it.
HostHoldsDaemon == Host!HostHoldsDaemon

\* What can still be read continues what was shown, and reaches up to the
\* daemon's last event while it feeds this worker, unless a frame was torn.
InboxContinuesView ==
  \A w \in Workers : phase[w] \in {"reading", "probing"} /\ ~torn[w] =>
    /\ expected[w] = shown[w].sequence + 1
    /\ \A i \in DOMAIN inbox[w] : inbox[w][i] = shown[w].sequence + i
    /\ live = w => /\ stream[w] = incarnation
                   /\ shown[w].sequence + Len(inbox[w]) = sequence

\* The web view is never made to infer: between two live updates of a worker
\* with no notice of reconnection, the second is the next event of the same
\* stream.
UpdatesAreConsecutive ==
  [][\A w \in Workers :
       shown[w].kind = "live" /\ shown'[w].kind = "live"
       /\ shown'[w] # shown[w]
         => /\ shown'[w].stream = shown[w].stream
            /\ shown'[w].sequence = shown[w].sequence + 1]_vars

InSync(w) == shown[w] = Live(incarnation, sequence)

\* A superseded worker ends, and lets go of its connection, unless the
\* application ends first.
SupersededWorkerStops ==
  \A w \in Workers :
    phase[w] # "absent" /\ w # latest ~> phase[w] \in {"stopped", "absent"}

\* A worker the daemon goes on feeding shows the daemon's state in the end,
\* unless it tore a frame.
FedWorkerCatchesUp ==
  \A w \in Workers :
    live = w /\ phase[w] = "reading" ~>
      InSync(w) \/ live # w \/ w # latest \/ torn[w]

\* Nobody else needs the daemon to be up: it is the supervisor that gets a
\* client of the right one to the worker.
Settled(w) == latest = w /\ host = "running" /\ Reachable(incarnation)

\* Whatever happened before, a worker that is not superseded any more, with a
\* daemon that stays up, ends its "reconnecting" with a live view.
ReconnectingEnds ==
  \A w \in Workers : <>[]Settled(w) => []<>(shown[w].kind = "live")

\* ADR 0004: "Client state is guaranteed to reconcile with daemon authority
\* after network drops, restarts, or buffer overflows."  Frames torn by the
\* read timeout are left aside.
ClientReconciles ==
  \A w \in Workers : <>[]Settled(w) => []<>(InSync(w) \/ torn[w])

\* PROJECT.md, F9: "Clean replacement of active stream channel when new
\* subscription is requested": a superseded worker does not take the feed
\* away from the one that replaced it.
CleanReplacement ==
  [][live = latest => live' \in {latest, None}]_vars
=============================================================================
