---------------------------- MODULE ServerRuntime ----------------------------
(***************************************************************************)
(* The daemon's server: one thread accepts connections, and hands each one *)
(* that gets a permit to a thread of its own                               *)
(* (crates/kesharon-daemon/src/runtime.rs, and serve_local_stream,         *)
(* serve_subscription and reject_busy_connection in lib.rs).  A connection *)
(* without permit is told so by the accepting thread itself.               *)
(*                                                                         *)
(* A connection carries one request.  What a command does is in Session;   *)
(* here it may announce an event, which the current subscriber's thread    *)
(* writes.  Every read and write has a deadline, which is how a client     *)
(* that is silent or gone stops being waited for.                          *)
(***************************************************************************)
EXTENDS Naturals, Sequences, FiniteSets

CONSTANTS
  Connections,     \* the connections clients make
  MaxConnections,  \* MAX_ACTIVE_CONNECTIONS
  None

ASSUME RuntimeAssumption ==
  /\ IsFiniteSet(Connections)
  /\ MaxConnections \in Nat \ {0}
  /\ None \notin Connections

VARIABLES
  listening,           \* whether the accept loop runs
  backlog,             \* connections made and not yet accepted
  active_connections,  \* the counter behind the permits
  thread,              \* what the daemon is doing for each connection
  subscriber,          \* connection whose thread is fed events
  unwritten,           \* whether its channel holds an event to write
  client,              \* where the client of each connection is
  request              \* what it asks for, from when it has sent it to the end

connections == <<backlog, active_connections, thread>>
feed        == <<subscriber, unwritten>>
clients     == <<client, request>>
vars        == <<listening, connections, feed, clients>>

\* The thread of a connection that has one holds its permit.
Holding == {"reading", "executing", "started", "replying", "subscribed",
            "leaving"}
PermitHolders == {c \in Connections : thread[c] \in Holding}

Rejecting == {c \in Connections : thread[c] = "rejecting"}

Init ==
  /\ listening = TRUE
  /\ backlog = << >>
  /\ active_connections = 0
  /\ thread = [c \in Connections |-> "none"]
  /\ subscriber = None
  /\ unwritten = [c \in Connections |-> FALSE]
  /\ client = [c \in Connections |-> "absent"]
  /\ request = [c \in Connections |-> None]

-----------------------------------------------------------------------------
(* Clients.                                                                 *)

Connect(c) ==
  /\ listening
  /\ client[c] = "absent"
  /\ client' = [client EXCEPT ![c] = "silent"]
  /\ backlog' = Append(backlog, c)
  /\ UNCHANGED <<listening, active_connections, thread, feed, request>>

Send(c) ==
  /\ client[c] = "silent"
  /\ client' = [client EXCEPT ![c] = "waiting"]
  /\ \E r \in {"health", "open", "subscribe"} :
       request' = [request EXCEPT ![c] = r]
  /\ UNCHANGED <<listening, connections, feed>>

\* A client gives up on its own deadline, closes, or dies.
HangUp(c) ==
  /\ client[c] \in {"silent", "waiting", "streaming"}
  /\ client' = [client EXCEPT ![c] = "gone"]
  /\ UNCHANGED <<listening, connections, feed, request>>

\* What the daemon writes reaches the client that waits for it, and only it.
Answer(c, what) ==
  client' = IF client[c] = "waiting" THEN [client EXCEPT ![c] = what]
            ELSE client

\* The daemon closes the connection.
Closed(c) ==
  client' = IF client[c] \in {"silent", "waiting", "streaming"}
            THEN [client EXCEPT ![c] = "closed"] ELSE client

-----------------------------------------------------------------------------
(* The accept loop.                                                         *)

Goto(c, s) == thread' = [thread EXCEPT ![c] = s]

Acceptable == listening /\ Rejecting = {} /\ backlog # << >>

Acquire == active_connections < MaxConnections

Accept ==
  /\ Acceptable
  /\ backlog' = Tail(backlog)
  /\ IF Acquire
     THEN /\ active_connections' = active_connections + 1
          /\ Goto(Head(backlog), "reading")
     ELSE /\ Goto(Head(backlog), "rejecting")
          /\ UNCHANGED active_connections
  /\ UNCHANGED <<listening, feed, clients>>

Forget(c) == request' = [request EXCEPT ![c] = None]

Drop(c) ==
  /\ Goto(c, "closed")
  /\ Closed(c)
  /\ Forget(c)

\* No thread can be spawned: the closure is dropped with permit and stream.
SpawnFails ==
  /\ Acceptable
  /\ Acquire
  /\ backlog' = Tail(backlog)
  /\ Drop(Head(backlog))
  /\ UNCHANGED <<listening, active_connections, feed>>

\* reject_busy_connection: the request is read to be answered by its id.  The
\* deadline may pass first, and the answer may not be written.
Reject(c) ==
  /\ thread[c] = "rejecting"
  /\ \/ /\ request[c] # None
        /\ Goto(c, "closed")
        /\ Answer(c, "answered")
        /\ Forget(c)
     \/ Drop(c)
  /\ UNCHANGED <<listening, backlog, active_connections, feed>>

\* Any other failure to accept ends the process, and every connection with it.
AcceptFails ==
  /\ listening /\ Rejecting = {}
  /\ listening' = FALSE
  /\ backlog' = << >>
  /\ active_connections' = 0
  /\ thread' = [c \in Connections |-> "closed"]
  /\ subscriber' = None
  /\ unwritten' = [c \in Connections |-> FALSE]
  /\ client' = [c \in Connections |->
                  IF client[c] \in {"silent", "waiting", "streaming"}
                  THEN "closed" ELSE client[c]]
  /\ request' = [c \in Connections |-> None]

-----------------------------------------------------------------------------
(* The thread of a connection.                                              *)

\* read_authenticated_request, and the dispatch on the method.  A subscription
\* has its snapshot to write before any event.
ReadRequest(c) ==
  /\ thread[c] = "reading"
  /\ request[c] # None
  /\ IF request[c] = "subscribe"
     THEN /\ Goto(c, "subscribed")
          /\ subscriber' = c
          /\ unwritten' = [unwritten EXCEPT ![c] = TRUE]
     ELSE /\ Goto(c, "executing")
          /\ UNCHANGED feed
  /\ UNCHANGED <<listening, backlog, active_connections, clients>>

\* Mutant: the permit is given back here, and again at the end.
ReadFailsReleasing(c) ==
  /\ thread[c] = "reading"
  /\ Goto(c, "leaving")
  /\ active_connections' = active_connections - 1
  /\ UNCHANGED <<listening, backlog, feed, clients>>

\* The deadline passes, or what was sent is not a request with the token.
ReadFails(c) ==
  /\ thread[c] = "reading"
  /\ Goto(c, "leaving")
  /\ UNCHANGED <<listening, backlog, active_connections, feed, clients>>

\* Mutant: an event waits for the subscriber's thread, which may have ended.
EmitPatiently ==
  IF subscriber = None THEN UNCHANGED feed
  ELSE /\ thread[subscriber] = "subscribed"
       /\ unwritten' = [unwritten EXCEPT ![subscriber] = TRUE]
       /\ UNCHANGED subscriber

\* emit_locked, as far as it concerns the subscriber's thread: its channel has
\* something to write, or it is full or without receiver and cut off.
Emit ==
  IF subscriber = None THEN UNCHANGED feed
  ELSE \/ /\ thread[subscriber] = "subscribed"
          /\ unwritten' = [unwritten EXCEPT ![subscriber] = TRUE]
          /\ UNCHANGED subscriber
       \/ /\ thread[subscriber] # "subscribed" \/ unwritten[subscriber]
          /\ subscriber' = None
          /\ UNCHANGED unwritten

\* Health and cancel announce nothing, an open its start and its end.
Execute(c) ==
  /\ \/ /\ thread[c] = "executing" /\ request[c] = "health"
        /\ Goto(c, "replying")
        /\ UNCHANGED feed
     \/ /\ thread[c] = "executing" /\ request[c] = "open"
        /\ Goto(c, "started")
        /\ Emit
     \/ /\ thread[c] = "started"
        /\ Goto(c, "replying")
        /\ Emit
  /\ UNCHANGED <<listening, backlog, active_connections, clients>>

\* The response is written, or its deadline passes.
WriteResponse(c) ==
  /\ thread[c] = "replying"
  /\ Goto(c, "leaving")
  /\ \/ Answer(c, "answered")
     \/ UNCHANGED client
  /\ UNCHANGED <<listening, backlog, active_connections, feed, request>>

\* The snapshot, or events, are written to the subscriber...
WriteMessages(c) ==
  /\ thread[c] = "subscribed"
  /\ unwritten[c]
  /\ unwritten' = [unwritten EXCEPT ![c] = FALSE]
  /\ Answer(c, "streaming")
  /\ UNCHANGED <<listening, connections, subscriber, request>>

\* ... or cannot be.
WriteFails(c) ==
  /\ thread[c] = "subscribed"
  /\ unwritten[c]
  /\ unwritten' = [unwritten EXCEPT ![c] = FALSE]
  /\ Goto(c, "leaving")
  /\ UNCHANGED <<listening, backlog, active_connections, subscriber, clients>>

\* Mutant: a subscription lasts until its client is seen to be gone.
EndOfStreamIfGone(c) ==
  /\ thread[c] = "subscribed"
  /\ ~unwritten[c]
  /\ client[c] = "gone"
  /\ Goto(c, "leaving")
  /\ UNCHANGED <<listening, backlog, active_connections, feed, clients>>

\* recv fails: the channel is drained and the session has dropped its end.
EndOfStream(c) ==
  /\ thread[c] = "subscribed"
  /\ ~unwritten[c]
  /\ subscriber # c
  /\ Goto(c, "leaving")
  /\ UNCHANGED <<listening, backlog, active_connections, feed, clients>>

\* Mutant: the permit of a subscription is not given back.
LeaveKeepingPermit(c) ==
  /\ thread[c] = "leaving"
  /\ active_connections' = IF request[c] = "subscribe" THEN active_connections
                           ELSE active_connections - 1
  /\ Drop(c)
  /\ UNCHANGED <<listening, backlog, feed>>

\* The thread ends: its permit is dropped, then its stream.
Leave(c) ==
  /\ thread[c] = "leaving"
  /\ active_connections' = active_connections - 1
  /\ Drop(c)
  /\ UNCHANGED <<listening, backlog, feed>>

-----------------------------------------------------------------------------
AcceptLoopStep == Accept \/ SpawnFails \/ \E c \in Connections : Reject(c)

ThreadStep(c) ==
  \/ ReadRequest(c) \/ ReadFails(c) \/ Execute(c) \/ WriteResponse(c)
  \/ WriteMessages(c) \/ WriteFails(c) \/ EndOfStream(c) \/ Leave(c)

ClientStep(c) == Connect(c) \/ Send(c) \/ HangUp(c)

Next == \/ AcceptLoopStep \/ AcceptFails
        \/ \E c \in Connections : ThreadStep(c) \/ ClientStep(c)

Spec == Init /\ [][Next]_vars

\* The accept loop and the threads run, and no read, write or accept outlasts
\* its deadline.  Clients may do nothing for good.
FairSpec == /\ Spec
            /\ WF_vars(AcceptLoopStep)
            /\ \A c \in Connections : WF_vars(ThreadStep(c))

-----------------------------------------------------------------------------
\* Type invariant.
TypeOK ==
  /\ listening \in BOOLEAN
  /\ backlog \in Seq(Connections)
  /\ active_connections \in Nat
  /\ thread \in [Connections -> Holding \cup {"none", "rejecting", "closed"}]
  /\ subscriber \in Connections \cup {None}
  /\ unwritten \in [Connections -> BOOLEAN]
  /\ client \in [Connections -> {"absent", "silent", "waiting", "streaming",
                                 "answered", "closed", "gone"}]
  /\ request \in [Connections -> {None, "health", "open", "subscribe"}]

\* The counter is the number of threads that hold a permit, whatever way they
\* left, and never exceeds the limit: no permit is lost or given back twice.
PermitsMatchThreads ==
  /\ active_connections = Cardinality(PermitHolders)
  /\ active_connections <= MaxConnections

\* Under FairSpec, a client that has sent its request and stays on is answered
\* or turned away, however many others are silent or gone.
RequestsAreAnswered ==
  \A c \in Connections : client[c] = "waiting" ~> client[c] # "waiting"

\* Under FairSpec, every permit comes back, read or unread, superseded or cut
\* off; only the subscription in force may keep one.
PermitsComeBack ==
  \A c \in Connections :
    thread[c] \in Holding ~> thread[c] \notin Holding \/ subscriber = c

\* ADR 0004: "Command operations never block the accept loop": while a permit is
\* free, no connection waits to be accepted for another's client to send its
\* request.
AcceptLoopIsFree ==
  \A c \in Rejecting : client[c] = "silent" /\ Acquire => backlog = << >>
=============================================================================
