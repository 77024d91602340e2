-------------------------- MODULE SessionFeedProofs --------------------------
(***************************************************************************)
(* Theorems about the events a subscription is sent, and about what a      *)
(* client that applies them knows.                                         *)
(***************************************************************************)
EXTENDS SessionProofs, SessionFeed, WellFoundedInduction

-----------------------------------------------------------------------------
(* Applying the events of a queue one by one.                               *)

\* Such a trajectory from v: what is known after each of the events.
Follows(f, v, q, n) ==
  f = [i \in 0 .. n |-> IF i = 0 THEN v ELSE Apply(f[i - 1], q[i])]

Trajectory(v, q) == CHOOSE f : Follows(f, v, q, Len(q))

LEMMA ViewAfterUnfolded ==
  ASSUME NEW s, NEW i
  PROVE  ViewAfter(s, i) = Trajectory(view[s], queue[s])[i]
  BY DEF ViewAfter, Trajectory, Follows

LEMMA ApplyType ==
  ASSUME NEW v \in Views, NEW e \in Events
  PROVE  Apply(v, e) \in Views
  BY DEF Apply, Views, Events

\* A set of natural numbers has a least one.
LEMMA LeastExists ==
  ASSUME NEW T \in SUBSET Nat, T # {}
  PROVE  \E m \in T : \A k \in T : m <= k
<1> DEFINE Less == {ss \in Nat \X Nat : ss[1] < ss[2]}
<1>1. IsWellFoundedOn(Less, Nat)
  BY NatLessThanWellFounded DEF OpToRel
<1> HIDE DEF Less
<1>2. PICK m \in T : \A k \in T : ~ (<<k, m>> \in Less)
  BY <1>1, WFMin
<1>3. \A k \in T : ~ (k < m)
  BY <1>2 DEF Less
<1> QED
  BY <1>2, <1>3

\* There is a trajectory for every view and queue.
LEMMA TrajectoryExists ==
  ASSUME NEW v \in Views, NEW q \in Seq(Events)
  PROVE  \E f \in [0 .. Len(q) -> Views] : Follows(f, v, q, Len(q))
<1> DEFINE T == {n \in 0 .. Len(q) :
                   ~ \E f \in [0 .. n -> Views] : Follows(f, v, q, n)}
<1>1. Len(q) \in Nat /\ \A i \in 1 .. Len(q) : q[i] \in Events
  OBVIOUS
<1> SUFFICES ASSUME T # {} PROVE FALSE
  BY <1>1
<1>2. PICK m \in T : \A k \in T : m <= k
  <2>1. T \in SUBSET Nat
    BY <1>1
  <2> HIDE DEF T
  <2> QED
    BY <2>1, LeastExists
<1>3. m # 0
  <2>1. [i \in 0 .. 0 |-> v] \in [0 .. 0 -> Views]
    OBVIOUS
  <2>2. Follows([i \in 0 .. 0 |-> v], v, q, 0)
    BY DEF Follows
  <2> QED
    BY <2>1, <2>2, <1>1
<1>4. m \in 1 .. Len(q) /\ m - 1 \in 0 .. Len(q) /\ m - 1 \notin T
  BY <1>1, <1>2, <1>3
<1>5. PICK f \in [0 .. m - 1 -> Views] : Follows(f, v, q, m - 1)
  BY <1>4
<1> DEFINE g == [i \in 0 .. m |-> IF i = m THEN Apply(f[m - 1], q[m])
                                  ELSE f[i]]
<1>6. g \in [0 .. m -> Views]
  BY <1>1, <1>4, <1>5, ApplyType
<1>7. Follows(g, v, q, m)
  <2>1. ASSUME NEW i \in 0 .. m
        PROVE  g[i] = IF i = 0 THEN v ELSE Apply(g[i - 1], q[i])
    <3>1. CASE i = m
      BY <1>4, <3>1
    <3>2. CASE i \in 1 .. m - 1
      BY <1>4, <1>5, <3>2 DEF Follows
    <3>3. CASE i = 0
      BY <1>4, <1>5, <3>3 DEF Follows
    <3> QED
      BY <1>4, <3>1, <3>2, <3>3
  <2> QED
    BY <2>1 DEF Follows
<1> QED
  BY <1>2, <1>6, <1>7

\* And only one.
LEMMA TrajectoryUnique ==
  ASSUME NEW v, NEW q, NEW n \in Nat, NEW f, NEW g,
         Follows(f, v, q, n), Follows(g, v, q, n)
  PROVE  f = g
<1> DEFINE T == {i \in 0 .. n : f[i] # g[i]}
<1>1. \A i \in 0 .. n : /\ f[i] = IF i = 0 THEN v ELSE Apply(f[i - 1], q[i])
                        /\ g[i] = IF i = 0 THEN v ELSE Apply(g[i - 1], q[i])
  BY DEF Follows
<1>2. T = {}
  <2> SUFFICES ASSUME T # {} PROVE FALSE
    OBVIOUS
  <2>1. PICK m \in T : \A k \in T : m <= k
    <3>1. T \in SUBSET Nat
      OBVIOUS
    <3> HIDE DEF T
    <3> QED
      BY <3>1, LeastExists
  <2>2. m # 0
    BY <1>1, <2>1
  <2>3. m - 1 \in 0 .. n /\ m - 1 \notin T
    BY <2>1, <2>2
  <2> QED
    BY <1>1, <2>1, <2>2, <2>3
<1>3. \A i \in 0 .. n : f[i] = g[i]
  BY <1>2
<1>4. /\ f = [i \in 0 .. n |-> f[i]]
      /\ g = [i \in 0 .. n |-> g[i]]
  BY DEF Follows
<1> QED
  BY <1>3, <1>4

LEMMA TrajectoryIs ==
  ASSUME NEW v \in Views, NEW q \in Seq(Events)
  PROVE  /\ Trajectory(v, q) \in [0 .. Len(q) -> Views]
         /\ Follows(Trajectory(v, q), v, q, Len(q))
         /\ \A f : Follows(f, v, q, Len(q)) => f = Trajectory(v, q)
<1>1. PICK f \in [0 .. Len(q) -> Views] : Follows(f, v, q, Len(q))
  BY TrajectoryExists
<1>2. Follows(Trajectory(v, q), v, q, Len(q))
  BY <1>1 DEF Trajectory
<1>3. Len(q) \in Nat
  OBVIOUS
<1> QED
  BY <1>1, <1>2, <1>3, TrajectoryUnique

\* What holds of a trajectory, step by step.
LEMMA TrajectorySteps ==
  ASSUME NEW v \in Views, NEW q \in Seq(Events)
  PROVE  /\ Trajectory(v, q)[0] = v
         /\ \A i \in 1 .. Len(q) :
              Trajectory(v, q)[i] = Apply(Trajectory(v, q)[i - 1], q[i])
<1>1. Follows(Trajectory(v, q), v, q, Len(q)) /\ Len(q) \in Nat
  BY TrajectoryIs
<1> DEFINE f == Trajectory(v, q)
<1>2. f = [i \in 0 .. Len(q) |-> IF i = 0 THEN v ELSE Apply(f[i - 1], q[i])]
  BY <1>1 DEF Follows
<1> HIDE DEF f
<1>3. \A i \in 0 .. Len(q) : f[i] = IF i = 0 THEN v ELSE Apply(f[i - 1], q[i])
  BY <1>2
<1> QED
  BY <1>1, <1>3 DEF f

\* An event at the end of the queue adds to the trajectory.
LEMMA TrajectoryAppend ==
  ASSUME NEW v \in Views, NEW q \in Seq(Events), NEW e \in Events
  PROVE  LET new == Trajectory(v, Append(q, e))
         IN /\ \A i \in 0 .. Len(q) : new[i] = Trajectory(v, q)[i]
            /\ new[Len(q) + 1] = Apply(Trajectory(v, q)[Len(q)], e)
<1> DEFINE f == Trajectory(v, q)
           p == Append(q, e)
           g == [i \in 0 .. Len(q) + 1 |->
                   IF i = Len(q) + 1 THEN Apply(f[Len(q)], e) ELSE f[i]]
<1>1. /\ Len(q) \in Nat /\ p \in Seq(Events) /\ Len(p) = Len(q) + 1
      /\ p[Len(q) + 1] = e /\ \A i \in 1 .. Len(q) : p[i] = q[i]
  OBVIOUS
<1>2. /\ f[0] = v
      /\ \A i \in 1 .. Len(q) : f[i] = Apply(f[i - 1], q[i])
  BY TrajectorySteps
<1> HIDE DEF f, p
<1>3. Follows(g, v, p, Len(p))
  <2>1. ASSUME NEW i \in 0 .. Len(q) + 1
        PROVE  g[i] = IF i = 0 THEN v ELSE Apply(g[i - 1], p[i])
    <3>1. CASE i = 0
      BY <1>1, <1>2, <3>1
    <3>2. CASE i \in 1 .. Len(q)
      BY <1>1, <1>2, <3>2
    <3>3. CASE i = Len(q) + 1
      BY <1>1, <3>3
    <3> QED
      BY <1>1, <3>1, <3>2, <3>3
  <2> QED
    BY <1>1, <2>1 DEF Follows
<1>4. g = Trajectory(v, p)
  BY <1>1, <1>3, TrajectoryIs
<1>5. /\ \A i \in 0 .. Len(q) : g[i] = f[i]
      /\ g[Len(q) + 1] = Apply(f[Len(q)], e)
  BY <1>1
<1> HIDE DEF g
<1> QED
  BY <1>4, <1>5 DEF f, p

\* Taking the first event off the queue shifts the trajectory.
LEMMA TrajectoryTail ==
  ASSUME NEW v \in Views, NEW q \in Seq(Events), q # << >>
  PROVE  \A i \in 0 .. Len(q) - 1 :
           Trajectory(Apply(v, Head(q)), Tail(q))[i] = Trajectory(v, q)[i + 1]
<1> DEFINE f == Trajectory(v, q)
           p == Tail(q)
           u == Apply(v, Head(q))
           g == [i \in 0 .. Len(q) - 1 |-> f[i + 1]]
<1>1. /\ Len(q) \in Nat \ {0} /\ p \in Seq(Events) /\ Len(p) = Len(q) - 1
      /\ Head(q) = q[1] /\ Head(q) \in Events
      /\ \A i \in 1 .. Len(q) - 1 : p[i] = q[i + 1]
  OBVIOUS
<1>2. u \in Views
  BY <1>1, ApplyType
<1>3. /\ f[0] = v
      /\ \A i \in 1 .. Len(q) : f[i] = Apply(f[i - 1], q[i])
  BY TrajectorySteps
<1>4. f[1] = u
  BY <1>1, <1>3
<1> HIDE DEF f, p, u
<1>5. Follows(g, u, p, Len(p))
  <2>1. ASSUME NEW i \in 0 .. Len(q) - 1
        PROVE  g[i] = IF i = 0 THEN u ELSE Apply(g[i - 1], p[i])
    <3>1. CASE i = 0
      BY <1>1, <1>4, <3>1
    <3>2. CASE i # 0
      <4>1. i \in 1 .. Len(q) - 1 /\ i - 1 \in 0 .. Len(q) - 1
            /\ i + 1 \in 1 .. Len(q) /\ (i - 1) + 1 = i /\ (i + 1) - 1 = i
        BY <1>1, <3>2
      <4> QED
        BY <1>1, <1>3, <3>2, <4>1
    <3> QED
      BY <3>1, <3>2
  <2> QED
    BY <1>1, <2>1 DEF Follows
<1>6. g = Trajectory(u, p)
  BY <1>1, <1>2, <1>5, TrajectoryIs
<1> QED
  BY <1>6 DEF f, p, u

-----------------------------------------------------------------------------
(* What a queue means to the client that holds view v.                      *)

WellFormed(v, q) ==
  \A i \in DOMAIN q :
    (q[i].request \in Trajectory(v, q)[i - 1].active)
      <=> (q[i].kind # "operationStarted")

Final(v, q) == Trajectory(v, q)[Len(q)]

States(v, q) == [i \in 1 .. Len(q) |-> Trajectory(v, q)[i]]

LEMMA StatesType ==
  ASSUME NEW v \in Views, NEW q \in Seq(Events)
  PROVE  States(v, q) \in Seq(Views) /\ Len(States(v, q)) = Len(q)
<1>1. Len(q) \in Nat /\ Trajectory(v, q) \in [0 .. Len(q) -> Views]
  BY TrajectoryIs
<1>2. States(v, q) \in [1 .. Len(q) -> Views]
  BY <1>1 DEF States
<1> QED
  BY <1>1, <1>2

LEMMA EmptyQueue ==
  ASSUME NEW v \in Views
  PROVE  /\ WellFormed(v, << >>) /\ Final(v, << >>) = v
         /\ States(v, << >>) = << >>
<1>1. << >> \in Seq(Events) /\ Len(<< >>) = 0
  OBVIOUS
<1>2. Trajectory(v, << >>)[0] = v
  BY <1>1, TrajectorySteps
<1> QED
  BY <1>1, <1>2 DEF WellFormed, Final, States

LEMMA LongerQueue ==
  ASSUME NEW v \in Views, NEW q \in Seq(Events), NEW e \in Events
  PROVE  /\ Final(v, Append(q, e)) = Apply(Final(v, q), e)
         /\ States(v, Append(q, e)) =
              Append(States(v, q), Apply(Final(v, q), e))
         /\ /\ WellFormed(v, q)
            /\ (e.request \in Final(v, q).active)
                 <=> (e.kind # "operationStarted")
            => WellFormed(v, Append(q, e))
<1> DEFINE p == Append(q, e)
           new == Trajectory(v, p)
           old == Trajectory(v, q)
<1>1. /\ Len(q) \in Nat /\ p \in Seq(Events) /\ Len(p) = Len(q) + 1
      /\ p[Len(q) + 1] = e /\ \A i \in 1 .. Len(q) : p[i] = q[i]
  OBVIOUS
<1>2. /\ \A i \in 0 .. Len(q) : new[i] = old[i]
      /\ new[Len(q) + 1] = Apply(old[Len(q)], e)
  BY TrajectoryAppend
<1>3. DOMAIN p = 1 .. Len(q) + 1 /\ DOMAIN q = 1 .. Len(q)
  BY <1>1
<1>4. old[Len(q)] = Final(v, q)
  BY DEF Final
<1>5. Final(v, p) = new[Len(q) + 1]
  BY <1>1 DEF Final
<1>6. /\ States(v, q) \in Seq(Views) /\ Len(States(v, q)) = Len(q)
      /\ States(v, p) \in Seq(Views) /\ Len(States(v, p)) = Len(q) + 1
      /\ Apply(Final(v, q), e) \in Views
  <2>1. Final(v, q) \in Views
    BY <1>1, TrajectoryIs DEF Final
  <2> QED
    BY <1>1, <2>1, StatesType, ApplyType
<1>7. /\ \A i \in 1 .. Len(q) : States(v, q)[i] = old[i]
      /\ \A i \in 1 .. Len(q) + 1 : States(v, p)[i] = new[i]
  BY <1>1 DEF States
<1> HIDE DEF p, new, old
<1>8. \A i \in 1 .. Len(q) + 1 :
        States(v, p)[i] = Append(States(v, q), Apply(Final(v, q), e))[i]
  BY <1>1, <1>2, <1>4, <1>6, <1>7
<1>9. States(v, p) = Append(States(v, q), Apply(Final(v, q), e))
  BY <1>1, <1>6, <1>8
<1>10. ASSUME WellFormed(v, q),
              (e.request \in Final(v, q).active)
                <=> (e.kind # "operationStarted")
       PROVE  WellFormed(v, p)
  <2> SUFFICES ASSUME NEW i \in 1 .. Len(q) + 1
               PROVE  (p[i].request \in new[i - 1].active)
                        <=> (p[i].kind # "operationStarted")
    BY <1>3 DEF WellFormed, new
  <2>1. CASE i = Len(q) + 1
    BY <1>1, <1>2, <1>4, <1>10, <2>1
  <2>2. CASE i \in 1 .. Len(q)
    <3>1. i - 1 \in 0 .. Len(q)
      BY <1>1, <2>2
    <3> QED
      BY <1>1, <1>2, <1>3, <1>10, <2>2, <3>1 DEF WellFormed, old
  <2> QED
    BY <1>1, <2>1, <2>2
<1> QED
  BY <1>2, <1>4, <1>5, <1>9, <1>10 DEF p

LEMMA ShorterQueue ==
  ASSUME NEW v \in Views, NEW q \in Seq(Events), q # << >>
  PROVE  /\ Apply(v, Head(q)) \in Views /\ Tail(q) \in Seq(Events)
         /\ Final(Apply(v, Head(q)), Tail(q)) = Final(v, q)
         /\ States(Apply(v, Head(q)), Tail(q)) = Tail(States(v, q))
         /\ States(v, q) # << >> /\ Head(States(v, q)) = Apply(v, Head(q))
         /\ WellFormed(v, q) => WellFormed(Apply(v, Head(q)), Tail(q))
<1> DEFINE p == Tail(q)
           u == Apply(v, Head(q))
           new == Trajectory(u, p)
           old == Trajectory(v, q)
<1>1. /\ Len(q) \in Nat \ {0} /\ p \in Seq(Events) /\ Len(p) = Len(q) - 1
      /\ Head(q) = q[1] /\ Head(q) \in Events
      /\ \A i \in 1 .. Len(q) - 1 : p[i] = q[i + 1]
  OBVIOUS
<1>2. u \in Views
  BY <1>1, ApplyType
<1>3. \A i \in 0 .. Len(q) - 1 : new[i] = old[i + 1]
  BY TrajectoryTail
<1>4. old[1] = u
  <2>1. 1 \in 1 .. Len(q)
    BY <1>1
  <2>2. old[0] = v /\ old[1] = Apply(old[1 - 1], q[1])
    BY <2>1, TrajectorySteps
  <2> QED
    BY <1>1, <2>2
<1>5. Final(u, p) = new[Len(q) - 1] /\ Final(v, q) = old[Len(q)]
  BY <1>1 DEF Final
<1>6. /\ States(v, q) \in Seq(Views) /\ Len(States(v, q)) = Len(q)
      /\ States(u, p) \in Seq(Views) /\ Len(States(u, p)) = Len(q) - 1
  BY <1>1, <1>2, StatesType
<1>7. /\ \A i \in 1 .. Len(q) : States(v, q)[i] = old[i]
      /\ \A i \in 1 .. Len(q) - 1 : States(u, p)[i] = new[i]
  BY <1>1 DEF States
<1>8. DOMAIN p = 1 .. Len(q) - 1 /\ DOMAIN q = 1 .. Len(q)
  BY <1>1
<1> HIDE DEF p, u, new, old
<1>9. States(v, q) # << >> /\ Head(States(v, q)) = u
  BY <1>1, <1>4, <1>6, <1>7
<1>10. States(u, p) = Tail(States(v, q))
  <2>1. /\ Tail(States(v, q)) \in Seq(Views)
        /\ Len(Tail(States(v, q))) = Len(q) - 1
        /\ \A i \in 1 .. Len(q) - 1 :
             Tail(States(v, q))[i] = States(v, q)[i + 1]
    BY <1>1, <1>6, <1>9
  <2>2. \A i \in 1 .. Len(q) - 1 : States(u, p)[i] = Tail(States(v, q))[i]
    <3> TAKE i \in 1 .. Len(q) - 1
    <3>1. i + 1 \in 1 .. Len(q) /\ i \in 0 .. Len(q) - 1
      BY <1>1
    <3> QED
      BY <1>3, <1>7, <2>1, <3>1
  <2> QED
    BY <1>1, <1>6, <2>1, <2>2
<1>11. ASSUME WellFormed(v, q) PROVE WellFormed(u, p)
  <2> SUFFICES ASSUME NEW i \in 1 .. Len(q) - 1
               PROVE  (p[i].request \in new[i - 1].active)
                        <=> (p[i].kind # "operationStarted")
    BY <1>8 DEF WellFormed, new
  <2>1. /\ i + 1 \in 1 .. Len(q) /\ i - 1 \in 0 .. Len(q) - 1
        /\ (i - 1) + 1 = (i + 1) - 1
    BY <1>1
  <2>2. new[i - 1] = old[(i + 1) - 1]
    BY <1>3, <2>1
  <2>3. (q[i + 1].request \in old[(i + 1) - 1].active)
          <=> (q[i + 1].kind # "operationStarted")
    BY <1>8, <1>11, <2>1 DEF WellFormed, old
  <2> QED
    BY <1>1, <2>2, <2>3
<1>12. Final(u, p) = Final(v, q)
  <2>1. Len(q) - 1 \in 0 .. Len(q) - 1 /\ (Len(q) - 1) + 1 = Len(q)
    BY <1>1
  <2> QED
    BY <1>3, <1>5, <2>1
<1> QED
  BY <1>1, <1>2, <1>9, <1>10, <1>11, <1>12 DEF p, u

-----------------------------------------------------------------------------
(* The invariant.  The three properties of the streams are inductive only   *)
(* together, and with the tracking of running operations: an event fits the *)
(* queue of the live subscriber because the last state its client will     *)
(* reach is the session's own, and because an operation that ends is one   *)
(* the session still lists as active.                                      *)

Contiguous(s) ==
  /\ \A i \in DOMAIN queue[s] : queue[s][i].sequence = view[s].sequence + i
  /\ Len(queue[s]) <= SubscriberCapacity
  /\ subscriber = s => view[s].sequence + Len(queue[s]) = sequence
  /\ view[s].sequence + Len(queue[s]) <= sequence

Sound(s) ==
  /\ WellFormed(view[s], queue[s])
  /\ Holds(s) => Contiguous(s)
  /\ subscriber = s /\ Holds(s) /\ CanEmit
       => Final(view[s], queue[s]) = Snapshot

Streams == \A s \in Subscribers : Sound(s)

FeedInv == TrackInv /\ Streams

LEMMA StreamsMean ==
  ASSUME TypeOK, Streams
  PROVE  StreamIsContiguous /\ StreamIsWellFormed /\ ReplicaConverges
<1>1. StreamIsContiguous
  BY DEF Streams, Sound, Contiguous, StreamIsContiguous
<1>2. StreamIsWellFormed
  BY ViewAfterUnfolded DEF Streams, Sound, WellFormed, StreamIsWellFormed
<1>3. ReplicaConverges
  BY ViewAfterUnfolded
     DEF Streams, Sound, Final, ReplicaConverges, TypeOK, StreamTypes
<1> QED
  BY <1>1, <1>2, <1>3

LEMMA FeedInvInit == Init => FeedInv
<1> SUFFICES ASSUME Init PROVE FeedInv
  OBVIOUS
<1>1. EmptyView \in Views
  BY DEF EmptyView, Views, MaybeProject
<1>2. Streams
  BY <1>1, EmptyQueue DEF Init, Streams, Sound, Holds
<1> QED
  BY <1>2, TrackInvInit DEF FeedInv

\* A step that announces nothing.  Once the numbers are used up the session
\* may change without saying so.
Quiet ==
  /\ UNCHANGED <<stream, stage, view>>
  /\ CanEmit => Snapshot' = Snapshot

\* A step that announces an event, which tells all that it changes.
Announces(kind, i, p) ==
  /\ CanEmit
  /\ Emit(kind, i, p)
  /\ UNCHANGED <<stage, view>>
  /\ (i \in DOMAIN active) <=> (kind # "operationStarted")
  /\ Snapshot' = Apply(Snapshot, [sequence |-> sequence + 1, kind |-> kind,
                                  request |-> i, project |-> p])

Announced ==
  \E kind \in EventKinds, i \in RequestIds, p \in MaybeProject :
    Announces(kind, i, p)

LEMMA QuietStep ==
  ASSUME Streams, Quiet
  PROVE  Streams'
<1> SUFFICES ASSUME NEW s \in Subscribers PROVE Sound(s)'
  BY DEF Streams
<1>1. /\ UNCHANGED <<sequence, subscriber, queue, stage, view>>
      /\ CanEmit' <=> CanEmit
      /\ Holds(s)' <=> Holds(s)
  BY DEF Quiet, stream, CanEmit, Holds
<1> QED
  BY <1>1 DEF Quiet, Streams, Sound, Contiguous

\* The event fits what every client will then know.
LEMMA AnnouncedStep ==
  ASSUME TypeInv, Streams, NEW kind \in EventKinds, NEW i \in RequestIds,
         NEW p \in MaybeProject, Announces(kind, i, p)
  PROVE  Streams'
<1> DEFINE event == [sequence |-> sequence + 1, kind |-> kind,
                     request |-> i, project |-> p]
<1> USE DEF TypeInv, TypeOK, StreamTypes
<1> SUFFICES ASSUME NEW s \in Subscribers PROVE Sound(s)'
  BY DEF Streams
<1>1. /\ queue[s] \in Seq(Events) /\ view[s] \in Views /\ sequence \in Nat
      /\ view[s].sequence \in Nat /\ Len(queue[s]) \in Nat
      /\ s # None
  BY ConstantsAssumption, NoneAssumption DEF Views
<1>0. event \in Events
  BY <1>1 DEF Events
<1>2. sequence' = sequence + 1 /\ (Holds(s)' <=> Holds(s)) /\ Sound(s)
      /\ view'[s] = view[s]
  BY DEF Announces, Emit, Holds, Streams
<1>3. CASE CanSend /\ subscriber = s
  <2>1. /\ queue'[s] = Append(queue[s], event) /\ Holds(s)
        /\ Len(queue[s]) < SubscriberCapacity /\ subscriber' = s
    BY <1>3 DEF Announces, Emit, CanSend, Holds
  <2>2. Final(view[s], queue[s]) = Snapshot /\ Contiguous(s)
        /\ WellFormed(view[s], queue[s])
    BY <1>2, <1>3, <2>1 DEF Announces, Sound
  <2>3. (event.request \in Final(view[s], queue[s]).active)
          <=> (event.kind # "operationStarted")
    BY <2>2 DEF Announces, Snapshot
  <2>4. /\ Final(view[s], Append(queue[s], event)) = Snapshot'
        /\ WellFormed(view[s], Append(queue[s], event))
    BY <1>0, <1>1, <2>2, <2>3, LongerQueue DEF Announces
  <2>5. Contiguous(s)'
    <3>1. /\ Len(Append(queue[s], event)) = Len(queue[s]) + 1
          /\ DOMAIN Append(queue[s], event) = 1 .. Len(queue[s]) + 1
          /\ \A j \in 1 .. Len(queue[s]) :
               Append(queue[s], event)[j] = queue[s][j]
          /\ Append(queue[s], event)[Len(queue[s]) + 1] = event
          /\ DOMAIN queue[s] = 1 .. Len(queue[s])
      BY <1>1
    <3>2. view[s].sequence + (Len(queue[s]) + 1) = sequence + 1
          /\ event.sequence = view[s].sequence + (Len(queue[s]) + 1)
      <4>1. view[s].sequence + Len(queue[s]) = sequence
        BY <1>3, <2>2 DEF Contiguous
      <4>2. event.sequence = sequence + 1
        OBVIOUS
      <4>3. \A a, b \in Nat : a + (b + 1) = (a + b) + 1
        OBVIOUS
      <4> QED
        BY <1>1, <4>1, <4>2, <4>3
    <3>3. \A j \in 1 .. Len(queue[s]) + 1 :
            Append(queue[s], event)[j].sequence = view[s].sequence + j
      <4> TAKE j \in 1 .. Len(queue[s]) + 1
      <4>1. CASE j \in 1 .. Len(queue[s])
        BY <2>2, <3>1, <4>1 DEF Contiguous
      <4>2. CASE j = Len(queue[s]) + 1
        <5>1. Append(queue[s], event)[j] = event
          BY <3>1, <4>2
        <5>2. event.sequence = view[s].sequence + j
          BY <3>2, <4>2
        <5> QED
          BY <5>1, <5>2
      <4>3. ASSUME NEW n \in Nat, j \in 1 .. n + 1
            PROVE  j \in 1 .. n \/ j = n + 1
        BY <4>3
      <4>4. j \in 1 .. Len(queue[s]) \/ j = Len(queue[s]) + 1
        BY <1>1, <4>3
      <4> QED
        BY <4>1, <4>2, <4>4
    <3>4. Len(queue[s]) + 1 <= SubscriberCapacity
      BY <1>1, <2>1, ConstantsAssumption
    <3> QED
      BY <1>1, <1>2, <2>1, <3>1, <3>2, <3>3, <3>4 DEF Contiguous
  <2> QED
    BY <1>2, <2>1, <2>4, <2>5 DEF Sound
<1>4. CASE ~ (CanSend /\ subscriber = s)
  <2>1. queue'[s] = queue[s] /\ subscriber' # s
    BY <1>1, <1>4 DEF Announces, Emit
  <2>2. Contiguous(s) => Contiguous(s)'
    BY <1>1, <1>2, <2>1 DEF Contiguous
  <2> QED
    BY <1>2, <2>1, <2>2 DEF Sound
<1> QED
  BY <1>3, <1>4

LEMMA SubscriberStreams ==
  ASSUME TypeInv, Streams, NEW s \in Subscribers, Subscribe(s) \/ SubscriberStep(s)
  PROVE  Streams'
<1> USE DEF TypeInv, TypeOK, StreamTypes
<1>1. UNCHANGED <<sequence, project, active>> /\ Snapshot' = Snapshot
      /\ (CanEmit' <=> CanEmit)
  BY DEF Subscribe, SubscriberStep, Take, Written, WriteFails, EndOfStream,
         Close, Elsewhere, operations, Snapshot, CanEmit
<1>2. ASSUME NEW t \in Subscribers, t # s
      PROVE  Sound(t)'
  <2>1. /\ queue'[t] = queue[t] /\ view'[t] = view[t] /\ stage'[t] = stage[t]
        /\ subscriber' = t => subscriber = t
    BY <1>2 DEF Subscribe, SubscriberStep, Take, Written, WriteFails,
                EndOfStream, Close
  <2>2. (Holds(t)' <=> Holds(t)) /\ Sound(t)
    BY <2>1 DEF Holds, Streams
  <2> QED
    BY <1>1, <2>1, <2>2 DEF Sound, Contiguous
<1>3. Sound(s) /\ view[s] \in Views /\ queue[s] \in Seq(Events)
  BY DEF Streams
<1>4. ASSUME Subscribe(s)
      PROVE  Sound(s)'
  <2>1. queue'[s] = << >> /\ view'[s] = Snapshot /\ subscriber' = s
    BY <1>4 DEF Subscribe
  <2>2. Snapshot \in Views /\ Snapshot.sequence = sequence /\ sequence \in Nat
    BY SnapshotType, ConstantsAssumption DEF Snapshot
  <2>3. WellFormed(Snapshot, << >>) /\ Final(Snapshot, << >>) = Snapshot
    BY <2>2, EmptyQueue
  <2>4. Contiguous(s)'
    BY <1>1, <2>1, <2>2, ConstantsAssumption DEF Contiguous
  <2> QED
    BY <1>1, <2>1, <2>3, <2>4 DEF Sound
<1>5. ASSUME Take(s)
      PROVE  Sound(s)'
  <2>1. /\ queue[s] # << >> /\ Holds(s) /\ subscriber' = subscriber
        /\ queue'[s] = Tail(queue[s])
        /\ view'[s] = Apply(view[s], Head(queue[s]))
    BY <1>5 DEF Take, Holds
  <2>2. /\ WellFormed(view'[s], queue'[s])
        /\ Final(view'[s], queue'[s]) = Final(view[s], queue[s])
    BY <1>3, <2>1, ShorterQueue DEF Sound
  <2>3. Contiguous(s)'
    <3>1. /\ Len(queue[s]) \in Nat \ {0} /\ Len(Tail(queue[s])) = Len(queue[s]) - 1
          /\ DOMAIN queue[s] = 1 .. Len(queue[s])
          /\ DOMAIN Tail(queue[s]) = 1 .. Len(queue[s]) - 1
          /\ \A i \in 1 .. Len(queue[s]) - 1 :
               Tail(queue[s])[i] = queue[s][i + 1]
          /\ Head(queue[s]) = queue[s][1]
          /\ view[s].sequence \in Nat
      BY <1>3, <2>1 DEF Views
    <3>2. Contiguous(s)
      BY <1>3, <2>1 DEF Sound
    <3>3. view'[s].sequence = view[s].sequence + 1
      BY <2>1, <3>1, <3>2 DEF Contiguous, Apply
    <3>4. \A i \in 1 .. Len(queue[s]) - 1 :
            Tail(queue[s])[i].sequence = view[s].sequence + 1 + i
      <4> TAKE i \in 1 .. Len(queue[s]) - 1
      <4>1. i + 1 \in DOMAIN queue[s]
        BY <3>1
      <4>2. queue[s][i + 1].sequence = view[s].sequence + (i + 1)
        BY <3>2, <4>1 DEF Contiguous
      <4>3. Tail(queue[s])[i] = queue[s][i + 1]
        BY <3>1
      <4>4. ASSUME NEW n \in Nat PROVE n + (i + 1) = n + 1 + i
        OBVIOUS
      <4>5. view[s].sequence \in Nat
        BY <3>1
      <4> QED
        BY <4>2, <4>3, <4>4, <4>5
    <3>5. Len(queue[s]) - 1 <= SubscriberCapacity
      BY <3>1, <3>2, ConstantsAssumption DEF Contiguous
    <3>6. /\ subscriber = s =>
               view[s].sequence + 1 + (Len(queue[s]) - 1) = sequence
          /\ view[s].sequence + 1 + (Len(queue[s]) - 1) <= sequence
      BY <3>1, <3>2 DEF Contiguous
    <3> QED
      BY <1>1, <2>1, <3>1, <3>3, <3>4, <3>5, <3>6 DEF Contiguous
  <2> QED
    BY <1>1, <1>3, <2>1, <2>2, <2>3 DEF Sound
<1>6. ASSUME Written(s)
      PROVE  Sound(s)'
  <2>1. UNCHANGED <<queue, view, subscriber>> /\ Holds(s)
    BY <1>6 DEF Written, Holds
  <2> QED
    BY <1>1, <1>3, <2>1 DEF Sound, Contiguous
<1>7. ASSUME Close(s)
      PROVE  Sound(s)'
  <2>1. queue'[s] = << >> /\ view'[s] = EmptyView /\ ~Holds(s)'
    BY <1>7 DEF Close, Holds
  <2>2. EmptyView \in Views
    BY DEF EmptyView, Views, MaybeProject
  <2> QED
    BY <2>1, <2>2, EmptyQueue DEF Sound
<1>8. Sound(s)'
  BY <1>4, <1>5, <1>6, <1>7 DEF SubscriberStep, WriteFails, EndOfStream
<1> QED
  BY <1>2, <1>8 DEF Streams

\* A thread that serves commands announces what it changes, or has no number
\* left to announce it with.
LEMMA SettleAnnounces ==
  ASSUME TrackInv, NEW w \in Workers, Settle(w)
  PROVE  Announced \/ Quiet
<1>1. TypeInv /\ Executing(w)
  BY DEF TrackInv, Settle, Executing
<1>2. req[w] \in AllRequests /\ req[w].id \in DOMAIN active
      /\ req[w].id \in RequestIds
  BY <1>1 DEF TrackInv, RunningIsTracked, AllRequests
<1>3. DOMAIN active' = DOMAIN active \ {req[w].id}
  BY DEF Settle, Restrict
<1>4. CASE CanEmit
  <2>1. ASSUME NEW kind \in EventKinds \ {"operationStarted"},
               NEW p \in MaybeProject, Emit(kind, req[w].id, p),
               project' = IF kind = "projectOpened" THEN p ELSE project
        PROVE  Announces(kind, req[w].id, p)
    BY <1>2, <1>3, <1>4, <2>1
       DEF Announces, Emit, Settle, Snapshot, Apply
  <2>2. CASE CompleteSuccess(w, answer[w].project)
    <3>1. answer[w].project \in MaybeProject
      BY <1>1 DEF TypeInv, WorkerHoldsOpen, Settle, Responses
    <3>2. Announces("projectOpened", req[w].id, answer[w].project)
      BY <1>4, <2>1, <2>2, <3>1 DEF CompleteSuccess, EventKinds
    <3> QED
      BY <1>2, <3>1, <3>2 DEF Announced, EventKinds
  <2>3. ASSUME NEW kind \in {"operationFailed", "operationCancelled"},
               NEW response, Complete(w, kind, response)
        PROVE  Announced
    <3>1. Announces(kind, req[w].id, None)
      BY <1>4, <2>1, <2>3 DEF Complete, EventKinds, MaybeProject
    <3> QED
      BY <1>2, <3>1 DEF Announced, EventKinds, MaybeProject
  <2> QED
    BY <2>2, <2>3 DEF Settle
<1>5. CASE ~CanEmit
  BY <1>5 DEF Settle, Complete, CompleteSuccess, Quiet
<1> QED
  BY <1>4, <1>5

LEMMA WorkerAnnounces ==
  ASSUME TrackInv, NEW w \in Workers, Receive(w) \/ WorkerStep(w)
  PROVE  Announced \/ Quiet
<1>1. ASSUME NEW r \in Requests, Start(w, r)
      PROVE  Announced
  <2>1. r.id \in RequestIds
    BY ConstantsAssumption DEF AllRequests
  <2>2. DOMAIN active' = DOMAIN active \cup {r.id} /\ r.id \notin DOMAIN active
    BY <1>1 DEF Start, Insert
  <2>3. Announces("operationStarted", r.id, None)
    BY <1>1, <2>2 DEF Announces, Start, Emit, Snapshot, Apply
  <2> QED
    BY <2>1, <2>3 DEF Announced, EventKinds, MaybeProject
<1>2. ASSUME UNCHANGED <<project, operations, stream, channel>>
      PROVE  Quiet
  BY <1>2 DEF Quiet, operations, stream, channel, Snapshot
<1>3. ASSUME NEW r \in Requests,
             Replay(w, r) \/ Busy(w, r) \/ DuplicateId(w, r)
             \/ StartUnannounced(w, r)
      PROVE  Quiet
  BY <1>2, <1>3 DEF Replay, Busy, DuplicateId, StartUnannounced, Untouched
<1>4. ASSUME NEW r \in Requests, Cancel(w, r)
      PROVE  Quiet
  BY <1>4 DEF Cancel, Quiet, operations, stream, Snapshot
<1>5. CASE CheckBefore(w) \/ Inspect(w) \/ CheckAfter(w) \/ WriteReply(w)
  BY <1>2, <1>5
     DEF CheckBefore, Inspect, CheckAfter, Unlocked, WriteReply, Untouched
<1> QED
  BY <1>1, <1>3, <1>4, <1>5, SettleAnnounces DEF Receive, WorkerStep

LEMMA FeedInvNext == FeedInv /\ [Next]_vars => FeedInv'
<1> SUFFICES ASSUME FeedInv, [Next]_vars PROVE FeedInv'
  OBVIOUS
<1>1. TrackInv /\ TrackInv' /\ TypeInv /\ Streams
  BY TrackInvNext DEF FeedInv, TrackInv
<1>2. ASSUME NEW w \in Workers, Receive(w) \/ WorkerStep(w)
      PROVE  Streams'
  BY <1>1, <1>2, WorkerAnnounces, QuietStep, AnnouncedStep DEF Announced
<1>3. ASSUME NEW s \in Subscribers, Subscribe(s) \/ SubscriberStep(s)
      PROVE  Streams'
  BY <1>1, <1>3, SubscriberStreams
<1>4. CASE Restart
  <2>1. Init'
    BY <1>1, <1>4, RestartInit
  <2>2. (Init => FeedInv)'
    BY FeedInvInit, PTL
  <2> QED
    BY <2>1, <2>2 DEF FeedInv
<1>5. CASE UNCHANGED vars
  <2>1. Quiet
    BY <1>5 DEF vars, operations, channel, Quiet, stream, Snapshot
  <2> QED
    BY <1>1, <2>1, QuietStep DEF FeedInv
<1> QED
  BY <1>1, <1>2, <1>3, <1>4, <1>5 DEF Next, FeedInv

LEMMA FeedInvariant == Spec => []FeedInv
  BY FeedInvInit, FeedInvNext, PTL DEF Spec

LEMMA FeedInvMeans ==
  FeedInv => StreamIsContiguous /\ StreamIsWellFormed /\ ReplicaConverges
  BY StreamsMean DEF FeedInv, TrackInv, TypeInv

\* emit_locked numbers events without a gap on every open subscription, its
\* channel holds at most SubscriberCapacity, and the live one misses none.
THEOREM StreamContiguous == Spec => []StreamIsContiguous
  BY FeedInvMeans, FeedInvariant, PTL

\* Every subscription, live or superseded, hears of each operation's start
\* before its end and of both once.
THEOREM StreamWellFormed == Spec => []StreamIsWellFormed
  BY FeedInvMeans, FeedInvariant, PTL

\* The snapshot taken by register_subscriber and the events sent since lead
\* a client exactly to the session's present state.
THEOREM ReplicaConverged == Spec => []ReplicaConverges
  BY FeedInvMeans, FeedInvariant, PTL

-----------------------------------------------------------------------------
(* The session implements WorkspaceFeed.                                    *)

LEMMA BacklogIs ==
  Backlog = [s \in Subscribers |-> States(view[s], queue[s])]
  BY ViewAfterUnfolded DEF Backlog, States

LEMMA BacklogIsNext ==
  Backlog' = [s \in Subscribers |-> States(view'[s], queue'[s])]
<1>1. (Backlog = [s \in Subscribers |-> States(view[s], queue[s])])'
  BY BacklogIs, PTL
<1> QED
  BY <1>1

LEMMA FeedInit == Init => Feed!Init
<1> SUFFICES ASSUME Init PROVE Feed!Init
  OBVIOUS
<1>1. EmptyView \in Views
  BY DEF EmptyView, Views, MaybeProject
<1>2. Backlog = [s \in Subscribers |-> << >>]
  BY <1>1, BacklogIs, EmptyQueue DEF Init
<1>3. Snapshot.sequence = 0 /\ Connected = {}
  BY DEF Init, Snapshot, Connected, Holds
<1> QED
  BY <1>2, <1>3 DEF Init, Feed!Init, Feed!Unknown, EmptyView

LEMMA FedIs ==
  ASSUME TypeInv
  PROVE  Feed!Fed <=> CanSend
<1> USE DEF TypeInv, TypeOK, StreamTypes
<1>1. subscriber \in Connected <=> subscriber # None /\ stage[subscriber] # "closed"
  BY NoneAssumption DEF Connected, Holds
<1>2. ASSUME NEW s \in Subscribers
      PROVE  Len(Backlog[s]) = Len(queue[s])
  BY BacklogIs, StatesType
<1> QED
  BY <1>1, <1>2 DEF Feed!Fed, CanSend, Connected

LEMMA AnnouncedPublishes ==
  ASSUME TypeInv, Streams, NEW kind \in EventKinds, NEW i \in RequestIds,
         NEW p \in MaybeProject, Announces(kind, i, p)
  PROVE  Feed!Publish
<1> DEFINE event == [sequence |-> sequence + 1, kind |-> kind,
                     request |-> i, project |-> p]
<1> USE DEF TypeInv, TypeOK, StreamTypes
<1>1. Snapshot.sequence = sequence /\ Snapshot'.sequence = sequence + 1
      /\ sequence < MaxSequence
  BY DEF Announces, CanEmit, Snapshot, Apply
<1>2. Connected' = Connected /\ view' = view
  BY DEF Announces, Connected, Holds
<1>3. CASE CanSend
  <2>1. /\ subscriber \in Subscribers /\ Holds(subscriber)
        /\ queue[subscriber] \in Seq(Events) /\ view[subscriber] \in Views
        /\ queue' = [queue EXCEPT ![subscriber] =
                       Append(queue[subscriber], event)]
        /\ subscriber' = subscriber
    BY <1>3 DEF Announces, Emit, CanSend, Holds
  <2>2. Final(view[subscriber], queue[subscriber]) = Snapshot
    BY <2>1 DEF Announces, Streams, Sound
  <2>3. event \in Events
    BY ConstantsAssumption DEF Events
  <2>4. States(view[subscriber], Append(queue[subscriber], event)) =
          Append(States(view[subscriber], queue[subscriber]), Snapshot')
    BY <2>1, <2>2, <2>3, LongerQueue DEF Announces
  <2>5. ASSUME NEW s \in Subscribers
        PROVE  Backlog'[s] = IF s = subscriber
                             THEN Append(Backlog[s], Snapshot') ELSE Backlog[s]
    BY <1>2, <2>1, <2>4, BacklogIs, BacklogIsNext
  <2>6. Backlog' = [Backlog EXCEPT ![subscriber] =
                      Append(Backlog[subscriber], Snapshot')]
    BY <2>5, BacklogIs, BacklogIsNext
  <2> QED
    BY <1>1, <1>2, <1>3, <2>1, <2>6, FedIs DEF Feed!Publish
<1>4. CASE ~CanSend
  <2>1. subscriber' = None /\ queue' = queue
    BY <1>4 DEF Announces, Emit
  <2>2. Backlog' = Backlog
    BY <1>2, <2>1, BacklogIs, BacklogIsNext
  <2> QED
    BY <1>1, <1>2, <1>4, <2>1, <2>2, FedIs DEF Feed!Publish
<1> QED
  BY <1>3, <1>4

LEMMA QuietUnannounced ==
  ASSUME TypeInv, Quiet
  PROVE  Feed!Unannounced \/ UNCHANGED Feed!vars
<1> USE DEF TypeInv, TypeOK, StreamTypes
<1>1. UNCHANGED <<sequence, subscriber, queue, stage, view>>
  BY DEF Quiet, stream
<1>2. Connected' = Connected /\ Backlog' = Backlog
  BY <1>1, BacklogIs, BacklogIsNext DEF Connected, Holds
<1>3. CASE CanEmit
  BY <1>1, <1>2, <1>3 DEF Quiet, Feed!vars
<1>4. CASE ~CanEmit
  <2>1. Snapshot.sequence = MaxSequence /\ Snapshot'.sequence = MaxSequence
    BY <1>1, <1>4, ConstantsAssumption DEF CanEmit, Snapshot
  <2> QED
    BY <1>1, <1>2, <2>1 DEF Feed!Unannounced
<1> QED
  BY <1>3, <1>4

\* The steps of a subscription thread.
LEMMA SubscriberFeeds ==
  ASSUME TypeInv, NEW s \in Subscribers, Subscribe(s) \/ SubscriberStep(s)
  PROVE  Feed!Connect(s) \/ Feed!Advance(s) \/ Feed!Disconnect(s)
         \/ UNCHANGED Feed!vars
<1> USE DEF TypeInv, TypeOK, StreamTypes
<1>1. UNCHANGED <<sequence, project, active>> /\ Snapshot' = Snapshot
  BY DEF Subscribe, SubscriberStep, Take, Written, WriteFails, EndOfStream,
         Close, Elsewhere, operations, Snapshot
<1>2. queue[s] \in Seq(Events) /\ view[s] \in Views
  OBVIOUS
<1>3. /\ DOMAIN Backlog = Subscribers /\ DOMAIN Backlog' = Subscribers
      /\ Backlog = [t \in Subscribers |-> Backlog[t]]
      /\ Backlog' = [t \in Subscribers |-> Backlog'[t]]
      /\ \A t \in Subscribers : /\ Backlog[t] = States(view[t], queue[t])
                                /\ Backlog'[t] = States(view'[t], queue'[t])
  BY BacklogIs, BacklogIsNext
<1>4. CASE Subscribe(s)
  <2>1. Snapshot \in Views
    BY SnapshotType
  <2>2. States(view'[s], queue'[s]) = << >>
    BY <1>4, <2>1, EmptyQueue DEF Subscribe
  <2>3. \A t \in Subscribers \ {s} : Backlog'[t] = Backlog[t]
    BY <1>3, <1>4 DEF Subscribe
  <2>4. Backlog' = [Backlog EXCEPT ![s] = << >>]
    BY <1>3, <2>2, <2>3
  <2>5. s \notin Connected /\ Connected' = Connected \cup {s}
    BY <1>4 DEF Subscribe, Connected, Holds
  <2> QED
    BY <1>1, <1>4, <2>4, <2>5 DEF Feed!Connect, Subscribe
<1>5. CASE Take(s)
  <2>1. /\ queue[s] # << >> /\ s \in Connected /\ Connected' = Connected
        /\ view' = [view EXCEPT ![s] = Apply(view[s], Head(queue[s]))]
        /\ queue' = [queue EXCEPT ![s] = Tail(queue[s])]
        /\ subscriber' = subscriber
    BY <1>5 DEF Take, Connected, Holds
  <2>2. /\ Backlog[s] # << >>
        /\ Apply(view[s], Head(queue[s])) = Head(Backlog[s])
        /\ Backlog'[s] = Tail(Backlog[s])
    BY <1>2, <1>3, <2>1, ShorterQueue
  <2>3. \A t \in Subscribers \ {s} : Backlog'[t] = Backlog[t]
    BY <1>3, <2>1
  <2>4. Backlog' = [Backlog EXCEPT ![s] = Tail(Backlog[s])]
    BY <1>3, <2>2, <2>3
  <2> QED
    BY <1>1, <2>1, <2>2, <2>4 DEF Feed!Advance
<1>6. CASE Written(s)
  <2>1. UNCHANGED <<queue, view, subscriber>> /\ Connected' = Connected
    BY <1>6 DEF Written, Connected, Holds
  <2>2. Backlog' = Backlog
    BY <2>1, BacklogIs, BacklogIsNext
  <2> QED
    BY <1>1, <2>1, <2>2 DEF Feed!vars
<1>7. CASE Close(s) /\ Holds(s)
  <2>1. EmptyView \in Views
    BY DEF EmptyView, Views, MaybeProject
  <2>2. States(view'[s], queue'[s]) = << >>
    BY <1>7, <2>1, EmptyQueue DEF Close
  <2>3. \A t \in Subscribers \ {s} : Backlog'[t] = Backlog[t]
    BY <1>3, <1>7 DEF Close
  <2>4. Backlog' = [Backlog EXCEPT ![s] = << >>]
    BY <1>3, <2>2, <2>3
  <2>5. s \in Connected /\ Connected' = Connected \ {s}
    BY <1>7 DEF Close, Connected, Holds
  <2> QED
    BY <1>1, <1>7, <2>4, <2>5
       DEF Feed!Disconnect, Close, EmptyView, Feed!Unknown
<1> QED
  BY <1>4, <1>5, <1>6, <1>7
     DEF SubscriberStep, WriteFails, EndOfStream, Holds

LEMMA FeedNext ==
  ASSUME FeedInv, [Next]_vars
  PROVE  [Feed!Next]_Feed!vars
<1>1. TrackInv /\ TypeInv /\ Streams
  BY DEF FeedInv, TrackInv
<1>2. ASSUME NEW w \in Workers, Receive(w) \/ WorkerStep(w)
      PROVE  [Feed!Next]_Feed!vars
  BY <1>1, <1>2, WorkerAnnounces, QuietUnannounced, AnnouncedPublishes
     DEF Announced, Feed!Next
<1>3. ASSUME NEW s \in Subscribers, Subscribe(s) \/ SubscriberStep(s)
      PROVE  [Feed!Next]_Feed!vars
  BY <1>1, <1>3, SubscriberFeeds DEF Feed!Next
<1>4. CASE Restart
  <2>1. EmptyView \in Views
    BY DEF EmptyView, Views, MaybeProject
  <2>2. Backlog' = [s \in Subscribers |-> << >>]
    BY <1>4, <2>1, BacklogIsNext, EmptyQueue DEF Restart, Lost
  <2>3. Snapshot'.sequence = 0 /\ Connected' = {}
    BY <1>4 DEF Restart, Lost, Snapshot, Connected, Holds
  <2>4. Feed!Restart
    BY <1>4, <2>2, <2>3
       DEF Restart, Lost, Feed!Restart, Feed!Unknown, EmptyView
  <2> QED
    BY <2>4 DEF Feed!Next
<1>5. CASE UNCHANGED vars
  <2>1. Quiet
    BY <1>5 DEF vars, operations, channel, Quiet, stream, Snapshot
  <2> QED
    BY <1>1, <2>1, QuietUnannounced DEF Feed!Next
<1> QED
  BY <1>2, <1>3, <1>4, <1>5 DEF Next

\* A subscription to the session is the feed of WorkspaceFeed: its snapshot
\* and events amount to every state of the session in full and in order,
\* until register_subscriber or emit_locked cuts it off.
THEOREM FeedImplemented == Spec => ImplementsFeed
<1>1. Init => Feed!Init
  BY FeedInit
<1>2. FeedInv /\ [Next]_vars => [Feed!Next]_Feed!vars
  BY FeedNext
<1> QED
  BY <1>1, <1>2, FeedInvariant, PTL DEF Spec, ImplementsFeed, Feed!Spec
=============================================================================
