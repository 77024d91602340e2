------------------------- MODULE ServerRuntimeProofs -------------------------
(***************************************************************************)
(* Theorems about ServerRuntime, for any finite number of connections and  *)
(* any limit: its types, and that the counter of permits is right.         *)
(***************************************************************************)
EXTENDS ServerRuntime, FiniteSetTheorems, TLAPS

-----------------------------------------------------------------------------
(* The inductive invariant.  That no permit is counted twice when a         *)
(* connection is accepted needs that it waits in the backlog once, and that *)
(* no thread serves it yet.                                                 *)

BacklogWaits ==
  /\ \A c \in Connections :
       listening /\ client[c] = "absent" => thread[c] = "none"
  /\ \A i \in 1..Len(backlog) :
       thread[backlog[i]] = "none" /\ client[backlog[i]] # "absent"
  /\ \A i, j \in 1..Len(backlog) : backlog[i] = backlog[j] => i = j

IInv == TypeOK /\ BacklogWaits /\ PermitsMatchThreads

-----------------------------------------------------------------------------
(* Lemmas on the counter and the holders of permits.                        *)

\* There are finitely many holders, and so a number of them.
LEMMA HoldersFinite ==
  /\ IsFiniteSet(PermitHolders)
  /\ Cardinality(PermitHolders) \in Nat
<1>1. PermitHolders \subseteq Connections
  BY DEF PermitHolders
<1> QED
  BY <1>1, RuntimeAssumption, FS_Subset, FS_CardinalityType

\* A connection that holds a permit is counted.
LEMMA HolderIsCounted ==
  ASSUME PermitsMatchThreads, NEW c \in PermitHolders
  PROVE  active_connections - 1 \in Nat
<1>1. Cardinality(PermitHolders) # 0
  BY HoldersFinite, FS_EmptySet
<1> QED
  BY <1>1, HoldersFinite DEF PermitsMatchThreads

\* A step that moves a connection between two places that both hold a permit,
\* or both do not, leaves the counter right if it leaves it alone.
LEMMA HoldersUnchanged ==
  ASSUME PermitsMatchThreads,
         NEW c \in Connections, NEW s,
         thread' = [thread EXCEPT ![c] = s],
         thread \in [Connections -> Holding \cup {"none", "rejecting", "closed"}],
         s \in Holding <=> thread[c] \in Holding,
         active_connections' = active_connections
  PROVE  PermitsMatchThreads'
<1>1. \A d \in Connections : thread'[d] \in Holding <=> thread[d] \in Holding
  OBVIOUS
<1>2. PermitHolders' = PermitHolders
  BY <1>1 DEF PermitHolders
<1> QED
  BY <1>2 DEF PermitsMatchThreads

-----------------------------------------------------------------------------
(* The steps.                                                               *)

\* No action leaves the types.
LEMMA TypeStep ==
  ASSUME IInv, [Next]_vars
  PROVE  TypeOK'
<1> USE RuntimeAssumption DEF TypeOK
<1>0. TypeOK
  BY DEF IInv
<1>1. ASSUME NEW c \in Connections, Connect(c) PROVE TypeOK'
  BY <1>0, <1>1 DEF Connect, feed
<1>2. ASSUME NEW c \in Connections, Send(c) PROVE TypeOK'
  BY <1>0, <1>2 DEF Send, connections, feed
<1>3. ASSUME NEW c \in Connections, HangUp(c) PROVE TypeOK'
  BY <1>0, <1>3 DEF HangUp, connections, feed
<1>4. CASE Accept
  <2>1. Head(backlog) \in Connections /\ Tail(backlog) \in Seq(Connections)
    BY <1>0, <1>4 DEF Accept, Acceptable
  <2>2. thread' \in [Connections -> Holding \cup {"none", "rejecting", "closed"}]
    BY <1>0, <1>4, <2>1 DEF Accept, Goto, Holding
  <2>3. active_connections' \in Nat
    BY <1>0, <1>4 DEF Accept
  <2> QED
    BY <1>0, <1>4, <2>1, <2>2, <2>3 DEF Accept, feed, clients
<1>5. CASE SpawnFails
  <2>1. Head(backlog) \in Connections /\ Tail(backlog) \in Seq(Connections)
    BY <1>0, <1>5 DEF SpawnFails, Acceptable
  <2> QED
    BY <1>0, <1>5, <2>1 DEF SpawnFails, Drop, Forget, Goto, Closed, feed
<1>6. ASSUME NEW c \in Connections, Reject(c) PROVE TypeOK'
  BY <1>0, <1>6 DEF Reject, Goto, Answer, Drop, Forget, Closed, feed
<1>7. CASE AcceptFails
  <2>1. << >> \in Seq(Connections)
    OBVIOUS
  <2> QED
    BY <1>0, <1>7, <2>1 DEF AcceptFails
<1>8. ASSUME NEW c \in Connections, ReadRequest(c) PROVE TypeOK'
  BY <1>0, <1>8 DEF ReadRequest, Goto, Holding, feed, clients
<1>9. ASSUME NEW c \in Connections, ReadFails(c) PROVE TypeOK'
  BY <1>0, <1>9 DEF ReadFails, Goto, Holding, feed, clients
<1>10. ASSUME NEW c \in Connections, Execute(c) PROVE TypeOK'
  <2>1. thread' \in [Connections -> Holding \cup {"none", "rejecting", "closed"}]
    BY <1>0, <1>10 DEF Execute, Goto, Holding
  <2>2. /\ subscriber' \in Connections \cup {None}
        /\ unwritten' \in [Connections -> BOOLEAN]
    BY <1>0, <1>10 DEF Execute, Emit, feed
  <2> QED
    BY <1>0, <1>10, <2>1, <2>2 DEF Execute, clients
<1>11. ASSUME NEW c \in Connections, WriteResponse(c) PROVE TypeOK'
  BY <1>0, <1>11 DEF WriteResponse, Goto, Holding, Answer, feed
<1>12. ASSUME NEW c \in Connections, WriteMessages(c) PROVE TypeOK'
  BY <1>0, <1>12 DEF WriteMessages, Answer, connections
<1>13. ASSUME NEW c \in Connections, WriteFails(c) PROVE TypeOK'
  BY <1>0, <1>13 DEF WriteFails, Goto, Holding, clients
<1>14. ASSUME NEW c \in Connections, EndOfStream(c) PROVE TypeOK'
  BY <1>0, <1>14 DEF EndOfStream, Goto, Holding, feed, clients
<1>15. ASSUME NEW c \in Connections, Leave(c) PROVE TypeOK'
  <2>1. c \in PermitHolders
    BY <1>0, <1>15 DEF Leave, PermitHolders, Holding
  <2>2. active_connections - 1 \in Nat
    BY <2>1, HolderIsCounted DEF IInv
  <2> QED
    BY <1>0, <1>15, <2>2 DEF Leave, Drop, Forget, Goto, Closed, feed
<1>16. CASE UNCHANGED vars
  BY <1>0, <1>16 DEF vars, connections, feed, clients
<1> QED
  BY <1>0, <1>1, <1>2, <1>3, <1>4, <1>5, <1>6, <1>7, <1>8, <1>9, <1>10, <1>11,
     <1>12, <1>13, <1>14, <1>15, <1>16
     DEF Next, AcceptLoopStep, ThreadStep, ClientStep

\* What waits is served by no thread, and waits once: a connection is made
\* once, and only one at the head of the backlog leaves it.
LEMMA WaitStep ==
  ASSUME IInv, [Next]_vars
  PROVE  BacklogWaits'
<1>0. TypeOK /\ BacklogWaits
  BY DEF IInv
<1> USE DEF BacklogWaits, TypeOK
\* A step that leaves the backlog alone, in which no client becomes absent and
\* no thread takes up or gives up a connection that has none.
<1>a. ASSUME backlog' = backlog, listening' = listening,
             \A d \in Connections : thread'[d] = "none" <=> thread[d] = "none",
             \A d \in Connections : client'[d] = "absent" <=> client[d] = "absent"
      PROVE  BacklogWaits'
  <2>1. \A i \in 1..Len(backlog) : backlog[i] \in Connections
    BY <1>0
  <2> QED
    BY <1>0, <1>a, <2>1
\* A step of the thread of c that leaves client alone, or answers or closes.
<1>b. ASSUME NEW c \in Connections, thread[c] # "none",
             \/ thread' = thread
             \/ \E s : s # "none" /\ Goto(c, s),
             \/ client' = client
             \/ Closed(c)
             \/ \E a \in {"streaming", "answered"} : Answer(c, a),
             backlog' = backlog, listening' = listening
      PROVE  BacklogWaits'
  <2>1. \A d \in Connections : thread'[d] = "none" <=> thread[d] = "none"
    BY <1>0, <1>b DEF Goto
  <2>2. \A d \in Connections : client'[d] = "absent" <=> client[d] = "absent"
    BY <1>0, <1>b DEF Closed, Answer
  <2> QED
    BY <1>a, <1>b, <2>1, <2>2
\* The head of the backlog leaves it for a thread or for good.
<1>c. ASSUME backlog # << >>, backlog' = Tail(backlog), listening' = listening,
             NEW s, s # "none", Goto(Head(backlog), s),
             client' = client \/ Closed(Head(backlog))
      PROVE  BacklogWaits'
  <2>1. /\ Head(backlog) = backlog[1] /\ backlog[1] \in Connections
        /\ Len(backlog') = Len(backlog) - 1 /\ Len(backlog) \in Nat
        /\ \A i \in 1..Len(backlog') : backlog'[i] = backlog[i + 1]
        /\ \A i \in 1..Len(backlog) : backlog[i] \in Connections
    BY <1>0, <1>c
  <2>2. \A d \in Connections : client'[d] = "absent" <=> client[d] = "absent"
    BY <1>0, <1>c, <2>1 DEF Closed
  <2>3. \A d \in Connections : d # Head(backlog) => thread'[d] = thread[d]
    BY <1>0, <1>c, <2>1 DEF Goto
  <2>4. client[Head(backlog)] # "absent"
    BY <1>0, <1>c, <2>1
  <2>5. \A d \in Connections :
          listening' /\ client'[d] = "absent" => thread'[d] = "none"
    BY <1>0, <1>c, <2>2, <2>3, <2>4
  <2>6. ASSUME NEW i \in 1..Len(backlog')
        PROVE  thread'[backlog'[i]] = "none" /\ client'[backlog'[i]] # "absent"
    <3>1. i + 1 \in 1..Len(backlog) /\ i + 1 # 1 /\ 1 \in 1..Len(backlog)
      BY <2>1
    <3>2. backlog[i + 1] # Head(backlog)
      BY <1>0, <2>1, <3>1
    <3> QED
      BY <1>0, <2>1, <2>2, <2>3, <3>1, <3>2
  <2>7. ASSUME NEW i \in 1..Len(backlog'), NEW j \in 1..Len(backlog'),
               backlog'[i] = backlog'[j]
        PROVE  i = j
    <3>1. i + 1 \in 1..Len(backlog) /\ j + 1 \in 1..Len(backlog)
      BY <2>1
    <3>2. i + 1 = j + 1
      BY <1>0, <2>1, <2>7, <3>1
    <3> QED
      BY <3>2
  <2> QED
    BY <2>5, <2>6, <2>7
<1>1. ASSUME NEW c \in Connections, Connect(c) PROVE BacklogWaits'
  <2>1. /\ Len(backlog) \in Nat /\ Len(backlog') = Len(backlog) + 1
        /\ backlog'[Len(backlog) + 1] = c
        /\ \A i \in 1..Len(backlog) :
             backlog'[i] = backlog[i] /\ backlog[i] \in Connections
    BY <1>0, <1>1 DEF Connect
  <2>2. \A i \in 1..Len(backlog) : backlog[i] # c
    BY <1>0, <1>1 DEF Connect
  <2>3. client'[c] = "silent" /\ thread'[c] = "none"
    BY <1>0, <1>1 DEF Connect
  <2>4. \A d \in Connections : d # c => client'[d] = client[d]
    BY <1>0, <1>1 DEF Connect
  <2>5. thread' = thread /\ listening' = listening
    BY <1>1 DEF Connect
  <2>6. ASSUME NEW i \in 1..Len(backlog')
        PROVE  thread'[backlog'[i]] = "none" /\ client'[backlog'[i]] # "absent"
    <3>1. i = Len(backlog) + 1 \/ i \in 1..Len(backlog)
      BY <2>1
    <3> QED
      BY <1>0, <2>1, <2>2, <2>3, <2>4, <2>5, <3>1
  <2>7. ASSUME NEW i \in 1..Len(backlog'), NEW j \in 1..Len(backlog'),
               backlog'[i] = backlog'[j]
        PROVE  i = j
    <3>1. /\ i = Len(backlog) + 1 \/ i \in 1..Len(backlog)
          /\ j = Len(backlog) + 1 \/ j \in 1..Len(backlog)
      BY <2>1
    <3> QED
      BY <1>0, <2>1, <2>2, <2>7, <3>1
  <2>8. \A d \in Connections :
          listening' /\ client'[d] = "absent" => thread'[d] = "none"
    BY <1>0, <2>3, <2>4, <2>5
  <2> QED
    BY <2>6, <2>7, <2>8
<1>2. ASSUME NEW c \in Connections, Send(c) \/ HangUp(c) PROVE BacklogWaits'
  <2>1. \A d \in Connections : client'[d] = "absent" <=> client[d] = "absent"
    BY <1>0, <1>2 DEF Send, HangUp
  <2>2. backlog' = backlog /\ listening' = listening /\ thread' = thread
    BY <1>2 DEF Send, HangUp, connections
  <2> QED
    BY <1>a, <2>1, <2>2
<1>3. CASE Accept
  BY <1>c, <1>3 DEF Accept, Acceptable, clients
<1>4. CASE SpawnFails
  BY <1>c, <1>4 DEF SpawnFails, Acceptable, Drop
<1>5. ASSUME NEW c \in Connections, Reject(c) PROVE BacklogWaits'
  BY <1>b, <1>5 DEF Reject, Drop
<1>6. CASE AcceptFails
  BY <1>6 DEF AcceptFails
<1>7. ASSUME NEW c \in Connections, ThreadStep(c) PROVE BacklogWaits'
  <2>1. CASE ReadRequest(c)
    BY <1>b, <2>1 DEF ReadRequest, clients
  <2>2. CASE ReadFails(c)
    BY <1>b, <2>2 DEF ReadFails, clients
  <2>3. CASE Execute(c)
    BY <1>b, <2>3 DEF Execute, clients
  <2>4. CASE WriteResponse(c)
    BY <1>b, <2>4 DEF WriteResponse
  <2>5. CASE WriteMessages(c)
    BY <1>b, <2>5 DEF WriteMessages, connections
  <2>6. CASE WriteFails(c)
    BY <1>b, <2>6 DEF WriteFails, clients
  <2>7. CASE EndOfStream(c)
    BY <1>b, <2>7 DEF EndOfStream, clients
  <2>8. CASE Leave(c)
    BY <1>b, <2>8 DEF Leave, Drop
  <2> QED
    BY <1>7, <2>1, <2>2, <2>3, <2>4, <2>5, <2>6, <2>7, <2>8 DEF ThreadStep
<1>8. CASE UNCHANGED vars
  BY <1>0, <1>8 DEF vars, connections, clients
<1> QED
  BY <1>1, <1>2, <1>3, <1>4, <1>5, <1>6, <1>7, <1>8
     DEF Next, AcceptLoopStep, ClientStep

\* The counter stays the number of the holders of permits.
LEMMA PermitStep ==
  ASSUME IInv, [Next]_vars
  PROVE  PermitsMatchThreads'
<1>0. TypeOK /\ BacklogWaits /\ PermitsMatchThreads
  BY DEF IInv
<1>t. /\ thread \in [Connections -> Holding \cup {"none", "rejecting", "closed"}]
      /\ active_connections \in Nat /\ MaxConnections \in Nat \ {0}
  BY <1>0, RuntimeAssumption DEF TypeOK
\* The thread of c goes on, or is one that never had a permit.
<1>a. ASSUME NEW c \in Connections, NEW s, Goto(c, s),
             s \in Holding <=> thread[c] \in Holding,
             active_connections' = active_connections
      PROVE  PermitsMatchThreads'
  BY <1>0, <1>t, <1>a, HoldersUnchanged DEF Goto
\* No thread moves.
<1>b. ASSUME thread' = thread, active_connections' = active_connections
      PROVE  PermitsMatchThreads'
  <2>1. PermitHolders' = PermitHolders
    BY <1>b DEF PermitHolders
  <2> QED
    BY <1>0, <1>b, <2>1 DEF PermitsMatchThreads
<1>1. CASE Accept
  <2> DEFINE c == Head(backlog)
  <2>1. c \in Connections /\ thread[c] = "none"
    BY <1>0, <1>1 DEF Accept, Acceptable, TypeOK, BacklogWaits
  <2> HIDE DEF c
  <2>2. CASE Acquire
    <3>1. active_connections' = active_connections + 1 /\ Goto(c, "reading")
      BY <1>1, <2>2 DEF Accept, c
    <3>2. PermitHolders' = PermitHolders \cup {c} /\ c \notin PermitHolders
      BY <1>t, <2>1, <3>1 DEF PermitHolders, Goto, Holding
    <3>3. Cardinality(PermitHolders') = Cardinality(PermitHolders) + 1
      BY <3>2, HoldersFinite, FS_AddElement
    <3>4. active_connections' <= MaxConnections
      BY <1>t, <2>2, <3>1 DEF Acquire
    <3> QED
      BY <1>0, <3>1, <3>3, <3>4 DEF PermitsMatchThreads
  <2>3. CASE ~Acquire
    <3>1. active_connections' = active_connections /\ Goto(c, "rejecting")
      BY <1>1, <2>3 DEF Accept, c
    <3> QED
      BY <1>a, <2>1, <3>1 DEF Holding
  <2> QED
    BY <2>2, <2>3
<1>2. CASE SpawnFails
  <2>1. Head(backlog) \in Connections /\ thread[Head(backlog)] = "none"
    BY <1>0, <1>2 DEF SpawnFails, Acceptable, TypeOK, BacklogWaits
  <2> QED
    BY <1>a, <1>2, <2>1 DEF SpawnFails, Drop, Holding
<1>3. ASSUME NEW c \in Connections, Reject(c) PROVE PermitsMatchThreads'
  BY <1>a, <1>3 DEF Reject, Drop, Holding
<1>4. CASE AcceptFails
  <2>1. PermitHolders' = {}
    BY <1>4 DEF AcceptFails, PermitHolders, Holding
  <2> QED
    BY <1>t, <1>4, <2>1, FS_EmptySet DEF AcceptFails, PermitsMatchThreads
<1>5. ASSUME NEW c \in Connections, ThreadStep(c) PROVE PermitsMatchThreads'
  <2>1. CASE ReadRequest(c)
    BY <1>a, <2>1 DEF ReadRequest, Holding
  <2>2. CASE ReadFails(c)
    BY <1>a, <2>2 DEF ReadFails, Holding
  <2>3. CASE Execute(c)
    BY <1>a, <2>3 DEF Execute, Holding
  <2>4. CASE WriteResponse(c)
    BY <1>a, <2>4 DEF WriteResponse, Holding
  <2>5. CASE WriteMessages(c)
    BY <1>b, <2>5 DEF WriteMessages, connections
  <2>6. CASE WriteFails(c)
    BY <1>a, <2>6 DEF WriteFails, Holding
  <2>7. CASE EndOfStream(c)
    BY <1>a, <2>7 DEF EndOfStream, Holding
  <2>8. CASE Leave(c)
    <3>1. /\ active_connections' = active_connections - 1
          /\ thread[c] = "leaving" /\ Goto(c, "closed")
      BY <2>8 DEF Leave, Drop
    <3>2. PermitHolders' = PermitHolders \ {c} /\ c \in PermitHolders
      BY <1>t, <3>1 DEF PermitHolders, Goto, Holding
    <3>3. Cardinality(PermitHolders') = Cardinality(PermitHolders) - 1
      BY <3>2, HoldersFinite, FS_RemoveElement
    <3> QED
      BY <1>0, <1>t, <3>1, <3>3 DEF PermitsMatchThreads
  <2> QED
    BY <1>5, <2>1, <2>2, <2>3, <2>4, <2>5, <2>6, <2>7, <2>8 DEF ThreadStep
<1>6. ASSUME NEW c \in Connections, ClientStep(c) PROVE PermitsMatchThreads'
  BY <1>b, <1>6 DEF ClientStep, Connect, Send, HangUp, connections
<1>7. CASE UNCHANGED vars
  BY <1>b, <1>7 DEF vars, connections
<1> QED
  BY <1>1, <1>2, <1>3, <1>4, <1>5, <1>6, <1>7 DEF Next, AcceptLoopStep

-----------------------------------------------------------------------------
\* The initial states satisfy the invariant.
LEMMA InitIInv == Init => IInv
<1> SUFFICES ASSUME Init PROVE IInv
  OBVIOUS
<1>1. TypeOK
  BY DEF Init, TypeOK
<1>2. BacklogWaits
  BY DEF Init, BacklogWaits
<1>3. PermitHolders = {}
  BY DEF Init, PermitHolders, Holding
<1>4. PermitsMatchThreads
  BY <1>3, FS_EmptySet, RuntimeAssumption DEF Init, PermitsMatchThreads
<1> QED
  BY <1>1, <1>2, <1>4 DEF IInv

\* The invariant holds in every reachable state.
THEOREM Invariance == Spec => []IInv
<1>1. IInv /\ [Next]_vars => IInv'
  BY TypeStep, WaitStep, PermitStep DEF IInv
<1> QED
  BY <1>1, InitIInv, PTL DEF Spec

\* Every variable of the server keeps its type; the counter never goes below
\* zero, though Drop subtracts without looking (runtime.rs).
THEOREM TypeCorrect == Spec => []TypeOK
<1>1. IInv => TypeOK
  BY DEF IInv
<1> QED
  BY <1>1, Invariance, PTL

\* The counter is the number of threads that hold a permit and is at most
\* MAX_ACTIVE_CONNECTIONS, whatever the number of connections and however each
\* of them ends.
THEOREM PermitsConserved == Spec => []PermitsMatchThreads
<1>1. IInv => PermitsMatchThreads
  BY DEF IInv
<1> QED
  BY <1>1, Invariance, PTL
=============================================================================
