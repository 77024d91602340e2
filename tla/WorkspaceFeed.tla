---------------------------- MODULE WorkspaceFeed ----------------------------
(***************************************************************************)
(* What a subscription to the daemon promises its client, with no mention  *)
(* of events, operations or locks: the client is shown one authoritative   *)
(* state after another, in order and without omission, starting from the   *)
(* one current when it connected, until its feed is cut off.  Only the     *)
(* latest client is fed, through a bounded backlog.                        *)
(***************************************************************************)
EXTENDS Naturals, Sequences, SequencesExt

CONSTANTS Readers, Capacity, Limit, None

VARIABLES authority,   \* the authoritative state, with its sequence number
          live,        \* the reader being fed, or None
          connected,   \* the readers whose feed has not come to an end
          known,       \* what each reader has been shown last
          backlog      \* the states each reader is still to be shown

vars == <<authority, live, connected, known, backlog>>

Unknown == [sequence |-> 0, project |-> None, active |-> {}]

Init ==
  /\ authority.sequence = 0
  /\ live = None
  /\ connected = {}
  /\ known = [r \in Readers |-> Unknown]
  /\ backlog = [r \in Readers |-> << >>]

Fed == live \in connected /\ Len(backlog[live]) < Capacity

\* The state changes, and the reader being fed is owed the new one; a reader
\* that cannot take it is cut off instead.
Publish ==
  /\ authority.sequence < Limit
  /\ authority'.sequence = authority.sequence + 1
  /\ IF Fed
     THEN /\ backlog' = [backlog EXCEPT ![live] = Append(@, authority')]
          /\ UNCHANGED live
     ELSE /\ live' = None
          /\ UNCHANGED backlog
  /\ UNCHANGED <<connected, known>>

\* When the numbers are used up the state may change unannounced.
Unannounced ==
  /\ authority.sequence = Limit
  /\ authority'.sequence = Limit
  /\ UNCHANGED <<live, connected, known, backlog>>

Connect(r) ==
  /\ r \notin connected
  /\ live' = r
  /\ connected' = connected \cup {r}
  /\ known' = [known EXCEPT ![r] = authority]
  /\ backlog' = [backlog EXCEPT ![r] = << >>]
  /\ UNCHANGED authority

Advance(r) ==
  /\ r \in connected
  /\ backlog[r] # << >>
  /\ known' = [known EXCEPT ![r] = Head(backlog[r])]
  /\ backlog' = [backlog EXCEPT ![r] = Tail(@)]
  /\ UNCHANGED <<authority, live, connected>>

\* The connection is lost, or the feed of a reader cut off is at its end.
Disconnect(r) ==
  /\ r \in connected
  /\ connected' = connected \ {r}
  /\ known' = [known EXCEPT ![r] = Unknown]
  /\ backlog' = [backlog EXCEPT ![r] = << >>]
  /\ UNCHANGED <<authority, live>>

\* The authority starts anew: with what it has kept, and without readers.
Restart ==
  /\ authority'.sequence = 0
  /\ live' = None
  /\ connected' = {}
  /\ known' = [r \in Readers |-> Unknown]
  /\ backlog' = [r \in Readers |-> << >>]

Next == \/ Publish
        \/ Unannounced
        \/ Restart
        \/ \E r \in Readers : Connect(r) \/ Advance(r) \/ Disconnect(r)

Spec == Init /\ [][Next]_vars
=============================================================================
