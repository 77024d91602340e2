----------------------------- MODULE SessionFeed -----------------------------
(***************************************************************************)
(* The session implements the feed: the events in a subscriber's channel   *)
(* stand for the states its client reaches by applying them one by one.    *)
(***************************************************************************)
EXTENDS Session

Connected == {s \in Subscribers : Holds(s)}

Backlog ==
  [s \in Subscribers |-> [i \in 1 .. Len(queue[s]) |-> ViewAfter(s, i)]]

Feed == INSTANCE WorkspaceFeed WITH
  Readers   <- Subscribers,
  Capacity  <- SubscriberCapacity,
  Limit     <- MaxSequence,
  authority <- Snapshot,
  live      <- subscriber,
  connected <- Connected,
  known     <- view,
  backlog   <- Backlog

\* session.rs promises every subscriber the feed of WorkspaceFeed: sending a
\* snapshot and then one event per change under one lock amounts to sending
\* each state in full, in order, and cutting the client off when it lags.
ImplementsFeed == Feed!Spec
=============================================================================
