------------------------------ MODULE Supervisor ------------------------------
(***************************************************************************)
(* The desktop host as the supervisor of the daemon process                *)
(* (apps/desktop/src-tauri/src/lib.rs, start_daemon and run): it spawns a  *)
(* daemon, publishes a client for its endpoint to the commands and workers *)
(* of the host, keeps the child to kill it when the application exits, and *)
(* has a watcher task replace a daemon that has terminated, once.          *)
(*                                                                         *)
(* Daemons are numbered in the order they are spawned; each has an         *)
(* endpoint and a token of its own.  The user may quit at any moment, the  *)
(* middle of a replacement included.                                       *)
(***************************************************************************)
EXTENDS Naturals

CONSTANT None   \* no client, no child

VARIABLES
  incarnation,   \* daemons spawned so far: the number of the last one
  alive,         \* daemons whose process exists
  listening,     \* those of them that accept connections
  client,        \* the daemon DaemonState.client talks to, or None
  child,         \* the daemon DaemonState.child would kill, or None
  restart_used,  \* RestartBudget
  step,          \* where the watcher task of the last daemon is
  host           \* the application: "running", "exiting" or "ended"

vars == <<incarnation, alive, listening, client, child, restart_used, step, host>>

\* When setup has started the first daemon.
Init ==
  /\ incarnation = 1 /\ alive = {1} /\ listening = {}
  /\ client = 1 /\ child = 1
  /\ restart_used = FALSE
  /\ step = "watching"
  /\ host = "running"

-----------------------------------------------------------------------------
(* The daemon process.                                                      *)

\* It has read its token and bound its endpoint.
Listen ==
  /\ \E d \in alive \ listening : listening' = listening \cup {d}
  /\ UNCHANGED <<incarnation, alive, client, child, restart_used, step, host>>

Die ==
  /\ \E d \in alive : /\ alive' = alive \ {d}
                      /\ listening' = listening \ {d}
  /\ UNCHANGED <<incarnation, client, child, restart_used, step, host>>

-----------------------------------------------------------------------------
(* The watcher task.                                                        *)

\* What the watcher may be told of the daemon.  An error in reading the
\* output of the process does not mean that it is gone.
Observations == IF incarnation \in alive THEN {"output", "streamError"}
                                         ELSE {"terminated"}

\* Mutant: an error is taken for the end of the process.
ShouldReplaceOnError(observation) == observation # "output"

ShouldReplace(observation) == observation = "terminated"

\* The client is taken away first, then the child.
Discard ==
  /\ step = "watching"
  /\ \E observation \in Observations : ShouldReplace(observation)
  /\ client' = None /\ child' = None
  /\ step' = "replacing"
  /\ UNCHANGED <<incarnation, alive, listening, restart_used, host>>

\* Mutant: the restart budget is not spent.
SpawnAlways ==
  /\ step = "replacing"
  /\ incarnation' = incarnation + 1
  /\ alive' = alive \cup {incarnation + 1}
  /\ step' = "spawned"
  /\ UNCHANGED <<listening, client, child, restart_used, host>>

\* The budget allows one restart: start_daemon spawns the process...
Spawn ==
  /\ step = "replacing"
  /\ ~restart_used
  /\ restart_used' = TRUE
  /\ incarnation' = incarnation + 1
  /\ alive' = alive \cup {incarnation + 1}
  /\ step' = "spawned"
  /\ UNCHANGED <<listening, client, child, host>>

\* ... or fails to spawn it, or to hand it the token and kills it again; the
\* budget is spent all the same, and nobody watches any more...
SpawnFails ==
  /\ step = "replacing"
  /\ ~restart_used
  /\ restart_used' = TRUE
  /\ step' = "over"
  /\ UNCHANGED <<incarnation, alive, listening, client, child, host>>

GiveUp ==
  /\ step = "replacing"
  /\ restart_used
  /\ step' = "over"
  /\ UNCHANGED <<incarnation, alive, listening, client, child, restart_used, host>>

\* ... then lets the host use it...
PublishClient ==
  /\ step = "spawned"
  /\ client' = incarnation
  /\ step' = "published"
  /\ UNCHANGED <<incarnation, alive, listening, child, restart_used, host>>

\* ... then lets the exit kill it, and watches it.
StoreChild ==
  /\ step = "published"
  /\ child' = incarnation
  /\ step' = "watching"
  /\ UNCHANGED <<incarnation, alive, listening, client, restart_used, host>>

\* Tasks of the host run until its process ends.
Watch ==
  /\ host # "ended"
  /\ Discard \/ Spawn \/ SpawnFails \/ GiveUp \/ PublishClient \/ StoreChild

-----------------------------------------------------------------------------
(* The application.  Closing the window only hides it.                      *)

\* RunEvent::Exit: the child of the moment, if there is one, is killed.
Exit ==
  /\ host = "running"
  /\ host' = "exiting"
  /\ alive' = alive \ {child}
  /\ listening' = listening \ {child}
  /\ child' = None
  /\ UNCHANGED <<incarnation, client, restart_used, step>>

End ==
  /\ host = "exiting"
  /\ host' = "ended"
  /\ UNCHANGED <<incarnation, alive, listening, client, child, restart_used, step>>

-----------------------------------------------------------------------------
Next == Listen \/ Die \/ Watch \/ Exit \/ End

Spec == Init /\ [][Next]_vars

-----------------------------------------------------------------------------
\* Type invariant; there are at most two daemons, for one may be replaced.
TypeOK ==
  /\ incarnation \in 1 .. 2
  /\ alive \subseteq 1 .. incarnation /\ listening \subseteq alive
  /\ client \in {1, 2, None} /\ child \in {1, 2, None}
  /\ restart_used \in BOOLEAN
  /\ step \in {"watching", "replacing", "spawned", "published", "over"}
  /\ host \in {"running", "exiting", "ended"}

\* As long as the application runs there is one daemon, the last, whatever
\* dies and is replaced in between: the host never talks to another, and once
\* a replacement is through it talks to that one and would kill that one.
\* (A daemon replaced while it lives would go on holding the state database.)
HostHoldsDaemon ==
  /\ alive \subseteq {incarnation}
  /\ client \in {incarnation, None}
  /\ host = "running" /\ step = "watching" =>
       client = incarnation /\ child = incarnation

\* ADR 0001: "An explicit application exit shuts the daemon down."
ExitShutsDaemonDown == host = "ended" => alive = {}
=============================================================================
