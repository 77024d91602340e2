---------------------------- MODULE MCSupervisor ----------------------------
(* An instance of Supervisor for TLC: the restart budget bounds it.         *)
EXTENDS Supervisor
=============================================================================
