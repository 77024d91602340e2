----------------------------- MODULE MCWorkspace -----------------------------
(* Instances of Workspace for TLC: calls are model values.                  *)
EXTENDS Workspace
=============================================================================
