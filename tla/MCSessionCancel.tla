---------------------------- MODULE MCSessionCancel ----------------------------
(***************************************************************************)
(* The instance of MCSession for the ledger, with the record of accepted   *)
(* cancellations.                                                          *)
(***************************************************************************)
EXTENDS MCSession, SessionCancel
=============================================================================
