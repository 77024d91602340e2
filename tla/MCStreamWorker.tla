--------------------------- MODULE MCStreamWorker ---------------------------
(* Instances of StreamWorker for TLC; the bounds are in the .cfg files.     *)
EXTENDS StreamWorker
=============================================================================
