--------------------------- MODULE MCServerRuntime ---------------------------
(* Instances of ServerRuntime for TLC; the bounds are in the .cfg files.    *)
EXTENDS ServerRuntime
=============================================================================
