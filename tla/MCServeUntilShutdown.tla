------------------------ MODULE MCServeUntilShutdown ------------------------
(* Instances of ServeUntilShutdown for TLC. *)
EXTENDS ServeUntilShutdown
=============================================================================
