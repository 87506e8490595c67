----------------------------- MODULE MCLifecycle -----------------------------
(* Lifecycle for TLC: a caller of stop, a signal and two workers. *)
EXTENDS Lifecycle
=============================================================================
