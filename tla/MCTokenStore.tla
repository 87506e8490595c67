---------------------------- MODULE MCTokenStore ----------------------------
(* TokenStore for TLC: two requests and an administrator with a view that may be stale. *)
EXTENDS TokenStore
=============================================================================
