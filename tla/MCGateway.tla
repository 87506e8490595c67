------------------------------ MODULE MCGateway ------------------------------
(* Gateway for TLC: descriptors, clients and workers are interchangeable. *)
EXTENDS Gateway, TLC

Symmetry == Permutations(Fds) \cup Permutations(Clients) \cup Permutations(Workers)
=============================================================================
