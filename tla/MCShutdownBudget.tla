-------------------------- MODULE MCShutdownBudget --------------------------
(* ShutdownBudget for TLC. *)
EXTENDS ShutdownBudget, TLC

Symmetric == Permutations(AuthWorkers)

====
