----------------------------- MODULE MCPortfolio -----------------------------
(* Portfolio for TLC. *)
EXTENDS Portfolio, TLC

WorkerSymmetry == Permutations(Workers)
=============================================================================
