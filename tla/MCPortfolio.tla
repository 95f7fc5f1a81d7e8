----------------------------- MODULE MCPortfolio -----------------------------
(* Values for the constants of Portfolio. *)
EXTENDS Portfolio, TLC

RequestSymmetry == Permutations(Requests)
===============================================================================
