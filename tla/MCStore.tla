------------------------------ MODULE MCStore ------------------------------
(***************************************************************************)
(* Store for TLC: runs are interchangeable, and so are calls.              *)
(***************************************************************************)
EXTENDS Store, TLC

Symmetry == Permutations(Runs) \cup Permutations(Callers)
=============================================================================
