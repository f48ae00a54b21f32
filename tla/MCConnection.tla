---------------------------- MODULE MCConnection ----------------------------
(* Connections, calls and runs are interchangeable. *)
EXTENDS Connection, TLC

Symmetry == Permutations(Conns) \cup Permutations(Calls) \cup Permutations(Runs)
=============================================================================
