---------------------------- MODULE MCProposals ----------------------------
(***************************************************************************)
(* Proposals for TLC: calls are interchangeable.                           *)
(***************************************************************************)
EXTENDS Proposals, TLC

Symmetry == Permutations(Calls)
=============================================================================
