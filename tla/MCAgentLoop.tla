---------------------------- MODULE MCAgentLoop ----------------------------
(***************************************************************************)
(* AgentLoop for TLC: connections, callers and drains are all            *)
(* interchangeable.                                                        *)
(***************************************************************************)
EXTENDS AgentLoop, TLC

Symmetry == Permutations(Conns) \cup Permutations(Callers) \cup Permutations(Drains)
=============================================================================
