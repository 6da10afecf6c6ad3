-------------------------- MODULE MCMessageHistory --------------------------
(***************************************************************************)
(* Bounded instances of MessageHistory: a few calls, POSTs and messages,   *)
(* pages of two, two milliseconds.                                         *)
(***************************************************************************)
EXTENDS MessageHistory, TLC

\* Agents, POSTs and calls are interchangeable.
Symmetry == Permutations(Agents) \cup Permutations(Posts) \cup Permutations(Calls)
=============================================================================
