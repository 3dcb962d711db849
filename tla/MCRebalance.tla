---------------------------- MODULE MCRebalance -----------------------------
(***************************************************************************)
(* RebalanceRead for TLC: nodes are interchangeable, and so are the ids.   *)
(***************************************************************************)
EXTENDS RebalanceRead, TLC

Symmetry == Permutations(Nodes) \cup Permutations(Jobs) \cup Permutations(Tasks)
=============================================================================
