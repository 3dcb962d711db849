------------------------------ MODULE MCRepair ------------------------------
(***************************************************************************)
(* Repair for TLC: nodes are interchangeable, and so are the ids.          *)
(***************************************************************************)
EXTENDS Repair, TLC

Symmetry ==
  Permutations(Nodes) \cup Permutations(Jobs) \cup Permutations(Tasks)
    \cup Permutations(Checks)
=============================================================================
