------------------------------- MODULE MCPort -------------------------------
(* Port on small sets of IRPs. *)
EXTENDS Port, TLC

Symmetry == Permutations(FuncIrps) \cup Permutations(StopIrps)
=============================================================================
