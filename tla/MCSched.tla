------------------------------- MODULE MCSched -------------------------------
(* RRScheduler with every group on the same connection. *)
EXTENDS RRScheduler, TLC
CONSTANT c1
Symmetry == Permutations(Groups)
OneConn == [g \in Groups |-> c1]
=============================================================================
