----------------------------- MODULE MCTaskGroup -----------------------------
(* TaskGroup on small sets of tasks and threads. *)
EXTENDS TaskGroup, TLC
=============================================================================
