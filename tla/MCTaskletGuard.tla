--------------------------- MODULE MCTaskletGuard ---------------------------
(* TaskletGuard with a few threads. *)
EXTENDS TaskletGuard, TLC
=============================================================================
