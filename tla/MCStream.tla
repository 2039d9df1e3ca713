------------------------------ MODULE MCStream ------------------------------
(* Stream between two ends, with the setups that TLC explores.             *)
EXTENDS Stream

CONSTANTS near, far

MCEnd == {near, far}

OneWay(n, k, how) == [writes |-> [e \in MCEnd |-> IF e = near THEN n ELSE 0],
                      blocks |-> k, full |-> TRUE, read |-> how]
BothWays(n, m, how) == [writes |-> [e \in MCEnd |-> IF e = near THEN n ELSE m],
                        blocks |-> {1}, full |-> FALSE, read |-> how]

MCSetups ==
  {OneWay(5, {1}, "msg"), OneWay(5, {1}, "nowait"), OneWay(3, {1, 2}, "msg"),
   BothWays(4, 1, "msg"), BothWays(3, 2, "nowait")}

\* both ends write and report, and the socket may refuse
MCBlocked == {[BothWays(4, 2, "msg") EXCEPT !.full = TRUE]}
=============================================================================
