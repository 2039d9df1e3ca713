------------------------------- MODULE IoGate -------------------------------
(***************************************************************************)
(* What a port promises to the threads that use it and to the one that     *)
(* stops it: requests enter only while the gate is open, a stop that finds *)
(* requests inside waits for them while nobody else enters, the gate shuts *)
(* when nobody is inside, and a gate that has shut never opens again.      *)
(***************************************************************************)
CONSTANT Requests
VARIABLES phase, inside

vars == <<phase, inside>>

Init == phase = "closed" /\ inside = {}

Open == phase = "closed" /\ phase' = "open" /\ UNCHANGED inside

Enter(r) ==
    /\ phase = "open"
    /\ r \notin inside
    /\ inside' = inside \cup {r}
    /\ UNCHANGED phase

Leave(r) ==
    /\ r \in inside
    /\ inside' = inside \ {r}
    /\ UNCHANGED phase

Drain ==
    /\ phase = "open"
    /\ inside # {}
    /\ phase' = "draining"
    /\ UNCHANGED inside

Shut ==
    /\ phase \in {"closed", "open", "draining"}
    /\ inside = {}
    /\ phase' = "shut"
    /\ UNCHANGED inside

Next ==
    \/ Open \/ Drain \/ Shut
    \/ \E r \in Requests : Enter(r) \/ Leave(r)

Spec == Init /\ [][Next]_vars
=============================================================================
