------------------------------ MODULE MCProxy ------------------------------
(* Proxy with a bounded number of comings and goings of the peer. *)
EXTENDS Proxy
=============================================================================
