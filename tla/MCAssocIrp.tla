----------------------------- MODULE MCAssocIrp -----------------------------
(* AssocIrp on small sets of child ports. *)
EXTENDS AssocIrp, TLC
=============================================================================
