--------------------------- MODULE MCInstanceIds ---------------------------
(* InstanceIds on small instances. *)
EXTENDS InstanceIds
=============================================================================
