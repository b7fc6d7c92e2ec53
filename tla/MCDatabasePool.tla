--------------------------- MODULE MCDatabasePool ---------------------------
(* DatabasePool on small instances. *)
EXTENDS DatabasePool
=============================================================================
