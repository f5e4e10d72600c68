--------------------------- MODULE MCSchemaStore ---------------------------
(* Small instances of SchemaStore for TLC. *)
EXTENDS SchemaStore

CONSTANTS c1, c2, edit, register, p1, p2
=============================================================================
