--------------------------- MODULE MCSchemaWatch ---------------------------
(* Small instances of SchemaWatch for TLC.                                 *)
EXTENDS SchemaWatch

CONSTANTS table, aux

TheNames == {table, aux}
JustAux == {aux}
SomePrograms ==
  {{}, {"callback"}, {"ahead", "attach", "late"}, {"midtx", "failing"},
   {"inhook"}}

=============================================================================
