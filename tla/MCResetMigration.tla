--------------------------- MODULE MCResetMigration ---------------------------
(* Two scenes, two resets, two crashes, two files locked or not written.        *)
EXTENDS ResetMigration

CONSTANTS s1, s2
=============================================================================
