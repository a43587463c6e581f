------------------------- MODULE MCSchemaMigration -------------------------
(* TLC instance of SchemaMigration: two openers of the newest binary, and one
   of the binary before it. *)
EXTENDS SchemaMigration, TLC

CONSTANTS new1, new2, old

Targets == (new1 :> 2) @@ (new2 :> 2) @@ (old :> 1)

=============================================================================
