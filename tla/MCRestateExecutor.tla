------------------------- MODULE MCRestateExecutor -------------------------
(* TLC instances of RestateExecutor: an effect for every command, and one for
   increments only. *)
EXTENDS RestateExecutor, TLC

CONSTANTS audit, notify

Filters == (audit :> {"increment", "decrement"}) @@ (notify :> {"increment"})

=============================================================================
