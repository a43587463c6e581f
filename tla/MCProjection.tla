---------------------------- MODULE MCProjection ----------------------------
(* TLC instance of Projection. *)
EXTENDS Projection

=============================================================================
