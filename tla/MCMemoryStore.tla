---------------------------- MODULE MCMemoryStore ----------------------------
(* TLC instances of MemoryStore. *)
EXTENDS MemoryStore

=============================================================================
