------------------------- MODULE MCTursoProvisioner -------------------------
(* TLC instance of TursoProvisioner: two tasks in one process, one in another. *)
EXTENDS TursoProvisioner, TLC

CONSTANTS t1, t2, t3, p1, p2

ProcessesOfTasks == (t1 :> p1) @@ (t2 :> p1) @@ (t3 :> p2)

Symmetry == Permutations(Names) \cup Permutations({t1, t2})

=============================================================================
