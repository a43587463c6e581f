--------------------------- MODULE MCSqliteStore ---------------------------
(* TLC instances of SqliteStore: which client runs in which process. *)
EXTENDS SqliteStore, TLC

CONSTANTS c1, c2, c3, p1, p2

\* Two tasks of one process, and one of another.
TwoAndOne == (c1 :> p1) @@ (c2 :> p1) @@ (c3 :> p2)

\* One task in each of two processes.
OneEach == (c1 :> p1) @@ (c3 :> p2)

=============================================================================
