---------------------------- MODULE MCPartitions ----------------------------
(* TLC instances of Partitions: two processes, the first with two tasks; two
   aggregates of different types. *)
EXTENDS Partitions, TLC

CONSTANTS p1, p2, t1, t2, t3, a, b, ta, tb, da, db

ProcessesOfTasks == (t1 :> p1) @@ (t2 :> p1) @@ (t3 :> p2)
TypesOfAggregates == (a :> ta) @@ (b :> tb)

\* A database for each aggregate, or one for both.
Apart == [partition |-> (a :> "a") @@ (b :> "b"), target |-> ("a" :> da) @@ ("b" :> db),
          backend |-> (da :> "a") @@ (db :> "b")]
Together == [Apart EXCEPT !.partition = (a :> "a") @@ (b :> "a")]
\* Two partitions whose names a provisioner maps to one database, which it calls
\* by the second.
Aliased == [Apart EXCEPT !.target = ("a" :> da) @@ ("b" :> da),
                         !.backend = (da :> "b") @@ (db :> "a")]

Deploy(strategy, catalog, placement) ==
  placement @@ [strategy |-> strategy, catalog |-> catalog]

FilePerAggregate == {Deploy("aggregate", "local", Apart)}

AllDeployments ==
  FilePerAggregate \cup {Deploy("type", "named", Aliased),
                         Deploy("hashed", "named", Together),
                         Deploy("by", "named", Aliased)}

\* The two tasks of p1 are interchangeable.
SiblingSymmetry == Permutations({t1, t2})

=============================================================================
