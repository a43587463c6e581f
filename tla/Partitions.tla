----------------------------- MODULE Partitions -----------------------------
(***************************************************************************)
(* The partitions of the SQLite event store: which database an aggregate   *)
(* lives in, when it is opened, created and named, the map of cached       *)
(* connections, the lazy-create retry, and enumeration                     *)
(* (crates/wee-events-sqlite/src/event_store: store.rs, strategies,        *)
(* backends).                                                              *)
(*                                                                         *)
(* Processes share the databases and nothing else.  The tasks of a process *)
(* share one map of connections behind a mutex, which a task holds for as  *)
(* long as it opens a database.  What a publish does inside its database   *)
(* is the subject of SqliteStore; here a database is the set of aggregates *)
(* that have events in it.  The strategies are those with named partitions;*)
(* the global one has a single partition.  A listing of remote databases   *)
(* reads their names at one instant: the code reads them one by one, and   *)
(* may only find more.                                                     *)
(***************************************************************************)
EXTENDS Naturals, FiniteSets

CONSTANTS Tasks, Processes,
          ProcessOf,     \* the process a task runs in
          Aggregates, Types, TypeOf, None,
          PartitionNames,
          Targets,       \* the databases there may be
          Deployments,   \* how the processes may have built their stores
          MaxAttempts,   \* LAZY_CREATE_PARTITION_READY_ATTEMPTS
          MaxCalls,      \* bound on the calls begun
          MaxFaults      \* bound on errors, dropped futures and crashes

\* The strategy (PartitionBy is "by"), the files of a directory or remote
\* databases, partition_for_aggregate(), the database of a partition, and what a
\* backend calls a database.
Deployment ==
  [strategy : {"aggregate", "type", "hashed", "by"}, catalog : {"local", "named"},
   partition : [Aggregates -> PartitionNames], target : [PartitionNames -> Targets],
   backend : [Targets -> PartitionNames]]

\* Aggregate ids round-trip through Display and FromStr, and a TypeStrategy
\* partition holds one type.  A file name encodes the partition's name; the
\* name of a remote database need not.
ASSUME DeploymentAssumption ==
  /\ Deployments \subseteq Deployment
  /\ \A d \in Deployments :
       /\ d.strategy = "aggregate" =>
            \A a, b \in Aggregates : d.partition[a] = d.partition[b] => a = b
       /\ d.strategy = "type" =>
            \A a, b \in Aggregates : d.partition[a] = d.partition[b] => TypeOf[a] = TypeOf[b]
       /\ d.catalog = "local" =>
            \A p, q \in PartitionNames : d.target[p] = d.target[q] => p = q

ASSUME TaskAssumption ==
  /\ ProcessOf \in [Tasks -> Processes]
  /\ TypeOf \in [Aggregates -> Types]
  /\ None \notin Tasks \cup PartitionNames \cup Aggregates \cup Types \cup {"ok", "failed"}

ASSUME BoundAssumption ==
  /\ MaxAttempts \in Nat \ {0}
  /\ MaxCalls \in Nat
  /\ MaxFaults \in Nat

VARIABLES deployment,  \* chosen once for all processes
          exists,      \* the databases there are
          recorded,    \* recorded[d]: the logical name in d's metadata, or None
          rows,        \* rows[d]: the aggregates with events in d
          connections, \* connections[p]: the partitions process p has cached
          mutex,       \* the task that holds the map of a process, or None
          pc, call, target, todo, found, attempt, answer,   \* of each task
          before,      \* history: the aggregates with events when a read began
          calls, faults

databases == <<exists, recorded, rows>>
taskVars == <<pc, call, target, todo, found, attempt, answer, before>>
vars == <<deployment, databases, connections, mutex, taskVars, calls, faults>>

Strategy == deployment.strategy
Catalog == deployment.catalog
PartitionOf == deployment.partition
TargetOf == deployment.target
BackendName == deployment.backend

Call ==
  [op : {"publish", "load"}, what : Aggregates]
    \cup [op : {"enumerate"}, what : Types \cup {None}]

Stored == UNION {rows[d] : d \in Targets}

\* The aggregates a call is about: its own, or those of the type enumerated.
Wanted(c) ==
  IF c.op = "enumerate" THEN {a \in Aggregates : c.what \in {None, TypeOf[a]}}
  ELSE {c.what}

Homed(p) == {a \in Aggregates : PartitionOf[a] = p}

\* read_plan() and read_plan_by_type(): the partition's key is enough to know
\* that it holds nothing of the type, or is itself the answer.
Skip(p, c) == Strategy \in {"aggregate", "type"} /\ Homed(p) \cap Wanted(c) = {}

\* Mutant of Direct: a partition of a type is not looked into either.
DirectByType(p, c) == Strategy = "type" /\ ~Skip(p, c)

Direct(p, c) == Strategy = "aggregate" /\ ~Skip(p, c)

----------------------------------------------------------------------------

Init ==
  /\ deployment \in Deployments
  /\ exists = {}
  /\ recorded = [d \in Targets |-> None]
  /\ rows = [d \in Targets |-> {}]
  /\ connections = [p \in Processes |-> {}]
  /\ mutex = [p \in Processes |-> None]
  /\ pc = [t \in Tasks |-> "idle"]
  /\ call = [t \in Tasks |-> None]
  /\ target = [t \in Tasks |-> None]
  /\ todo = [t \in Tasks |-> {}]
  /\ found = [t \in Tasks |-> {}]
  /\ attempt = [t \in Tasks |-> 0]
  /\ answer = [t \in Tasks |-> None]
  /\ before = [t \in Tasks |-> {}]
  /\ calls = 0
  /\ faults = 0

Goto(t, s) == pc' = [pc EXCEPT ![t] = s]

Database(t) == TargetOf[target[t]]

\* load(), publish() and enumerate_aggregates(), _by_type().
Invoke(t, c) ==
  /\ pc[t] = "idle"
  /\ calls < MaxCalls
  /\ calls' = calls + 1
  /\ call' = [call EXCEPT ![t] = c]
  /\ before' = [before EXCEPT ![t] = IF c.op = "publish" THEN {} ELSE Stored]
  /\ IF c.op = "enumerate"
       THEN Goto(t, "list") /\ UNCHANGED target
       ELSE Goto(t, "lookup") /\ target' = [target EXCEPT ![t] = PartitionOf[c.what]]
  /\ UNCHANGED <<databases, connections, mutex, todo, found, attempt, answer, faults>>

\* A call ends; of what it worked with, only what it found is left.
Finish(t, a) ==
  /\ answer' = [answer EXCEPT ![t] = a]
  /\ target' = [target EXCEPT ![t] = None]
  /\ todo' = [todo EXCEPT ![t] = {}]
  /\ attempt' = [attempt EXCEPT ![t] = 0]
  /\ Goto(t, "return")

GoesOn == UNCHANGED <<target, todo, attempt, answer>>

\* A load is answered; an enumeration goes on with its next partition.
ReadDone(t) ==
  IF call[t].op = "load" THEN Finish(t, "ok") ELSE Goto(t, "scan") /\ GoesOn

Free(t) == mutex[ProcessOf[t]] = None
Cached(t) == target[t] \in connections[ProcessOf[t]]

\* The connection is in the map.
UseCached(t) ==
  /\ pc[t] = "lookup"
  /\ Free(t)
  /\ Cached(t)
  /\ Goto(t, "use")
  /\ UNCHANGED <<databases, connections, mutex, call, target, todo, found, attempt,
                 answer, before, calls, faults>>

\* ensure_partition_open() opens what is not there,
\* open_partition_if_exists() does not.
MayOpen(t) == call[t].op = "publish" \/ Database(t) \in exists

\* Opening begins; the map stays locked.
StartOpening(t) ==
  /\ pc[t] = "lookup"
  /\ Free(t)
  /\ ~Cached(t)
  /\ MayOpen(t)
  /\ mutex' = [mutex EXCEPT ![ProcessOf[t]] = t]
  /\ Goto(t, "open")
  /\ UNCHANGED <<databases, connections, call, target, todo, found, attempt, answer,
                 before, calls, faults>>

\* There is nothing to read.
Absent(t) ==
  /\ pc[t] = "lookup"
  /\ Free(t)
  /\ ~Cached(t)
  /\ ~MayOpen(t)
  /\ ReadDone(t)
  /\ UNCHANGED <<databases, connections, mutex, call, found, before, calls, faults>>

\* The target is ensured, opened and migrated.
OpenTarget(t) ==
  /\ pc[t] = "open"
  /\ exists' = exists \cup {Database(t)}
  /\ Goto(t, "prepare")
  /\ UNCHANGED <<recorded, rows, connections, mutex, call, target, todo, found, attempt,
                 answer, before, calls, faults>>

Release(t) ==
  mutex' = [mutex EXCEPT ![ProcessOf[t]] = IF @ = t THEN None ELSE @]

OursToName(t) == recorded[Database(t)] \in {None, target[t]}

\* The connection is put into the map and the map unlocked.
Connect(t) ==
  /\ connections' = [connections EXCEPT ![ProcessOf[t]] = @ \cup {target[t]}]
  /\ Release(t)
  /\ Goto(t, "use")

\* Mutant of Prepare: a reader does not record the name.
PrepareForWriter(t) ==
  /\ pc[t] = "prepare"
  /\ OursToName(t)
  /\ recorded' = [recorded EXCEPT ![Database(t)] =
       IF call[t].op = "publish" THEN target[t] ELSE @]
  /\ Connect(t)
  /\ UNCHANGED <<exists, rows, call, target, todo, found, attempt, answer, before,
                 calls, faults>>

\* prepare_connection_for_partition(): ensure_partition_name() records the
\* name unless there is one, which must be the same.
Prepare(t) ==
  /\ pc[t] = "prepare"
  /\ OursToName(t)
  /\ recorded' = [recorded EXCEPT ![Database(t)] = target[t]]
  /\ Connect(t)
  /\ UNCHANGED <<exists, rows, call, target, todo, found, attempt, answer, before,
                 calls, faults>>

\* The database is recorded under another name.
Mismatch(t) ==
  /\ pc[t] = "prepare"
  /\ ~OursToName(t)
  /\ Release(t)
  /\ Finish(t, "failed")
  /\ UNCHANGED <<databases, connections, call, found, before, calls, faults>>

\* The publish is accepted.
Append(t) ==
  /\ pc[t] = "use"
  /\ call[t].op = "publish"
  /\ rows' = [rows EXCEPT ![Database(t)] = @ \cup {call[t].what}]
  /\ Finish(t, "ok")
  /\ UNCHANGED <<exists, recorded, connections, mutex, call, found, before, calls, faults>>

\* The publish conflicts, or has no events: its database is there all the same.
AppendNothing(t) ==
  /\ pc[t] = "use"
  /\ call[t].op = "publish"
  /\ Finish(t, "ok")
  /\ UNCHANGED <<databases, connections, mutex, call, found, before, calls, faults>>

\* The SELECT of a load, of ScanAll or of ScanType.
Query(t) ==
  /\ pc[t] = "use"
  /\ call[t].op # "publish"
  /\ found' = [found EXCEPT ![t] = @ \cup (rows[Database(t)] \cap Wanted(call[t]))]
  /\ ReadDone(t)
  /\ UNCHANGED <<databases, connections, mutex, call, before, calls, faults>>

----------------------------------------------------------------------------
(* The lazy-create retry of publish *)

\* The namespace "does not exist" yet: the partition is to be opened again,
\* unless this was the last attempt.
NotReady(t) ==
  /\ Catalog = "named"
  /\ pc[t] \in {"open", "prepare", "use"}
  /\ call[t].op = "publish"
  /\ Release(t)
  /\ IF attempt[t] + 1 < MaxAttempts
       THEN Goto(t, "forget") /\ GoesOn
       ELSE Finish(t, "failed")
  /\ UNCHANGED <<databases, connections, call, found, before, calls, faults>>

\* The cached connection is removed before the next attempt.
Forget(t) ==
  /\ pc[t] = "forget"
  /\ Free(t)
  /\ connections' = [connections EXCEPT ![ProcessOf[t]] = @ \ {target[t]}]
  /\ attempt' = [attempt EXCEPT ![t] = @ + 1]
  /\ Goto(t, "lookup")
  /\ UNCHANGED <<databases, mutex, call, target, todo, found, answer, before, calls, faults>>

----------------------------------------------------------------------------
(* Enumeration *)

\* The default of partition_from_target_name(): the backend's name is taken for
\* the partition's.  Any name is one to PartitionBy, none to the hashed strategy.
NameAsIs(d) == IF Strategy = "by" THEN {BackendName[d]} ELSE {}

\* A database without metadata is looked into by the strategies that can
\* tell the partition from its events.
Guessed(d) ==
  IF Strategy \in {"aggregate", "type"} THEN {PartitionOf[a] : a \in rows[d]} ELSE NameAsIs(d)

\* The partitions of the catalog: the files of the directory, or the names the
\* databases record.
Listed ==
  IF Catalog = "local" THEN {p \in PartitionNames : TargetOf[p] \in exists}
  ELSE UNION {IF recorded[d] = None THEN Guessed(d) ELSE {recorded[d]} : d \in exists}

\* The backend's name of a database without metadata is no "bucket-N".
Unparsable ==
  Catalog = "named" /\ Strategy = "hashed" /\ \E d \in exists : recorded[d] = None

\* Mutant of List: only what this process has open is known.
ListNothing(t) ==
  /\ pc[t] = "list"
  /\ ~Unparsable
  /\ Goto(t, "cached")
  /\ UNCHANGED <<databases, connections, mutex, call, target, todo, found, attempt, answer,
                 before, calls, faults>>

\* catalog.partitions()
List(t) ==
  /\ pc[t] = "list"
  /\ ~Unparsable
  /\ todo' = [todo EXCEPT ![t] = Listed]
  /\ Goto(t, "cached")
  /\ UNCHANGED <<databases, connections, mutex, call, target, found, attempt, answer,
                 before, calls, faults>>

ListFails(t) ==
  /\ pc[t] = "list"
  /\ Unparsable
  /\ Finish(t, "failed")
  /\ UNCHANGED <<databases, connections, mutex, call, found, before, calls, faults>>

\* all_known_partitions() adds the partitions this process has open.
AddCached(t) ==
  /\ pc[t] = "cached"
  /\ Free(t)
  /\ todo' = [todo EXCEPT ![t] = @ \cup connections[ProcessOf[t]]]
  /\ Goto(t, "scan")
  /\ UNCHANGED <<databases, connections, mutex, call, target, found, attempt, answer,
                 before, calls, faults>>

\* enumerate_partition(): try_join_all runs the partitions of a call side by
\* side, here one after the other in any order.
Scan(t, p) ==
  /\ pc[t] = "scan"
  /\ p \in todo[t]
  /\ todo' = [todo EXCEPT ![t] = @ \ {p}]
  /\ target' = [target EXCEPT ![t] = p]
  /\ found' = [found EXCEPT ![t] = IF Direct(p, call[t]) THEN @ \cup Homed(p) ELSE @]
  /\ IF Skip(p, call[t]) \/ Direct(p, call[t]) THEN UNCHANGED pc ELSE Goto(t, "lookup")
  /\ UNCHANGED <<databases, connections, mutex, call, attempt, answer, before, calls, faults>>

ScanDone(t) ==
  /\ pc[t] = "scan"
  /\ todo[t] = {}
  /\ Finish(t, "ok")
  /\ UNCHANGED <<databases, connections, mutex, call, found, before, calls, faults>>

----------------------------------------------------------------------------

\* The tasks T forget their calls.
Reset(T) ==
  /\ pc' = [t \in Tasks |-> IF t \in T THEN "idle" ELSE pc[t]]
  /\ call' = [t \in Tasks |-> IF t \in T THEN None ELSE call[t]]
  /\ target' = [t \in Tasks |-> IF t \in T THEN None ELSE target[t]]
  /\ todo' = [t \in Tasks |-> IF t \in T THEN {} ELSE todo[t]]
  /\ found' = [t \in Tasks |-> IF t \in T THEN {} ELSE found[t]]
  /\ attempt' = [t \in Tasks |-> IF t \in T THEN 0 ELSE attempt[t]]
  /\ answer' = [t \in Tasks |-> IF t \in T THEN None ELSE answer[t]]
  /\ before' = [t \in Tasks |-> IF t \in T THEN {} ELSE before[t]]

Return(t) ==
  /\ pc[t] = "return"
  /\ Reset({t})
  /\ UNCHANGED <<databases, connections, mutex, calls, faults>>

Fault == faults < MaxFaults /\ faults' = faults + 1

\* Mutant of Error: an early return that keeps the map locked.
ErrorLocked(t) ==
  /\ Fault
  /\ pc[t] \in {"open", "prepare", "use", "list"}
  /\ Finish(t, "failed")
  /\ UNCHANGED <<databases, connections, mutex, call, found, before, calls>>

\* The catalog, the connection or a statement fails.
Error(t) ==
  /\ Fault
  /\ pc[t] \in {"open", "prepare", "use", "list"}
  /\ Release(t)
  /\ Finish(t, "failed")
  /\ UNCHANGED <<databases, connections, call, found, before, calls>>

\* The future is dropped, and the guard of the map with it.
Dropped(t) ==
  /\ Fault
  /\ pc[t] \notin {"idle", "return"}
  /\ Release(t)
  /\ Reset({t})
  /\ UNCHANGED <<databases, connections, calls>>

\* A process dies and starts afresh: only the databases are left.
Restart(p) ==
  /\ Fault
  /\ connections' = [connections EXCEPT ![p] = {}]
  /\ mutex' = [mutex EXCEPT ![p] = None]
  /\ Reset({t \in Tasks : ProcessOf[t] = p})
  /\ UNCHANGED <<databases, calls>>

Proceed(t) ==
  \/ UseCached(t) \/ StartOpening(t) \/ Absent(t)
  \/ OpenTarget(t) \/ Prepare(t) \/ Mismatch(t)
  \/ Append(t) \/ AppendNothing(t) \/ Query(t)
  \/ Forget(t)
  \/ List(t) \/ ListFails(t) \/ AddCached(t)
  \/ \E p \in PartitionNames : Scan(t, p)
  \/ ScanDone(t)
  \/ Return(t)

Next ==
  /\ \/ \E t \in Tasks :
          \/ \E c \in Call : Invoke(t, c)
          \/ Proceed(t)
          \/ NotReady(t)
          \/ Error(t)
          \/ Dropped(t)
     \/ \E p \in Processes : Restart(p)
  /\ UNCHANGED deployment

Spec == Init /\ [][Next]_vars

----------------------------------------------------------------------------

TypeOK ==
  /\ deployment \in Deployments
  /\ exists \subseteq Targets
  /\ recorded \in [Targets -> PartitionNames \cup {None}]
  /\ rows \in [Targets -> SUBSET Aggregates]
  /\ connections \in [Processes -> SUBSET PartitionNames]
  /\ mutex \in [Processes -> Tasks \cup {None}]
  /\ pc \in [Tasks -> {"idle", "lookup", "open", "prepare", "use", "forget", "list",
                       "cached", "scan", "return"}]
  /\ call \in [Tasks -> Call \cup {None}]
  /\ target \in [Tasks -> PartitionNames \cup {None}]
  /\ todo \in [Tasks -> SUBSET PartitionNames]
  /\ found \in [Tasks -> SUBSET Aggregates]
  /\ attempt \in [Tasks -> 0..(MaxAttempts - 1)]
  /\ answer \in [Tasks -> {"ok", "failed", None}]
  /\ before \in [Tasks -> SUBSET Aggregates]
  /\ calls \in 0..MaxCalls
  /\ faults \in 0..MaxFaults

Answered(t) == answer[t] = "ok" /\ call[t].op # "publish"

\* A load or an enumeration sees every aggregate it is about that had events
\* when it began, whichever process published them, whatever that process and
\* this one have open or crashed in the middle of.
ReadsSeeCommitted ==
  \A t \in Tasks : Answered(t) => before[t] \cap Wanted(call[t]) \subseteq found[t]

\* What a load or an enumeration finds has events, and is what was asked for.
FoundIsStored ==
  \A t \in Tasks : Answered(t) => found[t] \subseteq Stored \cap Wanted(call[t])

\* That much holds where partitions are looked into: of all strategies but the
\* one that puts each aggregate into a database of its own.
ScannedIsStored == Strategy # "aggregate" => FoundIsStored

\* An aggregate's events are in the database of its partition, and that
\* database records the partition's name, so that a fresh process finds it and
\* no second partition mapped to the same database gets in.
StoredUnderItsName ==
  \A d \in Targets : \A a \in rows[d] :
    d = TargetOf[PartitionOf[a]] /\ recorded[d] = PartitionOf[a]

\* The map of a process is locked by the task that opens a database, and by
\* nobody else: no error, retry, dropped future or crash leaves it locked, which
\* would stop every call of the process, and no two tasks open at once.
MapLockedByOpener ==
  /\ TypeOK
  /\ \A t \in Tasks : pc[t] \in {"open", "prepare"} <=> mutex[ProcessOf[t]] = t

=============================================================================
