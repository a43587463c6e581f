-------------------------- MODULE Partitions_proofs --------------------------
(***************************************************************************)
(* Partitions for any processes, tasks, aggregates, databases and ways to  *)
(* map the one to the other: where events are, that readers find them, and *)
(* that the map of connections is never left locked.                       *)
(***************************************************************************)
EXTENDS Partitions, TLAPS

\* A task at one of these has a partition to look into.
Visiting == {"lookup", "open", "prepare", "use", "forget"}

\* A name is given to a database that is there; what is cached has its name.
NamesInv ==
  /\ \A d \in Targets : recorded[d] # None => d \in exists
  /\ \A p \in Processes : \A q \in connections[p] : recorded[TargetOf[q]] = q

LockInv == \A t \in Tasks : pc[t] \in {"open", "prepare"} <=> mutex[ProcessOf[t]] = t

\* Where a call is, and what it is about.
StepOf(t) ==
  /\ pc[t] = "idle" => call[t] = None /\ found[t] = {}
  /\ pc[t] # "idle" => call[t] \in Call
  /\ answer[t] # None => pc[t] = "return"
  /\ pc[t] \in {"list", "cached", "scan"} => call[t].op = "enumerate"
  /\ pc[t] = "forget" => call[t].op = "publish" /\ attempt[t] + 1 < MaxAttempts
  /\ pc[t] \in Visiting =>
       /\ target[t] \in PartitionNames
       /\ call[t].op # "enumerate" => target[t] = PartitionOf[call[t].what]

\* How far the database a task opens has come.
DatabaseOf(t) ==
  /\ pc[t] = "prepare" => Database(t) \in exists
  /\ pc[t] = "use" => recorded[Database(t)] = target[t]

\* An aggregate a read owes an answer for is found, or its partition is still
\* to be looked into, or is the one being looked into.
Owed(t, a) ==
  /\ pc[t] \in {"cached", "scan"} => a \in found[t] \/ PartitionOf[a] \in todo[t]
  /\ pc[t] \in Visiting =>
       a \in found[t] \/ PartitionOf[a] \in todo[t] \/ PartitionOf[a] = target[t]
  /\ answer[t] = "ok" => a \in found[t]

ReadOf(t) ==
  pc[t] # "idle" /\ call[t].op # "publish" =>
    /\ before[t] \subseteq Stored
    /\ \A a \in before[t] \cap Wanted(call[t]) : Owed(t, a)
    /\ Strategy # "aggregate" => found[t] \subseteq Stored \cap Wanted(call[t])

TaskInv(t) == StepOf(t) /\ DatabaseOf(t) /\ ReadOf(t)

IInv == /\ TypeOK
        /\ StoredUnderItsName
        /\ NamesInv
        /\ LockInv
        /\ \A t \in Tasks : TaskInv(t)

----------------------------------------------------------------------------
(* What is there *)

\* A deployment gives every aggregate a partition, and that a database.
LEMMA DeploymentMaps ==
  ASSUME TypeOK
  PROVE  /\ PartitionOf \in [Aggregates -> PartitionNames]
         /\ TargetOf \in [PartitionNames -> Targets]
         /\ Strategy \in {"aggregate", "type", "hashed", "by"}
         /\ Catalog \in {"local", "named"}
         /\ BackendName \in [Targets -> PartitionNames]
BY DeploymentAssumption
   DEF TypeOK, Deployment, PartitionOf, TargetOf, Strategy, Catalog, BackendName

\* Whatever has events has them in its partition's database, which is there
\* and is recorded under the partition's name.
LEMMA StoredIsHome ==
  ASSUME IInv, NEW a \in Stored
  PROVE  /\ a \in Aggregates
         /\ TargetOf[PartitionOf[a]] \in exists
         /\ a \in rows[TargetOf[PartitionOf[a]]]
         /\ recorded[TargetOf[PartitionOf[a]]] = PartitionOf[a]
         /\ PartitionOf[a] \in PartitionNames
<1>1. PICK d \in Targets : a \in rows[d]
  BY DEF Stored
<1>2. a \in Aggregates
  BY <1>1 DEF IInv, TypeOK
<1>3. d = TargetOf[PartitionOf[a]] /\ recorded[d] = PartitionOf[a]
  BY <1>1 DEF IInv, StoredUnderItsName
<1>4. PartitionOf[a] \in PartitionNames /\ PartitionOf[a] # None
  BY <1>2, DeploymentMaps, TaskAssumption DEF IInv
<1>5. d \in exists
  BY <1>3, <1>4 DEF IInv, NamesInv
<1> QED
  BY <1>1, <1>2, <1>3, <1>4, <1>5

\* A catalog lists the partition of whatever has events.
LEMMA ListedCoversStored ==
  ASSUME IInv, NEW a \in Stored
  PROVE  PartitionOf[a] \in Listed
<1>1. CASE Catalog = "local"
  BY <1>1, StoredIsHome DEF Listed
<1>2. CASE Catalog # "local"
  <2> DEFINE d == TargetOf[PartitionOf[a]]
             Names(b) == IF recorded[b] = None THEN Guessed(b) ELSE {recorded[b]}
  <2>1. d \in exists /\ PartitionOf[a] \in Names(d)
    BY StoredIsHome, TaskAssumption
  <2> QED
    BY <1>2, <2>1 DEF Listed
<1> QED
  BY <1>1, <1>2

----------------------------------------------------------------------------
(* What a step leaves of the others *)

\* Databases are created, named and written, never dropped, renamed or emptied.
Grows ==
  /\ exists \subseteq exists'
  /\ \A d \in Targets : recorded[d] # None => recorded'[d] = recorded[d]
  /\ \A d \in Targets : rows[d] \subseteq rows'[d]

Stays(t) ==
  /\ pc'[t] = pc[t] /\ call'[t] = call[t] /\ target'[t] = target[t]
  /\ todo'[t] = todo[t] /\ found'[t] = found[t] /\ attempt'[t] = attempt[t]
  /\ answer'[t] = answer[t] /\ before'[t] = before[t]

LEMMA SameMaps ==
  ASSUME UNCHANGED deployment
  PROVE  PartitionOf' = PartitionOf /\ TargetOf' = TargetOf /\ Strategy' = Strategy
BY DEF PartitionOf, TargetOf, Strategy

LEMMA StoredGrows ==
  ASSUME Grows
  PROVE  Stored \subseteq Stored'
BY DEF Grows, Stored

LEMMA UnchangedGrows ==
  ASSUME UNCHANGED databases
  PROVE  Grows
BY DEF databases, Grows

\* A task that does nothing keeps what it has.
LEMMA OthersStay ==
  ASSUME IInv, UNCHANGED deployment, Grows, NEW t \in Tasks, Stays(t)
  PROVE  TaskInv(t)'
<1> USE SameMaps
<1>0. TaskInv(t)
  BY DEF IInv
<1>1. StepOf(t)'
  BY <1>0 DEF TaskInv, StepOf, Stays
<1>2. DatabaseOf(t)'
  <2>1. pc[t] \in {"prepare", "use"} => target[t] \in PartitionNames /\ Database(t) \in Targets
    BY <1>0, DeploymentMaps DEF IInv, TaskInv, StepOf, Visiting, Database
  <2>2. Database(t)' = Database(t)
    BY DEF Database, Stays
  <2>3. pc[t] = "use" => recorded'[Database(t)] = target[t]
    BY <1>0, <2>1, TaskAssumption DEF TaskInv, DatabaseOf, Grows
  <2> QED
    BY <1>0, <2>2, <2>3 DEF TaskInv, DatabaseOf, Stays, Grows
<1>3. ReadOf(t)'
  BY <1>0, StoredGrows DEF TaskInv, ReadOf, Owed, Stays
<1> QED
  BY <1>1, <1>2, <1>3 DEF TaskInv

\* A step of one task is looked at in four parts, and what it does to the task.
LEMMA StepPreserves ==
  ASSUME IInv, UNCHANGED deployment, Grows, NEW t \in Tasks,
         \A u \in Tasks \ {t} : Stays(u),
         TypeOK', StoredUnderItsName', NamesInv', LockInv', TaskInv(t)'
  PROVE  IInv'
<1>1. ASSUME NEW u \in Tasks PROVE TaskInv(u)'
  BY OthersStay
<1> QED
  BY <1>1 DEF IInv

\* The map stays locked, or open, with the task that opens a database.
LEMMA LockStays ==
  ASSUME IInv, NEW t \in Tasks, \A u \in Tasks \ {t} : Stays(u), UNCHANGED mutex,
         pc'[t] \in {"open", "prepare"} <=> pc[t] \in {"open", "prepare"}
  PROVE  LockInv'
BY DEF IInv, LockInv, Stays

\* It is opened by a task that is through, and by nobody else.
LEMMA LockReleased ==
  ASSUME IInv, NEW t \in Tasks, \A u \in Tasks \ {t} : Stays(u), Release(t),
         pc'[t] \notin {"open", "prepare"}
  PROVE  LockInv'
<1>1. /\ mutex \in [Processes -> Tasks \cup {None}] /\ ProcessOf \in [Tasks -> Processes]
      /\ None \notin Tasks
  BY TaskAssumption DEF IInv, TypeOK
<1>2. mutex'[ProcessOf[t]] # t
  BY <1>1 DEF Release
<1>3. ASSUME NEW u \in Tasks \ {t}
      PROVE  mutex'[ProcessOf[u]] = u <=> mutex[ProcessOf[u]] = u
  BY <1>1 DEF Release
<1> QED
  BY <1>2, <1>3 DEF IInv, LockInv, Stays

\* Where nothing shared changes, the databases keep their properties.
LEMMA DatabasesStay ==
  ASSUME IInv, UNCHANGED <<deployment, databases, connections>>
  PROVE  StoredUnderItsName' /\ NamesInv'
BY SameMaps DEF IInv, StoredUnderItsName, NamesInv, databases

\* A step that changes nothing but its task, which opens nothing.
LEMMA QuietPreserves ==
  ASSUME IInv, UNCHANGED <<deployment, databases, connections, mutex>>, NEW t \in Tasks,
         \A u \in Tasks \ {t} : Stays(u),
         pc'[t] \in {"open", "prepare"} <=> pc[t] \in {"open", "prepare"},
         TypeOK', TaskInv(t)'
  PROVE  IInv'
BY UnchangedGrows, DatabasesStay, LockStays, StepPreserves

\* The same of one that opens the map, if it was the task's.
LEMMA ReleasePreserves ==
  ASSUME IInv, UNCHANGED <<deployment, databases, connections>>, NEW t \in Tasks,
         \A u \in Tasks \ {t} : Stays(u), Release(t),
         pc'[t] \notin {"open", "prepare"},
         TypeOK', TaskInv(t)'
  PROVE  IInv'
BY UnchangedGrows, DatabasesStay, LockReleased, StepPreserves

LEMMA ReleaseType ==
  ASSUME TypeOK, NEW t \in Tasks, Release(t)
  PROVE  mutex' \in [Processes -> Tasks \cup {None}]
BY TaskAssumption DEF TypeOK, Release

----------------------------------------------------------------------------
(* Beginning and ending a call *)

LEMMA InvokePreserves ==
  ASSUME IInv, UNCHANGED deployment, NEW t \in Tasks, NEW c \in Call, Invoke(t, c)
  PROVE  IInv'
<1>1. TypeOK
  BY DEF IInv
<1>2. c.op # "enumerate" => c.what \in Aggregates /\ PartitionOf[c.what] \in PartitionNames
  BY <1>1, DeploymentMaps DEF Call
<1>3. Stored \subseteq Aggregates
  BY <1>1 DEF TypeOK, Stored
<1>4. TypeOK'
  BY <1>1, <1>2, <1>3, BoundAssumption DEF TypeOK, Invoke, Goto, databases
<1>5. \A u \in Tasks \ {t} : Stays(u)
  BY <1>1 DEF TypeOK, Invoke, Goto, Stays
<1>6. /\ pc'[t] = IF c.op = "enumerate" THEN "list" ELSE "lookup"
      /\ call'[t] = c /\ answer'[t] = answer[t] /\ found'[t] = found[t]
      /\ c.op # "enumerate" => target'[t] = PartitionOf[c.what]
      /\ before'[t] = IF c.op = "publish" THEN {} ELSE Stored
  BY <1>1 DEF TypeOK, Invoke, Goto
<1>7. pc[t] = "idle" /\ answer[t] = None /\ found[t] = {}
  BY DEF Invoke, IInv, TaskInv, StepOf, TypeOK
<1>8. StepOf(t)' /\ DatabaseOf(t)'
  BY <1>2, <1>6, <1>7, SameMaps DEF StepOf, DatabaseOf, Visiting
<1>9. ReadOf(t)'
  <2>1. Stored \subseteq Stored'
    BY UnchangedGrows, StoredGrows DEF Invoke
  <2>2. before'[t] \subseteq Stored'
    BY <1>6, <2>1
  <2>3. c.op \in {"publish", "load", "enumerate"}
    BY DEF Call
  <2>4. ASSUME c.op # "publish", NEW a \in Wanted(c) PROVE Owed(t, a)'
    <3>1. CASE c.op = "enumerate"
      BY <1>6, <1>7, <3>1, SameMaps, TaskAssumption DEF Owed, Visiting
    <3>2. CASE c.op = "load"
      <4>1. a = c.what
        BY <2>4, <3>2 DEF Wanted
      <4> QED
        BY <1>6, <1>7, <3>2, <4>1, SameMaps, TaskAssumption DEF Owed, Visiting
    <3> QED
      BY <2>3, <2>4, <3>1, <3>2
  <2>5. found'[t] = {}
    BY <1>6, <1>7
  <2> QED
    BY <1>6, <2>2, <2>4, <2>5 DEF ReadOf
<1> QED
  BY <1>4, <1>5, <1>6, <1>7, <1>8, <1>9, QuietPreserves DEF Invoke, TaskInv

\* What a call works with, and how it ends.
LocalsType ==
  /\ pc \in [Tasks -> {"idle", "lookup", "open", "prepare", "use", "forget", "list",
                       "cached", "scan", "return"}]
  /\ target \in [Tasks -> PartitionNames \cup {None}]
  /\ todo \in [Tasks -> SUBSET PartitionNames]
  /\ attempt \in [Tasks -> 0..(MaxAttempts - 1)]
  /\ answer \in [Tasks -> {"ok", "failed", None}]

\* A call that has failed, or one that owes nothing more, returns.
LEMMA FinishType ==
  ASSUME TypeOK, NEW t \in Tasks, NEW a \in {"ok", "failed"}, Finish(t, a)
  PROVE  LocalsType' /\ pc'[t] = "return" /\ answer'[t] = a
<1>1. 0 \in 0..(MaxAttempts - 1)
  BY BoundAssumption
<1> QED
  BY <1>1 DEF TypeOK, LocalsType, Finish, Goto

\* One that may go on ends, or keeps what it works with.
LEMMA EndsOrGoesOn ==
  ASSUME TypeOK, NEW t \in Tasks, NEW a \in {"ok", "failed"}, NEW s \in {"scan", "forget"},
         Finish(t, a) \/ (Goto(t, s) /\ GoesOn)
  PROVE  /\ LocalsType'
         /\ \A u \in Tasks \ {t} :
              /\ pc'[u] = pc[u] /\ target'[u] = target[u] /\ todo'[u] = todo[u]
              /\ attempt'[u] = attempt[u] /\ answer'[u] = answer[u]
<1>1. CASE Finish(t, a)
  BY <1>1, FinishType DEF TypeOK, Finish, Goto
<1>2. CASE Goto(t, s) /\ GoesOn
  BY <1>2 DEF TypeOK, LocalsType, Goto, GoesOn
<1> QED
  BY <1>1, <1>2

LEMMA ReadDoneType ==
  ASSUME TypeOK, NEW t \in Tasks, ReadDone(t)
  PROVE  /\ LocalsType'
         /\ \A u \in Tasks \ {t} :
              /\ pc'[u] = pc[u] /\ target'[u] = target[u] /\ todo'[u] = todo[u]
              /\ attempt'[u] = attempt[u] /\ answer'[u] = answer[u]
BY EndsOrGoesOn DEF ReadDone

LEMMA FailedTask ==
  ASSUME IInv, UNCHANGED <<deployment, databases, call, found, before>>, NEW t \in Tasks,
         pc[t] # "idle", pc'[t] = "return", answer'[t] = "failed"
  PROVE  TaskInv(t)'
<1>1. TaskInv(t)
  BY DEF IInv
<1>2. StepOf(t)' /\ DatabaseOf(t)'
  BY <1>1 DEF TaskInv, StepOf, DatabaseOf, Visiting
<1>3. ReadOf(t)'
  BY <1>1, UnchangedGrows, StoredGrows, SameMaps DEF TaskInv, ReadOf, Owed, Visiting
<1> QED
  BY <1>2, <1>3 DEF TaskInv

\* A task that is reset owes nothing.
LEMMA ResetTask ==
  ASSUME NEW T, Reset(T), NEW t \in Tasks, t \in T
  PROVE  TaskInv(t)' /\ pc'[t] = "idle"
BY DEF Reset, TaskInv, StepOf, DatabaseOf, ReadOf, Owed, Visiting

LEMMA ResetType ==
  ASSUME TypeOK, NEW T, Reset(T)
  PROVE  /\ pc' \in [Tasks -> {"idle", "lookup", "open", "prepare", "use", "forget", "list",
                               "cached", "scan", "return"}]
         /\ call' \in [Tasks -> Call \cup {None}]
         /\ target' \in [Tasks -> PartitionNames \cup {None}]
         /\ todo' \in [Tasks -> SUBSET PartitionNames]
         /\ found' \in [Tasks -> SUBSET Aggregates]
         /\ attempt' \in [Tasks -> 0..(MaxAttempts - 1)]
         /\ answer' \in [Tasks -> {"ok", "failed", None}]
         /\ before' \in [Tasks -> SUBSET Aggregates]
         /\ \A u \in Tasks \ T : Stays(u)
<1>1. 0 \in 0..(MaxAttempts - 1)
  BY BoundAssumption
<1> QED
  BY <1>1 DEF TypeOK, Reset, Stays

LEMMA ReturnPreserves ==
  ASSUME IInv, UNCHANGED deployment, NEW t \in Tasks, Return(t)
  PROVE  IInv'
<1>1. TypeOK /\ Reset({t})
  BY DEF IInv, Return
<1>2. TypeOK'
  BY <1>1, ResetType DEF TypeOK, Return, databases
<1>3. /\ \A u \in Tasks \ {t} : Stays(u)
      /\ TaskInv(t)' /\ pc'[t] = "idle"
  BY <1>1, ResetType, ResetTask
<1> QED
  BY <1>2, <1>3, QuietPreserves DEF Return

----------------------------------------------------------------------------
(* Looking up and opening a partition *)

\* What a step that only moves a task on leaves as it was.
LEMMA GotoFrame ==
  ASSUME TypeOK, NEW t \in Tasks, NEW s, Goto(t, s),
         UNCHANGED <<call, target, todo, found, attempt, answer, before>>
  PROVE  pc'[t] = s /\ \A u \in Tasks \ {t} : Stays(u)
BY DEF TypeOK, Goto, Stays

\* A visit goes on: what it looks for, and what it owes, is as it was.
LEMMA VisitGoesOn ==
  ASSUME IInv, UNCHANGED deployment, Grows, NEW t \in Tasks, pc[t] \in Visiting,
         pc'[t] \in {"lookup", "open", "prepare", "use"},
         UNCHANGED <<call, target, todo, found, answer, before>>, DatabaseOf(t)'
  PROVE  TaskInv(t)'
<1>1. TaskInv(t)
  BY DEF IInv
<1>2. StepOf(t)'
  BY <1>1, SameMaps DEF TaskInv, StepOf, Visiting
<1>3. ReadOf(t)'
  <2>1. pc[t] # "idle"
    BY DEF Visiting
  <2> QED
    BY <1>1, <2>1, StoredGrows, SameMaps DEF TaskInv, ReadOf, Owed, Visiting
<1> QED
  BY <1>2, <1>3 DEF TaskInv

LEMMA UseCachedPreserves ==
  ASSUME IInv, UNCHANGED deployment, NEW t \in Tasks, UseCached(t)
  PROVE  IInv'
<1>1. TypeOK'
  BY DEF IInv, TypeOK, UseCached, Goto, databases
<1>2. pc'[t] = "use" /\ \A u \in Tasks \ {t} : Stays(u)
  BY GotoFrame DEF IInv, UseCached
<1>3. DatabaseOf(t)'
  <2>1. recorded[TargetOf[target[t]]] = target[t]
    BY TaskAssumption DEF IInv, NamesInv, UseCached, Cached
  <2> QED
    BY <1>2, <2>1, SameMaps DEF DatabaseOf, Database, UseCached, databases
<1>4. TaskInv(t)'
  BY <1>2, <1>3, VisitGoesOn, UnchangedGrows DEF UseCached, Visiting
<1> QED
  BY <1>1, <1>2, <1>4, QuietPreserves DEF UseCached

LEMMA StartOpeningPreserves ==
  ASSUME IInv, UNCHANGED deployment, NEW t \in Tasks, StartOpening(t)
  PROVE  IInv'
<1>1. TypeOK'
  BY DEF IInv, TypeOK, StartOpening, Goto, databases
<1>2. pc'[t] = "open" /\ \A u \in Tasks \ {t} : Stays(u)
  BY GotoFrame DEF IInv, StartOpening
<1>3. TaskInv(t)'
  <2>1. DatabaseOf(t)'
    BY <1>2 DEF DatabaseOf
  <2> QED
    BY <1>2, <2>1, VisitGoesOn, UnchangedGrows DEF StartOpening, Visiting
<1>4. LockInv'
  <2>1. /\ mutex \in [Processes -> Tasks \cup {None}] /\ ProcessOf \in [Tasks -> Processes]
        /\ None \notin Tasks
    BY TaskAssumption DEF IInv, TypeOK
  <2>2. mutex[ProcessOf[t]] = None /\ mutex' = [mutex EXCEPT ![ProcessOf[t]] = t]
    BY DEF StartOpening, Free
  <2>3. ASSUME NEW u \in Tasks \ {t}
        PROVE  mutex'[ProcessOf[u]] = u <=> mutex[ProcessOf[u]] = u
    BY <2>1, <2>2
  <2> QED
    BY <1>2, <2>1, <2>2, <2>3 DEF IInv, LockInv, Stays
<1> QED
  BY <1>1, <1>2, <1>3, <1>4, StepPreserves, UnchangedGrows, DatabasesStay DEF StartOpening

\* Where no database is, a read that looks for it owes nothing of it.
LEMMA NothingAbsent ==
  ASSUME IInv, NEW t \in Tasks, pc[t] \in Visiting, call[t].op # "publish",
         Database(t) \notin exists, NEW a \in before[t] \cap Wanted(call[t])
  PROVE  /\ a \in found[t] \/ PartitionOf[a] \in todo[t]
         /\ call[t].op = "load" => a \in found[t]
<1>1. TaskInv(t) /\ pc[t] # "idle"
  BY DEF IInv, Visiting
<1>2. a \in Stored /\ Owed(t, a)
  BY <1>1 DEF TaskInv, ReadOf
<1>3. PartitionOf[a] # target[t]
  BY <1>2, StoredIsHome DEF Database
<1>4. call[t].op = "load" => a = call[t].what /\ target[t] = PartitionOf[a]
  BY <1>1 DEF TaskInv, StepOf, Wanted
<1> QED
  BY <1>2, <1>3, <1>4 DEF Owed

\* A visit of a read ends: what was owed of the partition is found.
LEMMA ReadDoneTask ==
  ASSUME IInv, UNCHANGED <<deployment, databases, call, before>>, NEW t \in Tasks,
         pc[t] \in Visiting, call[t].op # "publish", ReadDone(t),
         found[t] \subseteq found'[t],
         Strategy # "aggregate" => found'[t] \subseteq Stored \cap Wanted(call[t]),
         \A a \in before[t] \cap Wanted(call[t]) :
           /\ a \in found'[t] \/ PartitionOf[a] \in todo[t]
           /\ call[t].op = "load" => a \in found'[t]
  PROVE  TaskInv(t)' /\ pc'[t] \in {"scan", "return"}
<1>1. TaskInv(t) /\ TypeOK /\ pc[t] # "idle" /\ answer[t] = None
  BY DEF IInv, Visiting, TaskInv, StepOf, TypeOK
<1>2. call[t] \in Call /\ call[t].op \in {"load", "enumerate"}
  BY <1>1 DEF TaskInv, StepOf, Call
<1>3. \/ call[t].op = "load" /\ pc'[t] = "return" /\ answer'[t] = "ok"
      \/ /\ call[t].op = "enumerate" /\ pc'[t] = "scan" /\ answer'[t] = None
         /\ todo'[t] = todo[t]
  BY <1>1, <1>2 DEF TypeOK, ReadDone, GoesOn, Finish, Goto
<1>4. StepOf(t)' /\ DatabaseOf(t)'
  BY <1>2, <1>3, TaskAssumption DEF StepOf, DatabaseOf, Visiting
<1>5. Stored' = Stored
  BY DEF Stored, databases
<1>6. ReadOf(t)'
  <2>1. before[t] \subseteq Stored
    BY <1>1 DEF TaskInv, ReadOf
  <2>2. ASSUME NEW a \in before[t] \cap Wanted(call[t]) PROVE Owed(t, a)'
    BY <1>3, SameMaps, TaskAssumption DEF Owed, Visiting
  <2> QED
    BY <1>5, <2>1, <2>2, SameMaps DEF ReadOf
<1> QED
  BY <1>3, <1>4, <1>6 DEF TaskInv

LEMMA AbsentPreserves ==
  ASSUME IInv, UNCHANGED deployment, NEW t \in Tasks, Absent(t)
  PROVE  IInv'
<1>1. TypeOK'
  BY ReadDoneType DEF IInv, TypeOK, LocalsType, Absent, databases
<1>2. \A u \in Tasks \ {t} : Stays(u)
  BY ReadDoneType DEF IInv, Absent, Stays
<1>3. /\ pc[t] \in Visiting /\ pc[t] = "lookup"
      /\ call[t].op # "publish" /\ Database(t) \notin exists
  BY DEF Absent, MayOpen, Visiting
<1>4. TaskInv(t)' /\ pc'[t] \in {"scan", "return"}
  <2>1. Strategy # "aggregate" => found[t] \subseteq Stored \cap Wanted(call[t])
    BY <1>3 DEF IInv, TaskInv, ReadOf
  <2>2. found' = found
    BY DEF Absent
  <2> QED
    BY <1>3, <2>1, <2>2, NothingAbsent, ReadDoneTask DEF Absent
<1> QED
  BY <1>1, <1>2, <1>3, <1>4, QuietPreserves DEF Absent

\* The database a visiting task looks into is one there may be.
LEMMA VisitedDatabase ==
  ASSUME IInv, NEW t \in Tasks, pc[t] \in Visiting
  PROVE  target[t] \in PartitionNames /\ Database(t) \in Targets
BY DeploymentMaps DEF IInv, TaskInv, StepOf, Database

LEMMA OpenTargetPreserves ==
  ASSUME IInv, UNCHANGED deployment, NEW t \in Tasks, OpenTarget(t)
  PROVE  IInv'
<1>0. pc[t] = "open" /\ pc[t] \in Visiting
  BY DEF OpenTarget, Visiting
<1>1. TypeOK'
  BY <1>0, VisitedDatabase DEF IInv, TypeOK, OpenTarget, Goto
<1>2. pc'[t] = "prepare" /\ \A u \in Tasks \ {t} : Stays(u)
  BY GotoFrame DEF IInv, OpenTarget
<1>3. Grows
  BY DEF OpenTarget, Grows
<1>4. TaskInv(t)'
  <2>1. DatabaseOf(t)'
    BY <1>2, SameMaps DEF DatabaseOf, Database, OpenTarget
  <2> QED
    BY <1>0, <1>2, <1>3, <2>1, VisitGoesOn DEF OpenTarget
<1>5. StoredUnderItsName' /\ NamesInv'
  BY SameMaps DEF IInv, StoredUnderItsName, NamesInv, OpenTarget
<1>6. LockInv'
  BY <1>0, <1>2, LockStays DEF OpenTarget
<1> QED
  BY <1>1, <1>2, <1>3, <1>4, <1>5, <1>6, StepPreserves

LEMMA PreparePreserves ==
  ASSUME IInv, UNCHANGED deployment, NEW t \in Tasks, Prepare(t)
  PROVE  IInv'
<1> DEFINE d == Database(t)
<1>0. /\ pc[t] = "prepare" /\ pc[t] \in Visiting
      /\ recorded' = [recorded EXCEPT ![d] = target[t]]
      /\ connections' = [connections EXCEPT ![ProcessOf[t]] = @ \cup {target[t]}]
      /\ Release(t) /\ Goto(t, "use")
      /\ recorded[d] \in {None, target[t]}
  BY DEF Prepare, Connect, OursToName, Visiting
<1>1. target[t] \in PartitionNames /\ d \in Targets /\ d \in exists
  BY <1>0, VisitedDatabase DEF IInv, TaskInv, DatabaseOf
<1>2. TypeOK'
  <2>1. mutex' \in [Processes -> Tasks \cup {None}]
    BY <1>0, ReleaseType DEF IInv
  <2> QED
    BY <1>0, <1>1, <2>1, TaskAssumption DEF IInv, TypeOK, Prepare, Goto
<1>3. pc'[t] = "use" /\ \A u \in Tasks \ {t} : Stays(u)
  BY <1>0, GotoFrame DEF IInv, Prepare
<1>4. recorded \in [Targets -> PartitionNames \cup {None}]
  BY DEF IInv, TypeOK
<1>5. Grows
  BY <1>0, <1>1, <1>4 DEF Prepare, Grows
<1>6. recorded'[d] = target[t]
  BY <1>0, <1>1, <1>4
<1>7. TaskInv(t)'
  <2>1. DatabaseOf(t)'
    BY <1>3, <1>6, SameMaps DEF DatabaseOf, Database, Prepare
  <2> QED
    BY <1>0, <1>3, <1>5, <2>1, VisitGoesOn DEF Prepare
<1>8. StoredUnderItsName'
  <2> SUFFICES ASSUME NEW e \in Targets, NEW a \in rows[e]
               PROVE  e = TargetOf[PartitionOf[a]] /\ recorded'[e] = PartitionOf[a]
    BY SameMaps DEF StoredUnderItsName, Prepare
  <2>1. a \in Stored
    BY DEF Stored
  <2>2. PartitionOf[a] # None
    BY <2>1, StoredIsHome, TaskAssumption
  <2> QED
    BY <1>5, <2>2 DEF IInv, StoredUnderItsName, Grows
<1>9. NamesInv'
  <2>1. ASSUME NEW e \in Targets, recorded'[e] # None PROVE e \in exists'
    BY <1>0, <1>1, <1>4, <2>1 DEF IInv, NamesInv, Prepare
  <2>2. ASSUME NEW p \in Processes, NEW q \in connections'[p]
        PROVE  recorded'[TargetOf[q]] = q
    <3>1. connections \in [Processes -> SUBSET PartitionNames]
      BY DEF IInv, TypeOK
    <3>2. CASE q \in connections[p]
      <4>1. q \in PartitionNames /\ TargetOf[q] \in Targets /\ q # None
        BY <3>1, <3>2, DeploymentMaps, TaskAssumption DEF IInv
      <4>2. recorded[TargetOf[q]] = q
        BY <3>2 DEF IInv, NamesInv
      <4> QED
        BY <1>5, <4>1, <4>2 DEF Grows
    <3>3. CASE q = target[t]
      BY <1>6, <3>3 DEF Database
    <3> QED
      BY <1>0, <3>1, <3>2, <3>3
  <2> QED
    BY <2>1, <2>2, SameMaps DEF NamesInv
<1>10. LockInv'
  BY <1>0, <1>3, LockReleased
<1> QED
  BY <1>2, <1>3, <1>5, <1>7, <1>8, <1>9, <1>10, StepPreserves

LEMMA MismatchPreserves ==
  ASSUME IInv, UNCHANGED deployment, NEW t \in Tasks, Mismatch(t)
  PROVE  IInv'
<1>1. TypeOK /\ Release(t) /\ Finish(t, "failed") /\ pc[t] = "prepare"
  BY DEF IInv, Mismatch
<1>2. pc'[t] = "return" /\ answer'[t] = "failed"
  BY <1>1, FinishType
<1>3. TypeOK'
  <2>1. mutex' \in [Processes -> Tasks \cup {None}]
    BY <1>1, ReleaseType
  <2> QED
    BY <1>1, <2>1, FinishType DEF TypeOK, LocalsType, Mismatch, databases
<1>4. \A u \in Tasks \ {t} : Stays(u)
  BY <1>1 DEF TypeOK, Mismatch, Finish, Goto, Stays
<1>5. TaskInv(t)'
  BY <1>1, <1>2, FailedTask DEF Mismatch
<1> QED
  BY <1>1, <1>2, <1>3, <1>4, <1>5, ReleasePreserves DEF Mismatch

----------------------------------------------------------------------------
(* Publishing and reading *)

\* A publish that is answered owes nothing.
LEMMA PublishedTask ==
  ASSUME IInv, UNCHANGED call, NEW t \in Tasks, pc[t] = "use", call[t].op = "publish",
         pc'[t] = "return"
  PROVE  TaskInv(t)'
<1>1. StepOf(t)
  BY DEF IInv, TaskInv
<1> QED
  BY <1>1 DEF TaskInv, StepOf, DatabaseOf, ReadOf, Visiting

LEMMA AppendPreserves ==
  ASSUME IInv, UNCHANGED deployment, NEW t \in Tasks, Append(t)
  PROVE  IInv'
<1> DEFINE d == Database(t)
           a == call[t].what
<1>0. /\ pc[t] = "use" /\ pc[t] \in Visiting /\ call[t].op = "publish"
      /\ rows' = [rows EXCEPT ![d] = @ \cup {a}] /\ Finish(t, "ok") /\ TypeOK
  BY DEF Append, Visiting, IInv
<1>1. target[t] \in PartitionNames /\ d \in Targets
  BY <1>0, VisitedDatabase
<1>2. a \in Aggregates /\ target[t] = PartitionOf[a] /\ recorded[d] = target[t]
  BY <1>0 DEF IInv, TaskInv, StepOf, DatabaseOf, Call
<1>3. pc'[t] = "return" /\ \A u \in Tasks \ {t} : Stays(u)
  BY <1>0, FinishType DEF TypeOK, Append, Finish, Goto, Stays
<1>4. TypeOK'
  BY <1>0, <1>1, <1>2, FinishType DEF TypeOK, LocalsType, Append
<1>5. Grows
  BY <1>0, <1>1 DEF TypeOK, Append, Grows
<1>6. TaskInv(t)'
  BY <1>0, <1>3, PublishedTask DEF Append
<1>7. StoredUnderItsName'
  <2> SUFFICES ASSUME NEW e \in Targets, NEW b \in rows'[e]
               PROVE  e = TargetOf[PartitionOf[b]] /\ recorded[e] = PartitionOf[b]
    BY SameMaps DEF StoredUnderItsName, Append
  <2>1. CASE b \in rows[e]
    BY <2>1 DEF IInv, StoredUnderItsName
  <2>2. CASE b \notin rows[e]
    <3>1. e = d /\ b = a
      BY <1>0, <2>2 DEF TypeOK
    <3> QED
      BY <1>2, <3>1 DEF Database
  <2> QED
    BY <2>1, <2>2
<1>8. NamesInv'
  BY SameMaps DEF IInv, NamesInv, Append
<1>9. LockInv'
  BY <1>0, <1>3, LockStays DEF Append
<1> QED
  BY <1>3, <1>4, <1>5, <1>6, <1>7, <1>8, <1>9, StepPreserves

LEMMA AppendNothingPreserves ==
  ASSUME IInv, UNCHANGED deployment, NEW t \in Tasks, AppendNothing(t)
  PROVE  IInv'
<1>0. pc[t] = "use" /\ call[t].op = "publish" /\ Finish(t, "ok") /\ TypeOK
  BY DEF AppendNothing, IInv
<1>1. pc'[t] = "return" /\ \A u \in Tasks \ {t} : Stays(u)
  BY <1>0, FinishType DEF TypeOK, AppendNothing, Finish, Goto, Stays
<1>2. TypeOK'
  BY <1>0, FinishType DEF TypeOK, LocalsType, AppendNothing, databases
<1>3. TaskInv(t)'
  BY <1>0, <1>1, PublishedTask DEF AppendNothing
<1> QED
  BY <1>0, <1>1, <1>2, <1>3, QuietPreserves DEF AppendNothing

\* The partition's database has what was owed of the partition.
LEMMA QueryPreserves ==
  ASSUME IInv, UNCHANGED deployment, NEW t \in Tasks, Query(t)
  PROVE  IInv'
<1> DEFINE d == Database(t)
<1>0. /\ pc[t] = "use" /\ pc[t] \in Visiting /\ call[t].op # "publish" /\ TypeOK
      /\ TaskInv(t) /\ pc[t] # "idle"
  BY DEF Query, Visiting, IInv
<1>1. d \in Targets /\ rows[d] \subseteq Stored /\ rows[d] \subseteq Aggregates
  BY <1>0, VisitedDatabase DEF Stored, TypeOK
<1>2. found'[t] = found[t] \cup (rows[d] \cap Wanted(call[t]))
  BY <1>0 DEF Query, TypeOK
<1>3. TypeOK'
  <2>1. found' \in [Tasks -> SUBSET Aggregates]
    BY <1>0, <1>1 DEF Query, TypeOK
  <2> QED
    BY <1>0, <2>1, ReadDoneType DEF TypeOK, LocalsType, Query, databases
<1>4. \A u \in Tasks \ {t} : Stays(u)
  BY <1>0, ReadDoneType DEF TypeOK, Query, Stays
<1>5. ASSUME NEW a \in before[t] \cap Wanted(call[t])
      PROVE  /\ a \in found'[t] \/ PartitionOf[a] \in todo[t]
             /\ call[t].op = "load" => a \in found'[t]
  <2>1. a \in Stored /\ Owed(t, a)
    BY <1>0 DEF TaskInv, ReadOf
  <2>2. PartitionOf[a] = target[t] => a \in found'[t]
    BY <1>2, <2>1, StoredIsHome DEF Database
  <2>3. call[t].op = "load" => PartitionOf[a] = target[t]
    BY <1>0 DEF TaskInv, StepOf, Wanted
  <2> QED
    BY <1>0, <1>2, <2>1, <2>2, <2>3 DEF Owed
<1>6. Strategy # "aggregate" => found'[t] \subseteq Stored \cap Wanted(call[t])
  BY <1>0, <1>1, <1>2 DEF TaskInv, ReadOf
<1>7. TaskInv(t)' /\ pc'[t] \in {"scan", "return"}
  BY <1>0, <1>2, <1>5, <1>6, ReadDoneTask DEF Query
<1> QED
  BY <1>0, <1>3, <1>4, <1>7, QuietPreserves DEF Query

----------------------------------------------------------------------------
(* Trying again *)

\* A publish that is to try again has attempts left.
LEMMA NotReadyPreserves ==
  ASSUME IInv, UNCHANGED deployment, NEW t \in Tasks, NotReady(t)
  PROVE  IInv'
<1>0. /\ TypeOK /\ TaskInv(t) /\ pc[t] # "idle" /\ pc[t] \in Visiting
      /\ call[t].op = "publish" /\ Release(t)
  BY DEF IInv, NotReady, Visiting
<1>1. TypeOK'
  <2>1. mutex' \in [Processes -> Tasks \cup {None}]
    BY <1>0, ReleaseType
  <2> QED
    BY <1>0, <2>1, EndsOrGoesOn DEF TypeOK, LocalsType, NotReady, databases
<1>2. \A u \in Tasks \ {t} : Stays(u)
  BY <1>0, EndsOrGoesOn DEF NotReady, Stays
<1>3. \/ pc'[t] = "return"
      \/ /\ pc'[t] = "forget" /\ answer'[t] = answer[t]
         /\ attempt[t] + 1 < MaxAttempts
         /\ target'[t] = target[t] /\ attempt'[t] = attempt[t]
  BY <1>0 DEF TypeOK, NotReady, GoesOn, Finish, Goto
<1>4. UNCHANGED call
  BY DEF NotReady
<1>5. TaskInv(t)'
  <2>1. StepOf(t)'
    BY <1>0, <1>3, <1>4, SameMaps DEF TaskInv, StepOf, Visiting
  <2>2. DatabaseOf(t)'
    BY <1>3 DEF DatabaseOf
  <2>3. ReadOf(t)'
    BY <1>0, <1>4 DEF ReadOf
  <2> QED
    BY <2>1, <2>2, <2>3 DEF TaskInv
<1>6. pc'[t] \notin {"open", "prepare"}
  BY <1>3
<1> QED
  BY <1>0, <1>1, <1>2, <1>5, <1>6, ReleasePreserves DEF NotReady

LEMMA ForgetPreserves ==
  ASSUME IInv, UNCHANGED deployment, NEW t \in Tasks, Forget(t)
  PROVE  IInv'
<1>0. TypeOK /\ pc[t] = "forget" /\ pc[t] \in Visiting /\ attempt[t] + 1 < MaxAttempts
  BY DEF IInv, TaskInv, StepOf, Forget, Visiting
<1>1. TypeOK'
  <2>1. attempt[t] + 1 \in 0..(MaxAttempts - 1)
    BY <1>0, BoundAssumption DEF TypeOK
  <2> QED
    BY <1>0, <2>1 DEF TypeOK, Forget, Goto, databases
<1>2. pc'[t] = "lookup" /\ \A u \in Tasks \ {t} : Stays(u)
  BY <1>0 DEF TypeOK, Forget, Goto, Stays
<1>3. TaskInv(t)'
  <2>1. DatabaseOf(t)'
    BY <1>2 DEF DatabaseOf
  <2> QED
    BY <1>0, <1>2, <2>1, VisitGoesOn, UnchangedGrows DEF Forget
<1>4. StoredUnderItsName'
  BY SameMaps DEF IInv, StoredUnderItsName, Forget, databases
<1>5. NamesInv'
  <2>1. \A p \in Processes : connections'[p] \subseteq connections[p]
    BY <1>0 DEF TypeOK, Forget
  <2> QED
    BY <2>1, SameMaps DEF IInv, NamesInv, Forget, databases
<1>6. LockInv'
  BY <1>0, <1>2, LockStays DEF Forget
<1> QED
  BY <1>1, <1>2, <1>3, <1>4, <1>5, <1>6, StepPreserves, UnchangedGrows DEF Forget

----------------------------------------------------------------------------
(* Enumerating *)

LEMMA ListedType ==
  ASSUME TypeOK
  PROVE  Listed \subseteq PartitionNames
<1>1. ASSUME NEW d \in exists PROVE Guessed(d) \subseteq PartitionNames
  <2>1. d \in Targets /\ rows[d] \subseteq Aggregates
    BY DEF TypeOK
  <2>2. BackendName[d] \in PartitionNames /\ \A a \in rows[d] : PartitionOf[a] \in PartitionNames
    BY <2>1, DeploymentMaps
  <2> QED
    BY <2>2 DEF Guessed, NameAsIs
<1>2. \A d \in exists : recorded[d] \in PartitionNames \cup {None}
  BY DEF TypeOK
<1>3. UNION {IF recorded[d] = None THEN Guessed(d) ELSE {recorded[d]} : d \in exists}
        \subseteq PartitionNames
  BY <1>1, <1>2
<1> QED
  BY <1>3 DEF Listed

\* All that has events is on the list.
LEMMA ListPreserves ==
  ASSUME IInv, UNCHANGED deployment, NEW t \in Tasks, List(t)
  PROVE  IInv'
<1>0. TypeOK /\ TaskInv(t) /\ pc[t] = "list"
  BY DEF IInv, List
<1>1. TypeOK'
  BY <1>0, ListedType DEF TypeOK, List, Goto, databases
<1>2. /\ pc'[t] = "cached" /\ todo'[t] = Listed
      /\ \A u \in Tasks \ {t} : Stays(u)
  BY <1>0 DEF TypeOK, List, Goto, Stays
<1>3. Stored' = Stored
  BY DEF Stored, List, databases
<1>4. StepOf(t)' /\ DatabaseOf(t)' /\ answer[t] = None
  BY <1>0, <1>2 DEF TaskInv, StepOf, DatabaseOf, List, Visiting, TypeOK
<1>5. ReadOf(t)'
  <2> SUFFICES ASSUME call[t].op # "publish" PROVE ReadOf(t)'
    BY DEF ReadOf, List
  <2>1. ASSUME NEW a \in before[t] \cap Wanted(call[t]) PROVE Owed(t, a)'
    <3>1. a \in Stored
      BY <1>0 DEF TaskInv, ReadOf
    <3>2. PartitionOf[a] \in todo'[t]
      BY <1>2, <3>1, ListedCoversStored
    <3> QED
      BY <1>2, <1>4, <3>2, SameMaps, TaskAssumption DEF Owed, Visiting, List
  <2> QED
    BY <1>0, <1>3, <2>1, SameMaps DEF TaskInv, ReadOf, List
<1> QED
  BY <1>0, <1>1, <1>2, <1>4, <1>5, QuietPreserves DEF List, TaskInv

LEMMA ListFailsPreserves ==
  ASSUME IInv, UNCHANGED deployment, NEW t \in Tasks, ListFails(t)
  PROVE  IInv'
<1>1. TypeOK /\ Finish(t, "failed") /\ pc[t] = "list"
  BY DEF IInv, ListFails
<1>2. pc'[t] = "return" /\ answer'[t] = "failed"
  BY <1>1, FinishType
<1>3. TypeOK'
  BY <1>1, FinishType DEF TypeOK, LocalsType, ListFails, databases
<1>4. \A u \in Tasks \ {t} : Stays(u)
  BY <1>1 DEF TypeOK, ListFails, Finish, Goto, Stays
<1>5. TaskInv(t)'
  BY <1>1, <1>2, FailedTask DEF ListFails
<1> QED
  BY <1>1, <1>2, <1>3, <1>4, <1>5, QuietPreserves DEF ListFails

LEMMA AddCachedPreserves ==
  ASSUME IInv, UNCHANGED deployment, NEW t \in Tasks, AddCached(t)
  PROVE  IInv'
<1>0. TypeOK /\ TaskInv(t) /\ pc[t] = "cached"
  BY DEF IInv, AddCached
<1>1. TypeOK'
  BY <1>0, TaskAssumption DEF TypeOK, AddCached, Goto, databases
<1>2. /\ pc'[t] = "scan" /\ todo[t] \subseteq todo'[t]
      /\ \A u \in Tasks \ {t} : Stays(u)
  BY <1>0 DEF TypeOK, AddCached, Goto, Stays
<1>3. Stored' = Stored
  BY DEF Stored, AddCached, databases
<1>4. StepOf(t)' /\ DatabaseOf(t)'
  BY <1>0, <1>2 DEF TaskInv, StepOf, DatabaseOf, AddCached, Visiting
<1>5. ReadOf(t)'
  BY <1>0, <1>2, <1>3, SameMaps DEF TaskInv, ReadOf, Owed, AddCached, Visiting
<1> QED
  BY <1>0, <1>1, <1>2, <1>4, <1>5, QuietPreserves DEF AddCached, TaskInv

\* A partition that is passed over has nothing that was asked for, or is itself
\* the aggregate; any other is looked into.
LEMMA ScanPreserves ==
  ASSUME IInv, UNCHANGED deployment, NEW t \in Tasks, NEW p \in PartitionNames, Scan(t, p)
  PROVE  IInv'
<1>0. TypeOK /\ TaskInv(t) /\ pc[t] = "scan" /\ call[t].op = "enumerate"
  BY DEF IInv, TaskInv, StepOf, Scan
<1>1. Homed(p) \subseteq Aggregates
  BY DEF Homed
<1>2. TypeOK'
  BY <1>0, <1>1 DEF TypeOK, Scan, Goto, databases
<1>3. /\ todo'[t] = todo[t] \ {p} /\ target'[t] = p
      /\ found'[t] = IF Direct(p, call[t]) THEN found[t] \cup Homed(p) ELSE found[t]
      /\ pc'[t] = IF Skip(p, call[t]) \/ Direct(p, call[t]) THEN "scan" ELSE "lookup"
      /\ \A u \in Tasks \ {t} : Stays(u)
  BY <1>0 DEF TypeOK, Scan, Goto, Stays
<1>4. Stored' = Stored /\ UNCHANGED <<call, answer, before>>
  BY DEF Stored, Scan, databases
<1>5. StepOf(t)' /\ DatabaseOf(t)' /\ answer[t] = None
  BY <1>0, <1>3, <1>4 DEF TaskInv, StepOf, DatabaseOf, Visiting, TypeOK
<1>6. ReadOf(t)'
  <2>1. ASSUME NEW a \in before[t] \cap Wanted(call[t]) PROVE Owed(t, a)'
    <3>1. a \in Stored /\ (a \in found[t] \/ PartitionOf[a] \in todo[t])
      BY <1>0 DEF TaskInv, ReadOf, Owed
    <3>2. a \in Aggregates
      BY <3>1, StoredIsHome
    <3>3. CASE Skip(p, call[t])
      <4>1. PartitionOf[a] # p
        BY <3>2, <3>3 DEF Skip, Homed
      <4> QED
        BY <1>3, <1>4, <1>5, <3>1, <3>3, <4>1, SameMaps, TaskAssumption DEF Owed, Visiting
    <3>4. CASE Direct(p, call[t])
      <4>1. PartitionOf[a] = p => a \in found'[t]
        BY <1>3, <3>2, <3>4 DEF Homed
      <4> QED
        BY <1>3, <1>4, <1>5, <3>1, <3>4, <4>1, SameMaps, TaskAssumption DEF Owed, Visiting
    <3>5. CASE ~Skip(p, call[t]) /\ ~Direct(p, call[t])
      BY <1>3, <1>4, <1>5, <3>1, <3>5, SameMaps, TaskAssumption DEF Owed, Visiting
    <3> QED
      BY <3>3, <3>4, <3>5
  <2>2. Strategy # "aggregate" => found'[t] = found[t]
    BY <1>3 DEF Direct
  <2> QED
    BY <1>0, <1>4, <2>1, <2>2, SameMaps DEF TaskInv, ReadOf
<1> QED
  BY <1>0, <1>2, <1>3, <1>5, <1>6, QuietPreserves DEF Scan, TaskInv

LEMMA ScanDonePreserves ==
  ASSUME IInv, UNCHANGED deployment, NEW t \in Tasks, ScanDone(t)
  PROVE  IInv'
<1>1. TypeOK /\ TaskInv(t) /\ Finish(t, "ok") /\ pc[t] = "scan" /\ todo[t] = {}
  BY DEF IInv, ScanDone
<1>2. pc'[t] = "return" /\ answer'[t] = "ok"
  BY <1>1, FinishType
<1>3. TypeOK'
  BY <1>1, FinishType DEF TypeOK, LocalsType, ScanDone, databases
<1>4. \A u \in Tasks \ {t} : Stays(u)
  BY <1>1 DEF TypeOK, ScanDone, Finish, Goto, Stays
<1>5. StepOf(t)' /\ DatabaseOf(t)'
  BY <1>1, <1>2 DEF TaskInv, StepOf, DatabaseOf, ScanDone, Visiting
<1>6. ReadOf(t)'
  <2>1. Stored' = Stored
    BY DEF Stored, ScanDone, databases
  <2> QED
    BY <1>1, <1>2, <2>1, SameMaps DEF TaskInv, ReadOf, Owed, ScanDone, Visiting
<1> QED
  BY <1>1, <1>2, <1>3, <1>4, <1>5, <1>6, QuietPreserves DEF ScanDone, TaskInv

----------------------------------------------------------------------------
(* Faults *)

LEMMA FaultType ==
  ASSUME TypeOK, Fault
  PROVE  faults' \in 0..MaxFaults
BY BoundAssumption DEF TypeOK, Fault

LEMMA ErrorPreserves ==
  ASSUME IInv, UNCHANGED deployment, NEW t \in Tasks, Error(t)
  PROVE  IInv'
<1>1. TypeOK /\ Release(t) /\ Finish(t, "failed") /\ pc[t] # "idle"
  BY DEF IInv, Error
<1>2. pc'[t] = "return" /\ answer'[t] = "failed"
  BY <1>1, FinishType
<1>3. TypeOK'
  <2>1. mutex' \in [Processes -> Tasks \cup {None}] /\ faults' \in 0..MaxFaults
    BY <1>1, ReleaseType, FaultType DEF Error
  <2> QED
    BY <1>1, <2>1, FinishType DEF TypeOK, LocalsType, Error, databases
<1>4. \A u \in Tasks \ {t} : Stays(u)
  BY <1>1 DEF TypeOK, Error, Finish, Goto, Stays
<1>5. TaskInv(t)'
  BY <1>1, <1>2, FailedTask DEF Error
<1> QED
  BY <1>1, <1>2, <1>3, <1>4, <1>5, ReleasePreserves DEF Error

LEMMA DroppedPreserves ==
  ASSUME IInv, UNCHANGED deployment, NEW t \in Tasks, Dropped(t)
  PROVE  IInv'
<1>1. TypeOK /\ Release(t) /\ Reset({t})
  BY DEF IInv, Dropped
<1>2. TypeOK'
  <2>1. mutex' \in [Processes -> Tasks \cup {None}] /\ faults' \in 0..MaxFaults
    BY <1>1, ReleaseType, FaultType DEF Dropped
  <2> QED
    BY <1>1, <2>1, ResetType DEF TypeOK, Dropped, databases
<1>3. /\ \A u \in Tasks \ {t} : Stays(u)
      /\ TaskInv(t)' /\ pc'[t] = "idle"
  BY <1>1, ResetType, ResetTask
<1> QED
  BY <1>1, <1>2, <1>3, ReleasePreserves DEF Dropped

\* A process comes back with no connections, no calls and an open map.
LEMMA RestartPreserves ==
  ASSUME IInv, UNCHANGED deployment, NEW p \in Processes, Restart(p)
  PROVE  IInv'
<1> DEFINE T == {t \in Tasks : ProcessOf[t] = p}
<1>1. TypeOK /\ Reset(T)
  BY DEF IInv, Restart
<1>2. TypeOK'
  <2>1. faults' \in 0..MaxFaults
    BY <1>1, FaultType DEF Restart
  <2> QED
    BY <1>1, <2>1, ResetType DEF TypeOK, Restart, databases
<1>3. /\ \A u \in Tasks \ T : Stays(u)
      /\ \A u \in T : TaskInv(u)' /\ pc'[u] = "idle"
  BY <1>1, ResetType, ResetTask
<1>4. ASSUME NEW u \in Tasks PROVE TaskInv(u)'
  BY <1>3, OthersStay, UnchangedGrows DEF Restart
<1>5. StoredUnderItsName'
  BY SameMaps DEF IInv, StoredUnderItsName, Restart, databases
<1>6. NamesInv'
  <2>1. \A q \in Processes : connections'[q] \subseteq connections[q]
    BY <1>1 DEF TypeOK, Restart
  <2> QED
    BY <2>1, SameMaps DEF IInv, NamesInv, Restart, databases
<1>7. LockInv'
  <2>1. /\ mutex \in [Processes -> Tasks \cup {None}] /\ ProcessOf \in [Tasks -> Processes]
        /\ None \notin Tasks /\ mutex' = [mutex EXCEPT ![p] = None]
    BY <1>1, TaskAssumption DEF TypeOK, Restart
  <2>2. ASSUME NEW u \in T
        PROVE  pc'[u] \in {"open", "prepare"} <=> mutex'[ProcessOf[u]] = u
    BY <1>3, <2>1
  <2>3. ASSUME NEW u \in Tasks \ T
        PROVE  pc'[u] \in {"open", "prepare"} <=> mutex'[ProcessOf[u]] = u
    BY <1>3, <2>1 DEF IInv, LockInv, Stays
  <2> QED
    BY <2>2, <2>3 DEF LockInv
<1> QED
  BY <1>2, <1>4, <1>5, <1>6, <1>7 DEF IInv

----------------------------------------------------------------------------
(* The invariant *)

LEMMA InitIInv == Init => IInv
<1> SUFFICES ASSUME Init PROVE IInv
  OBVIOUS
<1>1. 0 \in 0..(MaxAttempts - 1) /\ 0 \in 0..MaxCalls /\ 0 \in 0..MaxFaults
  BY BoundAssumption
<1>2. TypeOK
  BY <1>1 DEF Init, TypeOK
<1>3. StoredUnderItsName /\ NamesInv
  BY DEF Init, StoredUnderItsName, NamesInv
<1>4. LockInv
  BY TaskAssumption DEF Init, LockInv
<1>5. ASSUME NEW t \in Tasks PROVE TaskInv(t)
  BY DEF Init, TaskInv, StepOf, DatabaseOf, ReadOf, Visiting
<1> QED
  BY <1>2, <1>3, <1>4, <1>5 DEF IInv

LEMMA ProceedPreserves ==
  ASSUME IInv, UNCHANGED deployment, NEW t \in Tasks, Proceed(t)
  PROVE  IInv'
BY UseCachedPreserves, StartOpeningPreserves, AbsentPreserves, OpenTargetPreserves,
   PreparePreserves, MismatchPreserves, AppendPreserves, AppendNothingPreserves,
   QueryPreserves, ForgetPreserves, ListPreserves, ListFailsPreserves,
   AddCachedPreserves, ScanPreserves, ScanDonePreserves, ReturnPreserves
   DEF Proceed

LEMMA NextIInv == IInv /\ [Next]_vars => IInv'
<1> SUFFICES ASSUME IInv, [Next]_vars PROVE IInv'
  OBVIOUS
<1>1. CASE Next
  <2>1. UNCHANGED deployment
    BY <1>1 DEF Next
  <2>2. ASSUME NEW t \in Tasks,
               \/ \E c \in Call : Invoke(t, c)
               \/ Proceed(t) \/ NotReady(t) \/ Error(t) \/ Dropped(t)
        PROVE  IInv'
    BY <2>1, <2>2, InvokePreserves, ProceedPreserves, NotReadyPreserves, ErrorPreserves,
       DroppedPreserves
  <2>3. ASSUME NEW p \in Processes, Restart(p) PROVE IInv'
    BY <2>1, <2>3, RestartPreserves
  <2> QED
    BY <1>1, <2>2, <2>3 DEF Next
<1>2. CASE UNCHANGED vars
  <2>1. /\ UNCHANGED <<deployment, databases, connections, mutex, calls, faults>>
        /\ UNCHANGED taskVars
    BY <1>2 DEF vars
  <2>2. TypeOK'
    BY <2>1 DEF IInv, TypeOK, databases, taskVars
  <2>3. \A t \in Tasks : Stays(t)
    BY <2>1 DEF taskVars, Stays
  <2>4. \A t \in Tasks : TaskInv(t)'
    BY <2>1, <2>3, OthersStay, UnchangedGrows
  <2>5. LockInv'
    BY <2>1 DEF IInv, LockInv, taskVars
  <2> QED
    BY <2>1, <2>2, <2>4, <2>5, DatabasesStay DEF IInv
<1> QED
  BY <1>1, <1>2

\* Every reachable state meets the inductive invariant.
THEOREM Invariance == Spec => []IInv
  BY InitIInv, NextIInv, PTL DEF Spec

\* An aggregate's events are in the one database its partition is mapped to,
\* recorded under the partition's name: no error, retry, crash or second
\* partition mapped there puts them elsewhere.
THEOREM EventsStayHome == Spec => []StoredUnderItsName
<1>1. IInv => StoredUnderItsName
  BY DEF IInv
<1> QED
  BY <1>1, Invariance, PTL

\* A load or enumeration that succeeds has found every aggregate it is about
\* that had events when it began, in whichever process that was.
THEOREM ReadersFind == Spec => []ReadsSeeCommitted
<1>1. IInv => ReadsSeeCommitted
  <2> SUFFICES ASSUME IInv, NEW t \in Tasks, Answered(t),
                      NEW a \in before[t] \cap Wanted(call[t])
               PROVE  a \in found[t]
    BY DEF ReadsSeeCommitted
  <2>1. answer[t] = "ok" /\ call[t].op # "publish" /\ TaskInv(t)
    BY DEF Answered, IInv
  <2>2. pc[t] = "return"
    BY <2>1, TaskAssumption DEF TaskInv, StepOf
  <2> QED
    BY <2>1, <2>2 DEF TaskInv, ReadOf, Owed
<1> QED
  BY <1>1, Invariance, PTL

\* Nothing is found that has no events or was not asked for, where partitions
\* are looked into.
THEOREM ScannersFindStored == Spec => []ScannedIsStored
<1>1. IInv => ScannedIsStored
  <2> SUFFICES ASSUME IInv, Strategy # "aggregate", NEW t \in Tasks, Answered(t)
               PROVE  found[t] \subseteq Stored \cap Wanted(call[t])
    BY DEF ScannedIsStored, FoundIsStored
  <2>1. answer[t] = "ok" /\ call[t].op # "publish" /\ TaskInv(t)
    BY DEF Answered, IInv
  <2>2. pc[t] = "return"
    BY <2>1, TaskAssumption DEF TaskInv, StepOf
  <2> QED
    BY <2>1, <2>2 DEF TaskInv, ReadOf
<1> QED
  BY <1>1, Invariance, PTL

\* The state is well typed, and the map of a process is locked by the task that
\* opens a database and by no other: it is never left locked.
THEOREM MapIsReleased == Spec => []MapLockedByOpener
<1>1. IInv => MapLockedByOpener
  BY DEF IInv, LockInv, MapLockedByOpener
<1> QED
  BY <1>1, Invariance, PTL

=============================================================================
