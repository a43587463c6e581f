----------------------- MODULE TursoProvisioner_proofs -----------------------
(***************************************************************************)
(* The Turso provisioner for any processes, tasks, names and faults: what  *)
(* was opened is recorded, races are harmless, cleanups leave nothing.     *)
(***************************************************************************)
EXTENDS TursoProvisioner, TLAPS

\* The steps of an open: all of them, and those at which its database is there.
OpenSteps == {"lookup", "get", "create", "refetch", "persist", "record", "connect"}
FoundSteps == {"refetch", "persist", "record", "connect"}

\* Where a call is, and what it is for.
StepOf(t) ==
  /\ pc[t] = "idle" => call[t] = None /\ found[t] = {}
  /\ pc[t] # "idle" => call[t] \in Call
  /\ answer[t] # None => pc[t] = "return"
  /\ pc[t] \in OpenSteps => call[t].op \in {"open", "openExisting"}
  /\ pc[t] \in {"create", "refetch"} => call[t].op = "open"
  /\ pc[t] \in {"names", "load"} => call[t].op = "names"
  /\ pc[t] = "named_targets" => call[t].op = "named_targets"
  /\ pc[t] \in {"cleanup", "delete"} => call[t].op = "cleanup"
  /\ pc[t] # "idle" /\ call[t].op = "cleanup" => cleanups > 0

\* Before any cleanup, what an open or a names() has come to know stays so.
OpenOf(t) ==
  cleanups = 0 =>
    /\ pc[t] \in FoundSteps => Name(t) \in exists
    /\ pc[t] = "record" => Name(t) \in recorded
    /\ Opened(t) /\ answer[t] = "ok" => Name(t) \in recorded
    /\ Opened(t) /\ answer[t] = "failed" => faults > 0
    /\ pc[t] # "idle" /\ call[t].op = "names" => found[t] \subseteq recorded

\* Of the databases a cleanup owes, those left are still to be deleted.
CleanupOf(t) ==
  /\ pc[t] = "delete" => before[t] \cap exists \subseteq todo[t]
  /\ answer[t] = "ok" /\ call[t].op = "cleanup" => before[t] \cap exists = {}

TaskInv(t) == StepOf(t) /\ OpenOf(t) /\ CleanupOf(t)

\* Before any cleanup, a cached target has its database, a known name is recorded.
CachesInv ==
  cleanups = 0 => \A p \in Processes : cache[p] \subseteq exists /\ known[p] \subseteq recorded

IInv == TypeOK /\ CachesInv /\ \A t \in Tasks : TaskInv(t)

----------------------------------------------------------------------------
(* What a step leaves of the others *)

\* Only cleanups delete; faults and cleanups are never forgotten.
Later ==
  /\ cleanups > 0 => cleanups' > 0
  /\ cleanups' \in Nat
  /\ cleanups' = 0 => exists \subseteq exists' /\ recorded \subseteq recorded'
  /\ faults > 0 => faults' > 0

\* A task that does nothing: whoever creates a database takes it out of before.
Stays(t) ==
  /\ pc'[t] = pc[t] /\ call'[t] = call[t] /\ todo'[t] = todo[t]
  /\ found'[t] = found[t] /\ answer'[t] = answer[t]
  /\ before'[t] \cap exists' \subseteq before[t] \cap exists

LEMMA OthersStay ==
  ASSUME IInv, Later, NEW t \in Tasks, Stays(t)
  PROVE  TaskInv(t)'
<1>1. TaskInv(t) /\ cleanups \in Nat
  BY DEF IInv, TypeOK
<1>2. StepOf(t)'
  BY <1>1 DEF TaskInv, StepOf, Stays, Later
<1>3. OpenOf(t)'
  BY <1>1 DEF TaskInv, OpenOf, Opened, Name, Stays, Later
<1>4. CleanupOf(t)'
  BY <1>1 DEF TaskInv, CleanupOf, Stays
<1> QED
  BY <1>2, <1>3, <1>4 DEF TaskInv

\* A step of one task.
LEMMA StepPreserves ==
  ASSUME IInv, NEW t \in Tasks, Later, \A u \in Tasks \ {t} : Stays(u),
         TypeOK', CachesInv', TaskInv(t)'
  PROVE  IInv'
<1>1. ASSUME NEW u \in Tasks PROVE TaskInv(u)'
  BY OthersStay
<1> QED
  BY <1>1 DEF IInv

\* The counters that bound the calls and faults are numbers.
LEMMA Bounds ==
  ASSUME TypeOK
  PROVE  /\ calls \in Nat /\ cleanups \in Nat /\ faults \in Nat
         /\ MaxCalls \in Nat /\ MaxCleanups \in Nat /\ MaxFaults \in Nat
BY ProvisionerAssumption DEF TypeOK

\* Where databases and bounds stay as they are.
LEMMA SameIsLater ==
  ASSUME TypeOK, UNCHANGED <<exists, recorded, bounds>>
  PROVE  Later
BY Bounds DEF Later, bounds

LEMMA SameCaches ==
  ASSUME IInv, UNCHANGED <<cache, known>>, Later
  PROVE  CachesInv'
<1>1. cleanups' = 0 => cleanups = 0
  BY Bounds DEF IInv, Later
<1> QED
  BY <1>1 DEF IInv, CachesInv, Later

\* A step that changes nothing but its task.
LEMMA QuietPreserves ==
  ASSUME IInv, NEW t \in Tasks, UNCHANGED <<exists, recorded, cache, known, bounds>>,
         \A u \in Tasks \ {t} : Stays(u), TypeOK', TaskInv(t)'
  PROVE  IInv'
<1>1. Later
  BY SameIsLater DEF IInv
<1> QED
  BY <1>1, SameCaches, StepPreserves

LEMMA CallType ==
  ASSUME NEW c \in Call
  PROVE  /\ c.op \in {"open", "openExisting", "names", "named_targets", "cleanup"}
         /\ c.op \in {"open", "openExisting"} => c.name \in Names
BY DEF Call

----------------------------------------------------------------------------
(* Opening *)

LEMMA InvokePreserves ==
  ASSUME IInv, NEW t \in Tasks, NEW c \in Call, Invoke(t, c)
  PROVE  IInv'
<1>1. TypeOK /\ pc[t] = "idle" /\ TaskInv(t) /\ answer[t] = None /\ found[t] = {}
  BY DEF IInv, Invoke, TaskInv, StepOf, TypeOK
<1>2. FirstStep(c.op) \in {"lookup", "names", "named_targets", "cleanup"}
  BY CallType DEF FirstStep
<1>3. TypeOK'
  <2>1. calls' \in 0..MaxCalls /\ cleanups' \in 0..MaxCleanups
    BY <1>1, Bounds DEF TypeOK, Invoke
  <2>2. \A u \in Tasks : pc'[u] \in {"create", "refetch"} => call'[u].op = "open"
    BY <1>1, <1>2 DEF TypeOK, Invoke, Goto
  <2> QED
    BY <1>1, <1>2, <2>1, <2>2 DEF TypeOK, Invoke, Goto, taskVars
<1>4. /\ pc'[t] = FirstStep(c.op) /\ call'[t] = c
      /\ found'[t] = {} /\ answer'[t] = None /\ before'[t] = before[t]
      /\ \A u \in Tasks \ {t} : Stays(u)
  BY <1>1 DEF TypeOK, Invoke, Goto, Stays
<1>5. Later
  BY <1>1, Bounds DEF Later, Invoke
<1>6. CachesInv'
  BY <1>5, SameCaches DEF Invoke
<1>7. TaskInv(t)'
  <2>1. StepOf(t)'
    BY <1>1, <1>4, Bounds, CallType DEF StepOf, FirstStep, OpenSteps, Invoke
  <2>2. OpenOf(t)'
    BY <1>2, <1>4 DEF OpenOf, Opened, FoundSteps
  <2>3. CleanupOf(t)'
    BY <1>2, <1>4, ProvisionerAssumption DEF CleanupOf
  <2> QED
    BY <2>1, <2>2, <2>3 DEF TaskInv
<1> QED
  BY <1>3, <1>4, <1>5, <1>6, <1>7, StepPreserves

\* A step that sends a task on, with its call as it was.
LEMMA GotoType ==
  ASSUME TypeOK, NEW t \in Tasks,
         NEW s \in {"lookup", "get", "create", "refetch", "persist", "record", "connect",
                    "names", "load", "named_targets", "cleanup", "delete", "return"},
         s \in {"create", "refetch"} => call[t].op = "open",
         Goto(t, s), UNCHANGED call
  PROVE  /\ pc'[t] = s
         /\ \A u \in Tasks \ {t} : pc'[u] = pc[u]
         /\ pc' \in [Tasks -> {"idle", "lookup", "get", "create", "refetch", "persist",
                               "record", "connect", "names", "load", "named_targets",
                               "cleanup", "delete", "return"}]
         /\ \A u \in Tasks : pc'[u] \in {"create", "refetch"} => call'[u].op = "open"
BY DEF TypeOK, Goto

\* A call that returns, with its answer.
LEMMA FinishType ==
  ASSUME TypeOK, NEW t \in Tasks, NEW a \in {"ok", "none", "failed"}, Finish(t, a),
         UNCHANGED call
  PROVE  /\ pc'[t] = "return" /\ answer'[t] = a
         /\ \A u \in Tasks \ {t} : pc'[u] = pc[u] /\ answer'[u] = answer[u]
         /\ answer' \in [Tasks -> {"ok", "none", "failed", None}]
         /\ pc' \in [Tasks -> {"idle", "lookup", "get", "create", "refetch", "persist",
                               "record", "connect", "names", "load", "named_targets",
                               "cleanup", "delete", "return"}]
         /\ \A u \in Tasks : pc'[u] \in {"create", "refetch"} => call'[u].op = "open"
<1>1. Goto(t, "return")
  BY DEF Finish
<1> QED
  BY <1>1, GotoType DEF TypeOK, Finish

\* An open goes on: its database is there from when it was found or created.
LEMMA OpenGoesOn ==
  ASSUME IInv, NEW t \in Tasks, pc[t] \in OpenSteps, pc'[t] \in OpenSteps,
         UNCHANGED <<call, answer>>, cleanups' = cleanups,
         pc'[t] \in {"create", "refetch"} => call[t].op = "open",
         cleanups = 0 =>
           /\ pc'[t] \in FoundSteps => Name(t) \in exists'
           /\ pc'[t] = "record" => Name(t) \in recorded'
  PROVE  TaskInv(t)'
<1>1. TaskInv(t) /\ answer[t] = None /\ call[t] \in Call
  BY DEF IInv, TaskInv, StepOf, TypeOK, OpenSteps
<1>2. call[t].op \in {"open", "openExisting"}
  BY <1>1 DEF TaskInv, StepOf
<1>3. StepOf(t)'
  BY <1>1, <1>2 DEF StepOf, OpenSteps
<1>4. OpenOf(t)'
  BY <1>1, <1>2 DEF OpenOf, Opened, Name
<1>5. CleanupOf(t)'
  BY <1>2 DEF CleanupOf, OpenSteps
<1> QED
  BY <1>3, <1>4, <1>5 DEF TaskInv

\* An open returns: with a recorded name, or without a fault only to say that
\* there is nothing.
LEMMA OpenReturns ==
  ASSUME IInv, NEW t \in Tasks, pc[t] \in OpenSteps, pc'[t] = "return",
         UNCHANGED call, cleanups' = cleanups, answer'[t] \in {"ok", "none", "failed"},
         cleanups = 0 =>
           /\ answer'[t] = "ok" => Name(t) \in recorded'
           /\ answer'[t] = "failed" => faults' > 0
  PROVE  TaskInv(t)'
<1>1. TaskInv(t) /\ call[t] \in Call
  BY DEF IInv, TaskInv, StepOf, OpenSteps
<1>2. call[t].op \in {"open", "openExisting"}
  BY <1>1 DEF TaskInv, StepOf
<1>3. StepOf(t)'
  BY <1>1, <1>2 DEF StepOf, OpenSteps
<1>4. OpenOf(t)'
  BY <1>2 DEF OpenOf, Opened, Name, FoundSteps
<1>5. CleanupOf(t)'
  BY <1>2 DEF CleanupOf
<1> QED
  BY <1>3, <1>4, <1>5 DEF TaskInv

LEMMA LookupPreserves ==
  ASSUME IInv, NEW t \in Tasks, Lookup(t)
  PROVE  IInv'
<1>1. TypeOK /\ pc[t] \in OpenSteps
  BY DEF IInv, Lookup, OpenSteps
<1>2. pc'[t] = (IF IsCached(t) THEN "connect" ELSE "get") /\ TypeOK'
  BY <1>1, GotoType DEF Lookup, TypeOK, bounds
<1>3. \A u \in Tasks \ {t} : Stays(u)
  BY <1>1, GotoType DEF Lookup, Stays
<1>4. TaskInv(t)'
  <2>1. cleanups = 0 /\ pc'[t] \in FoundSteps => Name(t) \in exists
    BY <1>2, ProvisionerAssumption DEF IInv, CachesInv, IsCached, FoundSteps
  <2> QED
    BY <1>1, <1>2, <2>1, OpenGoesOn DEF Lookup, OpenSteps, bounds
<1> QED
  BY <1>2, <1>3, <1>4, QuietPreserves DEF Lookup

LEMMA GetDatabasePreserves ==
  ASSUME IInv, NEW t \in Tasks, GetDatabase(t)
  PROVE  IInv'
<1>1. TypeOK /\ pc[t] = "get" /\ pc[t] \in OpenSteps
  BY DEF IInv, GetDatabase, OpenSteps
<1>2. CASE ~Exists(t) /\ call[t].op # "open"
  <2>1. Finish(t, "none") /\ UNCHANGED call
    BY <1>2 DEF GetDatabase
  <2>2. TypeOK' /\ pc'[t] = "return" /\ answer'[t] = "none"
    BY <1>1, <2>1, FinishType DEF GetDatabase, TypeOK, bounds
  <2>3. \A u \in Tasks \ {t} : Stays(u)
    BY <1>1, <2>1, FinishType DEF GetDatabase, Stays
  <2>4. TaskInv(t)'
    BY <1>1, <2>2, OpenReturns DEF GetDatabase, bounds
  <2> QED
    BY <2>2, <2>3, <2>4, QuietPreserves DEF GetDatabase
<1>3. CASE Exists(t) \/ call[t].op = "open"
  <2>1. /\ Goto(t, IF Exists(t) THEN "persist" ELSE "create")
        /\ UNCHANGED <<call, answer>>
    BY <1>3 DEF GetDatabase
  <2>2. TypeOK' /\ pc'[t] = IF Exists(t) THEN "persist" ELSE "create"
    BY <1>1, <1>3, <2>1, GotoType DEF GetDatabase, TypeOK, bounds
  <2>3. \A u \in Tasks \ {t} : Stays(u)
    BY <1>1, <1>3, <2>1, GotoType DEF GetDatabase, Stays
  <2>4. TaskInv(t)'
    BY <1>1, <1>3, <2>1, <2>2, OpenGoesOn DEF GetDatabase, Exists, OpenSteps, FoundSteps, bounds
  <2> QED
    BY <2>2, <2>3, <2>4, QuietPreserves DEF GetDatabase
<1> QED
  BY <1>2, <1>3

\* A database that is created is missing from no cleanup's account.
LEMMA CreatedLater ==
  ASSUME IInv, NEW t \in Tasks, Created(t), UNCHANGED <<recorded, calls, cleanups>>,
         faults > 0 => faults' > 0,
         Name(t) \in Names, \A u \in Tasks \ {t} :
           /\ pc'[u] = pc[u] /\ call'[u] = call[u] /\ todo'[u] = todo[u]
           /\ found'[u] = found[u] /\ answer'[u] = answer[u]
  PROVE  /\ Later /\ \A u \in Tasks \ {t} : Stays(u)
         /\ exists' \subseteq Names /\ before' \in [Tasks -> SUBSET Names]
BY Bounds DEF IInv, TypeOK, Created, Later, Stays

LEMMA CreateDatabasePreserves ==
  ASSUME IInv, NEW t \in Tasks, CreateDatabase(t)
  PROVE  IInv'
<1>1. TypeOK /\ pc[t] = "create" /\ pc[t] \in OpenSteps /\ Name(t) \in Names
  BY CallType DEF IInv, TaskInv, StepOf, CreateDatabase, OpenSteps, Name
<1>2. /\ pc'[t] = "persist" /\ \A u \in Tasks \ {t} : pc'[u] = pc[u]
      /\ Later /\ \A u \in Tasks \ {t} : Stays(u)
  BY <1>1, GotoType, CreatedLater DEF CreateDatabase, bounds
<1>3. TypeOK'
  BY <1>1, <1>2, GotoType, CreatedLater DEF CreateDatabase, TypeOK, bounds
<1>4. TaskInv(t)'
  BY <1>1, <1>2, OpenGoesOn DEF CreateDatabase, Created, OpenSteps, bounds
<1>5. CachesInv'
  BY <1>2, SameCaches DEF CreateDatabase
<1> QED
  BY <1>2, <1>3, <1>4, <1>5, StepPreserves

LEMMA AlreadyExistsPreserves ==
  ASSUME IInv, NEW t \in Tasks, AlreadyExists(t)
  PROVE  IInv'
<1>1. TypeOK /\ pc[t] = "create" /\ pc[t] \in OpenSteps /\ call[t].op = "open"
  BY DEF IInv, TypeOK, AlreadyExists, OpenSteps
<1>2. pc'[t] = "refetch" /\ TypeOK'
  BY <1>1, GotoType DEF AlreadyExists, TypeOK, bounds
<1>3. \A u \in Tasks \ {t} : Stays(u)
  BY <1>1, GotoType DEF AlreadyExists, Stays
<1>4. TaskInv(t)'
  BY <1>1, <1>2, OpenGoesOn DEF AlreadyExists, Exists, OpenSteps, bounds
<1> QED
  BY <1>2, <1>3, <1>4, QuietPreserves DEF AlreadyExists

\* The database somebody else has created is there to be fetched.
LEMMA RefetchPreserves ==
  ASSUME IInv, NEW t \in Tasks, Refetch(t)
  PROVE  IInv'
<1>1. TypeOK /\ pc[t] = "refetch" /\ pc[t] \in OpenSteps
  BY DEF IInv, Refetch, OpenSteps
<1>2. cleanups = 0 => Exists(t)
  BY <1>1 DEF IInv, TaskInv, OpenOf, Exists, FoundSteps
<1>3. CASE Exists(t)
  <2>1. Goto(t, "persist") /\ UNCHANGED <<call, answer>>
    BY <1>3 DEF Refetch
  <2>2. TypeOK' /\ pc'[t] = "persist"
    BY <1>1, <2>1, GotoType DEF Refetch, TypeOK, bounds
  <2>3. \A u \in Tasks \ {t} : Stays(u)
    BY <1>1, <2>1, GotoType DEF Refetch, Stays
  <2>4. TaskInv(t)'
    BY <1>1, <1>3, <2>1, <2>2, OpenGoesOn DEF Refetch, Exists, OpenSteps, FoundSteps, bounds
  <2> QED
    BY <2>2, <2>3, <2>4, QuietPreserves DEF Refetch
<1>4. CASE ~Exists(t)
  <2>1. Finish(t, "failed") /\ UNCHANGED call
    BY <1>4 DEF Refetch
  <2>2. TypeOK' /\ pc'[t] = "return" /\ answer'[t] = "failed"
    BY <1>1, <2>1, FinishType DEF Refetch, TypeOK, bounds
  <2>3. \A u \in Tasks \ {t} : Stays(u)
    BY <1>1, <2>1, FinishType DEF Refetch, Stays
  <2>4. TaskInv(t)'
    BY <1>1, <1>2, <1>4, <2>2, OpenReturns DEF Refetch, bounds
  <2> QED
    BY <2>2, <2>3, <2>4, QuietPreserves DEF Refetch
<1> QED
  BY <1>3, <1>4

\* Recording a name, in a database that is there, records it from then on.
LEMMA RecordNameLater ==
  ASSUME IInv, NEW t \in Tasks, RecordName(t), UNCHANGED <<exists, bounds>>
  PROVE  /\ Later
         /\ Name(t) \in Names => recorded' \subseteq Names
         /\ Exists(t) => Name(t) \in recorded'
<1>1. recorded \subseteq recorded'
  BY DEF RecordName
<1> QED
  BY <1>1, Bounds DEF IInv, TypeOK, RecordName, Later, bounds

LEMMA PersistLogicalNamePreserves ==
  ASSUME IInv, NEW t \in Tasks, PersistLogicalName(t)
  PROVE  IInv'
<1>1. /\ TypeOK /\ pc[t] = "persist" /\ pc[t] \in OpenSteps /\ Name(t) \in Names
      /\ cleanups = 0 => Exists(t)
  BY CallType DEF IInv, TaskInv, StepOf, OpenOf, PersistLogicalName, OpenSteps, FoundSteps,
                  Name, Exists
<1>2. /\ Later /\ recorded' \subseteq Names
      /\ Exists(t) => Name(t) \in recorded'
      /\ UNCHANGED <<call, cleanups, faults>>
  BY <1>1, RecordNameLater DEF PersistLogicalName, bounds
<1>3. CachesInv'
  BY <1>2, SameCaches DEF PersistLogicalName
<1>4. CASE Exists(t)
  <2>1. Goto(t, "record") /\ UNCHANGED answer
    BY <1>4 DEF PersistLogicalName
  <2>2. TypeOK' /\ pc'[t] = "record"
    BY <1>1, <1>2, <2>1, GotoType DEF PersistLogicalName, TypeOK, bounds
  <2>3. \A u \in Tasks \ {t} : Stays(u)
    BY <1>1, <1>2, <2>1, GotoType DEF PersistLogicalName, Stays
  <2>4. TaskInv(t)'
    BY <1>1, <1>2, <1>4, <2>1, <2>2, OpenGoesOn DEF PersistLogicalName, Exists, OpenSteps
  <2> QED
    BY <1>2, <1>3, <2>2, <2>3, <2>4, StepPreserves
<1>5. CASE ~Exists(t)
  <2>1. Finish(t, "failed")
    BY <1>5 DEF PersistLogicalName
  <2>2. TypeOK' /\ pc'[t] = "return" /\ answer'[t] = "failed"
    BY <1>1, <1>2, <2>1, FinishType DEF PersistLogicalName, TypeOK, bounds
  <2>3. \A u \in Tasks \ {t} : Stays(u)
    BY <1>1, <1>2, <2>1, FinishType DEF PersistLogicalName, Stays
  <2>4. TaskInv(t)'
    BY <1>1, <1>2, <1>5, <2>2, OpenReturns
  <2> QED
    BY <1>2, <1>3, <2>2, <2>3, <2>4, StepPreserves
<1> QED
  BY <1>4, <1>5

\* What is cached is there, what becomes known is recorded.
LEMMA CacheTargetPreserves ==
  ASSUME IInv, NEW t \in Tasks, CacheTarget(t)
  PROVE  IInv'
<1>1. /\ TypeOK /\ pc[t] = "record" /\ pc[t] \in OpenSteps /\ Name(t) \in Names
      /\ cleanups = 0 => Name(t) \in exists /\ Name(t) \in recorded
  BY CallType DEF IInv, TaskInv, StepOf, OpenOf, CacheTarget, OpenSteps, FoundSteps, Name
<1>2. Goto(t, "connect") /\ UNCHANGED <<call, answer, cleanups, exists, recorded>>
  BY DEF CacheTarget, bounds
<1>3. TypeOK' /\ pc'[t] = "connect"
  BY <1>1, <1>2, GotoType, ProvisionerAssumption DEF CacheTarget, TypeOK, Add, bounds
<1>4. \A u \in Tasks \ {t} : Stays(u)
  BY <1>1, <1>2, GotoType DEF CacheTarget, Stays
<1>5. Later
  BY <1>1, SameIsLater DEF CacheTarget
<1>6. CachesInv'
  BY <1>1, <1>2 DEF IInv, TypeOK, CachesInv, CacheTarget, Add
<1>7. TaskInv(t)'
  BY <1>1, <1>2, <1>3, OpenGoesOn DEF OpenSteps
<1> QED
  BY <1>3, <1>4, <1>5, <1>6, <1>7, StepPreserves

LEMMA ConnectPreserves ==
  ASSUME IInv, NEW t \in Tasks, Connect(t)
  PROVE  IInv'
<1>1. /\ TypeOK /\ pc[t] = "connect" /\ pc[t] \in OpenSteps /\ Name(t) \in Names
      /\ cleanups = 0 => Exists(t)
  BY CallType DEF IInv, TaskInv, StepOf, OpenOf, Connect, OpenSteps, FoundSteps, Name, Exists
<1>2. /\ Later /\ recorded' \subseteq Names
      /\ Exists(t) => Name(t) \in recorded'
      /\ UNCHANGED <<call, cleanups, faults>>
  BY <1>1, RecordNameLater DEF Connect, bounds
<1>3. Finish(t, IF Exists(t) THEN "ok" ELSE "failed")
  BY DEF Connect
<1>4. TypeOK' /\ pc'[t] = "return" /\ answer'[t] = IF Exists(t) THEN "ok" ELSE "failed"
  BY <1>1, <1>2, <1>3, FinishType DEF Connect, TypeOK, bounds
<1>5. \A u \in Tasks \ {t} : Stays(u)
  BY <1>1, <1>2, <1>3, FinishType DEF Connect, Stays
<1>6. TaskInv(t)'
  BY <1>1, <1>2, <1>4, OpenReturns
<1>7. CachesInv'
  BY <1>2, SameCaches DEF Connect
<1> QED
  BY <1>2, <1>4, <1>5, <1>6, <1>7, StepPreserves

----------------------------------------------------------------------------
(* Listing *)

\* A listing has found names that are recorded, and goes on or returns.
LEMMA ListingTask ==
  ASSUME IInv, NEW t \in Tasks, call[t].op \in {"names", "named_targets"}, pc[t] # "idle",
         UNCHANGED <<call, cleanups>>,
         \/ pc'[t] = "return"
         \/ pc'[t] = "load" /\ call[t].op = "names" /\ answer'[t] = None,
         cleanups = 0 /\ call[t].op = "names" => found'[t] \subseteq recorded'
  PROVE  TaskInv(t)'
<1>1. call[t] \in Call
  BY DEF IInv, TaskInv, StepOf
<1>2. StepOf(t)'
  BY <1>1 DEF StepOf, OpenSteps
<1>3. OpenOf(t)'
  BY DEF OpenOf, Opened, FoundSteps
<1>4. CleanupOf(t)'
  BY DEF CleanupOf
<1> QED
  BY <1>2, <1>3, <1>4 DEF TaskInv

LEMMA KnownNamesPreserves ==
  ASSUME IInv, NEW t \in Tasks, KnownNames(t)
  PROVE  IInv'
<1>1. /\ TypeOK /\ pc[t] = "names" /\ call[t].op = "names"
      /\ Finish(t, "ok") /\ UNCHANGED <<call, cleanups, exists, recorded, bounds>>
  BY DEF IInv, TaskInv, StepOf, KnownNames, bounds
<1>2. TypeOK'
  BY <1>1, FinishType, ProvisionerAssumption DEF KnownNames, TypeOK, bounds
<1>3. /\ pc'[t] = "return" /\ found'[t] = known[ProcessOf[t]]
      /\ \A u \in Tasks \ {t} : Stays(u)
  BY <1>1, FinishType DEF KnownNames, TypeOK, Stays
<1>4. cleanups = 0 => found'[t] \subseteq recorded'
  BY <1>1, <1>3, ProvisionerAssumption DEF IInv, CachesInv
<1>5. TaskInv(t)'
  BY <1>1, <1>3, <1>4, ListingTask
<1> QED
  BY <1>2, <1>3, <1>5, QuietPreserves DEF KnownNames

\* The databases there are may be cached.
LEMMA CacheListed ==
  ASSUME IInv, NEW t \in Tasks, cache' = Add(cache, ProcessOf[t], exists),
         UNCHANGED <<known, exists, recorded, cleanups>>
  PROVE  CachesInv' /\ cache' \in [Processes -> SUBSET Names]
BY ProvisionerAssumption DEF IInv, TypeOK, CachesInv, Add

LEMMA ListNamesPreserves ==
  ASSUME IInv, NEW t \in Tasks, ListNames(t)
  PROVE  IInv'
<1>1. /\ TypeOK /\ pc[t] = "names" /\ call[t].op = "names" /\ TaskInv(t)
      /\ Goto(t, "load") /\ UNCHANGED <<call, answer, cleanups, exists, recorded, bounds>>
      /\ answer[t] = None
  BY DEF IInv, TaskInv, StepOf, TypeOK, ListNames, bounds
<1>2. TypeOK'
  BY <1>1, GotoType, CacheListed DEF ListNames, TypeOK, bounds
<1>3. pc'[t] = "load" /\ \A u \in Tasks \ {t} : Stays(u)
  BY <1>1, GotoType DEF ListNames, TypeOK, Stays
<1>4. TaskInv(t)'
  BY <1>1, <1>3, ListingTask DEF ListNames, TaskInv, OpenOf
<1> QED
  BY <1>1, <1>2, <1>3, <1>4, CacheListed, SameIsLater, StepPreserves DEF ListNames

LEMMA LoadNamePreserves ==
  ASSUME IInv, NEW t \in Tasks, NEW n \in Names, LoadName(t, n)
  PROVE  IInv'
<1>1. /\ TypeOK /\ pc[t] = "load" /\ call[t].op = "names" /\ TaskInv(t)
      /\ UNCHANGED <<call, cleanups, exists, recorded, bounds>> /\ answer[t] = None
  BY DEF IInv, TaskInv, StepOf, TypeOK, LoadName, bounds
<1>2. CASE n \in recorded
  <2>1. /\ found' = Add(found, t, {n}) /\ UNCHANGED <<pc, answer>>
        /\ todo' = [todo EXCEPT ![t] = @ \ {n}]
    BY <1>2 DEF LoadName
  <2>2. TypeOK'
    BY <1>1, <2>1 DEF LoadName, TypeOK, Add, bounds
  <2>3. found'[t] = found[t] \cup {n} /\ \A u \in Tasks \ {t} : Stays(u)
    BY <1>1, <2>1 DEF LoadName, TypeOK, Add, Stays
  <2>4. TaskInv(t)'
    BY <1>1, <1>2, <2>1, <2>3, ListingTask DEF TaskInv, OpenOf
  <2> QED
    BY <2>2, <2>3, <2>4, QuietPreserves DEF LoadName
<1>3. CASE n \notin recorded
  <2>1. Finish(t, "failed") /\ UNCHANGED found /\ todo' = [todo EXCEPT ![t] = @ \ {n}]
    BY <1>3 DEF LoadName
  <2>2. TypeOK'
    BY <1>1, <2>1, FinishType DEF LoadName, TypeOK, bounds
  <2>3. pc'[t] = "return" /\ \A u \in Tasks \ {t} : Stays(u)
    BY <1>1, <2>1, FinishType DEF LoadName, TypeOK, Stays
  <2>4. TaskInv(t)'
    BY <1>1, <2>1, <2>3, ListingTask DEF TaskInv, OpenOf
  <2> QED
    BY <2>2, <2>3, <2>4, QuietPreserves DEF LoadName
<1> QED
  BY <1>2, <1>3

\* The names that were loaded become known: they are recorded.
LEMMA NamesLoadedPreserves ==
  ASSUME IInv, NEW t \in Tasks, NamesLoaded(t)
  PROVE  IInv'
<1>1. /\ TypeOK /\ pc[t] = "load" /\ call[t].op = "names" /\ TaskInv(t)
      /\ Finish(t, "ok") /\ UNCHANGED <<call, cleanups, exists, recorded, bounds, found>>
  BY DEF IInv, TaskInv, StepOf, NamesLoaded, bounds
<1>2. cleanups = 0 => found[t] \subseteq recorded
  BY <1>1 DEF TaskInv, OpenOf
<1>3. TypeOK'
  BY <1>1, FinishType, ProvisionerAssumption DEF NamesLoaded, TypeOK, Add, bounds
<1>4. pc'[t] = "return" /\ \A u \in Tasks \ {t} : Stays(u)
  BY <1>1, FinishType DEF NamesLoaded, TypeOK, Stays
<1>5. TaskInv(t)'
  BY <1>1, <1>2, <1>4, ListingTask
<1>6. CachesInv'
  BY <1>1, <1>2 DEF IInv, TypeOK, CachesInv, NamesLoaded, Add
<1> QED
  BY <1>1, <1>3, <1>4, <1>5, <1>6, SameIsLater, StepPreserves

LEMMA NamedTargetsPreserves ==
  ASSUME IInv, NEW t \in Tasks, NamedTargets(t)
  PROVE  IInv'
<1>1. /\ TypeOK /\ pc[t] = "named_targets" /\ call[t].op = "named_targets"
      /\ Finish(t, "ok") /\ UNCHANGED <<call, cleanups, exists, recorded, bounds>>
  BY DEF IInv, TaskInv, StepOf, NamedTargets, bounds
<1>2. TypeOK'
  BY <1>1, FinishType, CacheListed DEF NamedTargets, TypeOK, bounds
<1>3. pc'[t] = "return" /\ \A u \in Tasks \ {t} : Stays(u)
  BY <1>1, FinishType DEF NamedTargets, TypeOK, Stays
<1>4. TaskInv(t)'
  BY <1>1, <1>3, ListingTask
<1> QED
  BY <1>1, <1>2, <1>3, <1>4, CacheListed, SameIsLater, StepPreserves DEF NamedTargets

----------------------------------------------------------------------------
(* Cleaning up *)

\* A cleanup at work, or at its end.
LEMMA CleanupTask ==
  ASSUME IInv, NEW t \in Tasks, pc[t] \in {"cleanup", "delete"}, UNCHANGED <<call, cleanups>>,
         \/ pc'[t] = "delete" /\ answer'[t] = None
              /\ before'[t] \cap exists' \subseteq todo'[t]
         \/ pc'[t] = "return" /\ (answer'[t] = "ok" => before'[t] \cap exists' = {})
  PROVE  TaskInv(t)'
<1>1. call[t] \in Call /\ call[t].op = "cleanup" /\ cleanups > 0
  BY DEF IInv, TaskInv, StepOf
<1>2. StepOf(t)'
  BY <1>1 DEF StepOf, OpenSteps
<1>3. OpenOf(t)'
  BY <1>1 DEF OpenOf
<1>4. CleanupOf(t)'
  BY ProvisionerAssumption DEF CleanupOf
<1> QED
  BY <1>2, <1>3, <1>4 DEF TaskInv

LEMMA ListManagedPreserves ==
  ASSUME IInv, NEW t \in Tasks, ListManaged(t)
  PROVE  IInv'
<1>1. /\ TypeOK /\ pc[t] = "cleanup" /\ answer[t] = None
      /\ Goto(t, "delete") /\ UNCHANGED <<call, answer, cleanups, exists>>
  BY DEF IInv, TaskInv, StepOf, TypeOK, ListManaged, bounds
<1>2. TypeOK'
  BY <1>1, GotoType, ProvisionerAssumption DEF ListManaged, TypeOK, bounds
<1>3. /\ pc'[t] = "delete" /\ todo'[t] = cache[ProcessOf[t]] \cup exists
      /\ before'[t] = exists /\ \A u \in Tasks \ {t} : Stays(u)
  BY <1>1, GotoType DEF ListManaged, TypeOK, Stays
<1>4. TaskInv(t)'
  BY <1>1, <1>3, CleanupTask
<1> QED
  BY <1>2, <1>3, <1>4, QuietPreserves DEF ListManaged

LEMMA DeleteDatabasePreserves ==
  ASSUME IInv, NEW t \in Tasks, NEW n \in Names, DeleteDatabase(t, n)
  PROVE  IInv'
<1>1. /\ TypeOK /\ pc[t] = "delete" /\ TaskInv(t) /\ cleanups > 0 /\ answer[t] = None
      /\ UNCHANGED <<call, pc, answer, cleanups, faults, before>>
  BY DEF IInv, TaskInv, StepOf, TypeOK, DeleteDatabase, bounds
<1>2. TypeOK'
  BY <1>1 DEF DeleteDatabase, TypeOK, bounds
<1>3. /\ todo'[t] = todo[t] \ {n} /\ exists' = exists \ {n}
      /\ \A u \in Tasks \ {t} : Stays(u)
  BY <1>1 DEF DeleteDatabase, TypeOK, Stays
<1>4. TaskInv(t)'
  BY <1>1, <1>3, CleanupTask DEF TaskInv, CleanupOf
<1>5. Later /\ CachesInv'
  BY <1>1, Bounds DEF Later, CachesInv
<1> QED
  BY <1>2, <1>3, <1>4, <1>5, StepPreserves

\* Nothing is left to be deleted.
LEMMA ClearCachesPreserves ==
  ASSUME IInv, NEW t \in Tasks, ClearCaches(t)
  PROVE  IInv'
<1>1. /\ TypeOK /\ pc[t] = "delete" /\ TaskInv(t) /\ cleanups > 0 /\ todo[t] = {}
      /\ Finish(t, "ok") /\ UNCHANGED <<call, cleanups, before, exists, recorded, bounds>>
  BY DEF IInv, TaskInv, StepOf, ClearCaches, bounds
<1>2. TypeOK'
  BY <1>1, FinishType DEF ClearCaches, TypeOK, bounds
<1>3. pc'[t] = "return" /\ \A u \in Tasks \ {t} : Stays(u)
  BY <1>1, FinishType DEF ClearCaches, TypeOK, Stays
<1>4. TaskInv(t)'
  BY <1>1, <1>3, CleanupTask DEF TaskInv, CleanupOf
<1>5. CachesInv'
  BY <1>1 DEF CachesInv
<1> QED
  BY <1>1, <1>2, <1>3, <1>4, <1>5, SameIsLater, StepPreserves

----------------------------------------------------------------------------
(* Ends and faults *)

LEMMA ResetType ==
  ASSUME TypeOK, NEW T, Reset(T)
  PROVE  /\ pc' \in [Tasks -> {"idle", "lookup", "get", "create", "refetch", "persist",
                               "record", "connect", "names", "load", "named_targets",
                               "cleanup", "delete", "return"}]
         /\ \A u \in Tasks : pc'[u] \in {"create", "refetch"} => call'[u].op = "open"
         /\ call' \in [Tasks -> Call \cup {None}]
         /\ todo' \in [Tasks -> SUBSET Names]
         /\ found' \in [Tasks -> SUBSET Names]
         /\ answer' \in [Tasks -> {"ok", "none", "failed", None}]
         /\ before' \in [Tasks -> SUBSET Names]
         /\ exists' = exists => \A u \in Tasks \ T : Stays(u)
BY DEF TypeOK, Reset, Stays

LEMMA ResetTask ==
  ASSUME NEW T, Reset(T), NEW t \in Tasks, t \in T
  PROVE  TaskInv(t)'
<1>1. /\ pc'[t] = "idle" /\ call'[t] = None /\ found'[t] = {} /\ answer'[t] = None
  BY DEF Reset
<1> QED
  BY <1>1, ProvisionerAssumption
     DEF TaskInv, StepOf, OpenOf, Opened, CleanupOf, OpenSteps, FoundSteps

LEMMA ReturnPreserves ==
  ASSUME IInv, NEW t \in Tasks, Return(t)
  PROVE  IInv'
<1>1. TypeOK /\ Reset({t})
  BY DEF IInv, Return
<1>2. TypeOK'
  BY <1>1, ResetType DEF Return, TypeOK, bounds
<1>3. TaskInv(t)' /\ \A u \in Tasks \ {t} : Stays(u)
  BY <1>1, ResetType, ResetTask DEF Return
<1> QED
  BY <1>2, <1>3, QuietPreserves DEF Return

LEMMA FaultType ==
  ASSUME TypeOK, Fault
  PROVE  /\ faults' \in 0..MaxFaults /\ faults' > 0
         /\ UNCHANGED <<calls, cleanups>>
BY Bounds DEF TypeOK, Fault

\* A call that a fault ends.
LEMMA FaultTask ==
  ASSUME IInv, Fault, NEW t \in Tasks, pc[t] # "idle",
         pc'[t] = "return", answer'[t] = "failed",
         UNCHANGED call, cleanups = 0 => recorded \subseteq recorded',
         found'[t] = found[t]
  PROVE  TaskInv(t)'
<1>1. TaskInv(t) /\ faults' > 0 /\ cleanups' = cleanups
  BY FaultType DEF IInv
<1>2. StepOf(t)'
  BY <1>1 DEF TaskInv, StepOf, OpenSteps
<1>3. OpenOf(t)'
  BY <1>1 DEF TaskInv, OpenOf, Opened, FoundSteps
<1>4. CleanupOf(t)'
  BY DEF CleanupOf
<1> QED
  BY <1>2, <1>3, <1>4 DEF TaskInv

LEMMA ErrorPreserves ==
  ASSUME IInv, NEW t \in Tasks, Error(t)
  PROVE  IInv'
<1>1. TypeOK /\ Fault /\ Finish(t, "failed") /\ pc[t] # "idle" /\ UNCHANGED call
  BY DEF IInv, Error
<1>2. TypeOK'
  BY <1>1, FinishType, FaultType DEF Error, TypeOK
<1>3. pc'[t] = "return" /\ answer'[t] = "failed" /\ \A u \in Tasks \ {t} : Stays(u)
  BY <1>1, FinishType DEF Error, Stays
<1>4. Later
  BY <1>1, FaultType, Bounds DEF Error, Later
<1>5. TaskInv(t)'
  BY <1>1, <1>3, FaultTask DEF Error
<1> QED
  BY <1>2, <1>3, <1>4, <1>5, SameCaches, StepPreserves DEF Error

LEMMA CreateUnansweredPreserves ==
  ASSUME IInv, NEW t \in Tasks, CreateUnanswered(t)
  PROVE  IInv'
<1>1. /\ TypeOK /\ Fault /\ Finish(t, "failed") /\ pc[t] = "create" /\ Created(t)
      /\ UNCHANGED <<call, recorded, calls, cleanups>> /\ Name(t) \in Names /\ faults' > 0
  BY CallType, FaultType
     DEF IInv, TaskInv, StepOf, OpenSteps, Name, CreateUnanswered
<1>2. pc'[t] = "return" /\ answer'[t] = "failed"
  BY <1>1, FinishType
<1>3. /\ Later /\ \A u \in Tasks \ {t} : Stays(u)
      /\ exists' \subseteq Names /\ before' \in [Tasks -> SUBSET Names]
  BY <1>1, FinishType, CreatedLater DEF CreateUnanswered
<1>4. TypeOK'
  BY <1>1, <1>3, FinishType, FaultType DEF CreateUnanswered, TypeOK
<1>5. TaskInv(t)'
  BY <1>1, <1>2, FaultTask DEF CreateUnanswered
<1> QED
  BY <1>3, <1>4, <1>5, SameCaches, StepPreserves DEF CreateUnanswered

LEMMA DroppedPreserves ==
  ASSUME IInv, NEW t \in Tasks, Dropped(t)
  PROVE  IInv'
<1>1. TypeOK /\ Fault /\ Reset({t})
  BY DEF IInv, Dropped
<1>2. TypeOK'
  BY <1>1, ResetType, FaultType DEF Dropped, TypeOK
<1>3. TaskInv(t)' /\ \A u \in Tasks \ {t} : Stays(u)
  BY <1>1, ResetType, ResetTask DEF Dropped
<1>4. Later
  BY <1>1, FaultType, Bounds DEF Dropped, Later
<1> QED
  BY <1>2, <1>3, <1>4, SameCaches, StepPreserves DEF Dropped

LEMMA RestartPreserves ==
  ASSUME IInv, NEW p \in Processes, Restart(p)
  PROVE  IInv'
<1> DEFINE T == {t \in Tasks : ProcessOf[t] = p}
<1>1. TypeOK /\ Fault /\ Reset(T) /\ UNCHANGED <<exists, recorded>>
  BY DEF IInv, Restart
<1>2. TypeOK'
  BY <1>1, ResetType, FaultType DEF Restart, TypeOK
<1>3. Later
  BY <1>1, FaultType, Bounds DEF Later
<1>4. ASSUME NEW t \in Tasks PROVE TaskInv(t)'
  <2>1. CASE t \in T
    BY <1>1, <2>1, ResetTask
  <2>2. CASE t \notin T
    BY <1>1, <1>3, <2>2, ResetType, OthersStay
  <2> QED
    BY <2>1, <2>2
<1>5. CachesInv'
  BY <1>1, FaultType DEF IInv, TypeOK, CachesInv, Restart
<1> QED
  BY <1>2, <1>4, <1>5 DEF IInv

----------------------------------------------------------------------------
(* The invariant *)

LEMMA InitIInv == Init => IInv
<1> SUFFICES ASSUME Init PROVE IInv
  OBVIOUS
<1>1. TypeOK
  BY ProvisionerAssumption DEF Init, TypeOK
<1>2. CachesInv
  BY DEF Init, CachesInv
<1>3. ASSUME NEW t \in Tasks PROVE TaskInv(t)
  BY ProvisionerAssumption
     DEF Init, TaskInv, StepOf, OpenOf, Opened, CleanupOf, OpenSteps, FoundSteps
<1> QED
  BY <1>1, <1>2, <1>3 DEF IInv

LEMMA ProceedPreserves ==
  ASSUME IInv, NEW t \in Tasks, Proceed(t)
  PROVE  IInv'
BY LookupPreserves, GetDatabasePreserves, CreateDatabasePreserves, AlreadyExistsPreserves,
   RefetchPreserves, PersistLogicalNamePreserves, CacheTargetPreserves, ConnectPreserves,
   KnownNamesPreserves, ListNamesPreserves, LoadNamePreserves, NamesLoadedPreserves,
   NamedTargetsPreserves, ListManagedPreserves, DeleteDatabasePreserves,
   ClearCachesPreserves, ReturnPreserves
   DEF Proceed

LEMMA NextIInv == IInv /\ [Next]_vars => IInv'
<1> SUFFICES ASSUME IInv, [Next]_vars PROVE IInv'
  OBVIOUS
<1>1. ASSUME NEW t \in Tasks,
             \/ \E c \in Call : Invoke(t, c)
             \/ Proceed(t) \/ Error(t) \/ CreateUnanswered(t) \/ Dropped(t)
      PROVE  IInv'
  BY <1>1, InvokePreserves, ProceedPreserves, ErrorPreserves, CreateUnansweredPreserves,
     DroppedPreserves
<1>2. ASSUME NEW p \in Processes, Restart(p) PROVE IInv'
  BY <1>2, RestartPreserves
<1>3. CASE UNCHANGED vars
  <2>1. UNCHANGED <<exists, recorded, cache, known, taskVars, before, bounds>>
    BY <1>3 DEF vars
  <2>2. TypeOK'
    BY <2>1 DEF IInv, TypeOK, taskVars, bounds
  <2>3. \A t \in Tasks : Stays(t)
    BY <2>1 DEF taskVars, Stays
  <2>4. Later
    BY <2>1, SameIsLater DEF IInv
  <2> QED
    BY <2>1, <2>2, <2>3, <2>4, OthersStay, SameCaches DEF IInv
<1> QED
  BY <1>1, <1>2, <1>3 DEF Next

\* Every reachable state meets the inductive invariant.
THEOREM Invariance == Spec => []IInv
  BY InitIInv, NextIInv, PTL DEF Spec

\* As long as nobody cleans up, the database of a partition that was opened
\* records its name, and so does whatever a provisioner knows or names() answers:
\* also after errors, lost answers, dropped futures and restarts at any step of
\* creating and naming it.
THEOREM NamesRecorded == Spec => []NamesAreRecorded
<1>1. IInv => NamesAreRecorded
  <2> SUFFICES ASSUME IInv, cleanups = 0, NEW t \in Tasks
               PROVE  /\ Opened(t) /\ answer[t] = "ok" => Name(t) \in recorded
                      /\ call[t] # None /\ call[t].op = "names" => found[t] \subseteq recorded
                      /\ known[ProcessOf[t]] \subseteq recorded
    BY DEF NamesAreRecorded, IInv
  <2>1. TaskInv(t) /\ CachesInv
    BY DEF IInv
  <2> QED
    BY <2>1, ProvisionerAssumption DEF TaskInv, StepOf, OpenOf, CachesInv
<1> QED
  BY <1>1, Invariance, PTL

\* Without a fault and a cleanup every open succeeds, or finds nothing to read:
\* whoever loses the race to create a database gets the winner's.
THEOREM RacesAreHarmless == Spec => []RaceIsHarmless
<1>1. IInv => RaceIsHarmless
  <2> SUFFICES ASSUME IInv, NEW t \in Tasks, Opened(t), answer[t] = "failed"
               PROVE  faults > 0 \/ cleanups > 0
    BY DEF RaceIsHarmless
  <2>1. OpenOf(t) /\ cleanups \in Nat
    BY Bounds DEF IInv, TaskInv
  <2> QED
    BY <2>1 DEF OpenOf
<1> QED
  BY <1>1, Invariance, PTL

\* A cleanup that succeeded has left none of the databases there were, but those
\* created again meanwhile.
THEOREM CleanupsAreComplete == Spec => []CleanupIsComplete
<1>1. IInv => CleanupIsComplete
  BY DEF IInv, TaskInv, CleanupOf, CleanupIsComplete
<1> QED
  BY <1>1, Invariance, PTL

=============================================================================
