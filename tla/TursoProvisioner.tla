-------------------------- MODULE TursoProvisioner --------------------------
(***************************************************************************)
(* The Turso provisioner: databases created on demand through the platform *)
(* API (crates/wee-events-sqlite/src/event_store/turso_platform/mod.rs).   *)
(*                                                                         *)
(* Every process has a provisioner, whose tasks share a cache of targets   *)
(* and a set of known names.  Processes share the databases.  Each call of *)
(* the API or of a database is one step, and any of them may fail.  A      *)
(* target is made after its database exists and records the database's     *)
(* logical name before it is cached; the store that asked for it then      *)
(* connects and has the name recorded once more.                           *)
(*                                                                         *)
(* A logical name stands for the database name sanitize_database_name()    *)
(* makes of it (the hash in it is taken to be free of collisions; see      *)
(* Partitions for databases that are not) and for its target, as the       *)
(* hostname depends on nothing else.                                       *)
(***************************************************************************)
EXTENDS Naturals, FiniteSets

CONSTANTS Tasks, Processes, ProcessOf, Names, None,
          MaxCalls,      \* bound on the calls begun
          MaxCleanups,   \* bound on the cleanups among them
          MaxFaults      \* bound on errors, dropped futures and restarts

ASSUME ProvisionerAssumption ==
  /\ ProcessOf \in [Tasks -> Processes]
  /\ None \notin Names \cup {"ok", "none", "failed"}
  /\ MaxCalls \in Nat /\ MaxCleanups \in Nat /\ MaxFaults \in Nat

VARIABLES exists,    \* the databases there are
          recorded,  \* those whose metadata has their logical name
          cache,     \* cache[p]: the targets cached by the provisioner of p
          known,     \* known[p]: its known_names
          pc, call, todo, found, answer,   \* of each task
          before,    \* history: databases there were when its cleanup began and
                     \* that nobody has created since
          calls, cleanups, faults

taskVars == <<pc, call, todo, found, answer>>
bounds == <<calls, cleanups, faults>>
vars == <<exists, recorded, cache, known, taskVars, before, bounds>>

\* A store opens a partition for a publish or for a read, or lists them.
Call == [op : {"open", "openExisting"}, name : Names]
          \cup [op : {"names", "named_targets", "cleanup"}, name : {None}]

Init ==
  /\ exists = {}
  /\ recorded = {}
  /\ cache = [p \in Processes |-> {}]
  /\ known = [p \in Processes |-> {}]
  /\ pc = [t \in Tasks |-> "idle"]
  /\ call = [t \in Tasks |-> None]
  /\ todo = [t \in Tasks |-> {}]
  /\ found = [t \in Tasks |-> {}]
  /\ answer = [t \in Tasks |-> None]
  /\ before = [t \in Tasks |-> {}]
  /\ calls = 0
  /\ cleanups = 0
  /\ faults = 0

Goto(t, s) == pc' = [pc EXCEPT ![t] = s]

Finish(t, a) ==
  /\ answer' = [answer EXCEPT ![t] = a]
  /\ Goto(t, "return")

FirstStep(op) ==
  IF op \in {"open", "openExisting"} THEN "lookup" ELSE op

Invoke(t, c) ==
  /\ pc[t] = "idle"
  /\ calls < MaxCalls
  /\ calls' = calls + 1
  /\ c.op = "cleanup" => cleanups < MaxCleanups
  /\ cleanups' = cleanups + (IF c.op = "cleanup" THEN 1 ELSE 0)
  /\ call' = [call EXCEPT ![t] = c]
  /\ Goto(t, FirstStep(c.op))
  /\ UNCHANGED <<exists, recorded, cache, known, todo, found, answer, before, faults>>

----------------------------------------------------------------------------
(* ensure_target_for_name() and target_for_existing_name() *)

Name(t) == call[t].name
Exists(t) == Name(t) \in exists
IsCached(t) == Name(t) \in cache[ProcessOf[t]]

\* A cached target is returned as it is.
Lookup(t) ==
  /\ pc[t] = "lookup"
  /\ Goto(t, IF IsCached(t) THEN "connect" ELSE "get")
  /\ UNCHANGED <<exists, recorded, cache, known, call, todo, found, answer, before, bounds>>

\* api.get_database(): a reader is told that there is none.
GetDatabase(t) ==
  /\ pc[t] = "get"
  /\ IF Exists(t) THEN Goto(t, "persist") /\ UNCHANGED answer
     ELSE IF call[t].op = "open" THEN Goto(t, "create") /\ UNCHANGED answer
     ELSE Finish(t, "none")
  /\ UNCHANGED <<exists, recorded, cache, known, call, todo, found, before, bounds>>

Created(t) ==
  /\ exists' = exists \cup {Name(t)}
  /\ before' = [s \in Tasks |-> before[s] \ {Name(t)}]

\* api.create_database()
CreateDatabase(t) ==
  /\ pc[t] = "create"
  /\ ~Exists(t)
  /\ Created(t)
  /\ Goto(t, "persist")
  /\ UNCHANGED <<recorded, cache, known, call, todo, found, answer, bounds>>

\* Mutant of AlreadyExists: the conflict is an error like any other.
ConflictFails(t) ==
  /\ pc[t] = "create"
  /\ Exists(t)
  /\ Finish(t, "failed")
  /\ UNCHANGED <<exists, recorded, cache, known, call, todo, found, before, bounds>>

\* ApiError::AlreadyExists: somebody else was faster.
AlreadyExists(t) ==
  /\ pc[t] = "create"
  /\ Exists(t)
  /\ Goto(t, "refetch")
  /\ UNCHANGED <<exists, recorded, cache, known, call, todo, found, answer, before, bounds>>

\* It is asked for again, and has to be there.
Refetch(t) ==
  /\ pc[t] = "refetch"
  /\ IF Exists(t) THEN Goto(t, "persist") /\ UNCHANGED answer ELSE Finish(t, "failed")
  /\ UNCHANGED <<exists, recorded, cache, known, call, todo, found, before, bounds>>

\* A connection to a database that was deleted fails.
RecordName(t) ==
  IF Exists(t) THEN recorded' = recorded \cup {Name(t)} ELSE UNCHANGED recorded

\* The logical name is recorded in the database.
PersistLogicalName(t) ==
  /\ pc[t] = "persist"
  /\ RecordName(t)
  /\ IF Exists(t) THEN Goto(t, "record") /\ UNCHANGED answer ELSE Finish(t, "failed")
  /\ UNCHANGED <<exists, cache, known, call, todo, found, before, bounds>>

Add(f, p, S) == [f EXCEPT ![p] = @ \cup S]

\* The target is cached and the name known.
CacheTarget(t) ==
  /\ pc[t] = "record"
  /\ cache' = Add(cache, ProcessOf[t], {Name(t)})
  /\ known' = Add(known, ProcessOf[t], {Name(t)})
  /\ Goto(t, "connect")
  /\ UNCHANGED <<exists, recorded, call, todo, found, answer, before, bounds>>

\* Mutant of Connect: the provisioner has recorded the name, surely.
ConnectUnprepared(t) ==
  /\ pc[t] = "connect"
  /\ Finish(t, IF Exists(t) THEN "ok" ELSE "failed")
  /\ UNCHANGED <<exists, recorded, cache, known, call, todo, found, before, bounds>>

\* The store opens the target, and prepare_connection_for_partition() records
\* the name in a database that was cached by a listing before it had one.
Connect(t) ==
  /\ pc[t] = "connect"
  /\ RecordName(t)
  /\ Finish(t, IF Exists(t) THEN "ok" ELSE "failed")
  /\ UNCHANGED <<exists, cache, known, call, todo, found, before, bounds>>

----------------------------------------------------------------------------
(* names() and named_targets() *)

\* Known names are answered without asking.
KnownNames(t) ==
  /\ pc[t] = "names"
  /\ known[ProcessOf[t]] # {}
  /\ found' = [found EXCEPT ![t] = known[ProcessOf[t]]]
  /\ Finish(t, "ok")
  /\ UNCHANGED <<exists, recorded, cache, known, call, todo, before, bounds>>

\* Otherwise the databases are listed, their targets cached,
ListNames(t) ==
  /\ pc[t] = "names"
  /\ known[ProcessOf[t]] = {}
  /\ cache' = Add(cache, ProcessOf[t], exists)
  /\ todo' = [todo EXCEPT ![t] = exists]
  /\ Goto(t, "load")
  /\ UNCHANGED <<exists, recorded, known, call, found, answer, before, bounds>>

\* and each is asked for its name, which it has to have.
LoadName(t, n) ==
  /\ pc[t] = "load"
  /\ n \in todo[t]
  /\ todo' = [todo EXCEPT ![t] = @ \ {n}]
  /\ IF n \in recorded
       THEN found' = Add(found, t, {n}) /\ UNCHANGED <<pc, answer>>
       ELSE Finish(t, "failed") /\ UNCHANGED found
  /\ UNCHANGED <<exists, recorded, cache, known, call, before, bounds>>

NamesLoaded(t) ==
  /\ pc[t] = "load"
  /\ todo[t] = {}
  /\ known' = Add(known, ProcessOf[t], found[t])
  /\ Finish(t, "ok")
  /\ UNCHANGED <<exists, recorded, cache, call, todo, found, before, bounds>>

\* named_targets() lists and caches, whatever the databases record.
NamedTargets(t) ==
  /\ pc[t] = "named_targets"
  /\ cache' = Add(cache, ProcessOf[t], exists)
  /\ found' = [found EXCEPT ![t] = exists]
  /\ Finish(t, "ok")
  /\ UNCHANGED <<exists, recorded, known, call, todo, before, bounds>>

----------------------------------------------------------------------------
(* cleanup() *)

\* Mutant of ListManaged: only what this provisioner has cached.
ListCached(t) ==
  /\ pc[t] = "cleanup"
  /\ todo' = [todo EXCEPT ![t] = cache[ProcessOf[t]]]
  /\ before' = [before EXCEPT ![t] = exists]
  /\ Goto(t, "delete")
  /\ UNCHANGED <<exists, recorded, cache, known, call, found, answer, bounds>>

\* The cached databases and those listed are to be deleted.
ListManaged(t) ==
  /\ pc[t] = "cleanup"
  /\ todo' = [todo EXCEPT ![t] = cache[ProcessOf[t]] \cup exists]
  /\ before' = [before EXCEPT ![t] = exists]
  /\ Goto(t, "delete")
  /\ UNCHANGED <<exists, recorded, cache, known, call, found, answer, bounds>>

\* api.delete_database(), which succeeds if there is none.
DeleteDatabase(t, n) ==
  /\ pc[t] = "delete"
  /\ n \in todo[t]
  /\ todo' = [todo EXCEPT ![t] = @ \ {n}]
  /\ exists' = exists \ {n}
  /\ recorded' = recorded \ {n}
  /\ UNCHANGED <<cache, known, pc, call, found, answer, before, bounds>>

ClearCaches(t) ==
  /\ pc[t] = "delete"
  /\ todo[t] = {}
  /\ cache' = [cache EXCEPT ![ProcessOf[t]] = {}]
  /\ known' = [known EXCEPT ![ProcessOf[t]] = {}]
  /\ Finish(t, "ok")
  /\ UNCHANGED <<exists, recorded, call, todo, found, before, bounds>>

----------------------------------------------------------------------------

\* The tasks T forget their calls.
Reset(T) ==
  /\ pc' = [t \in Tasks |-> IF t \in T THEN "idle" ELSE pc[t]]
  /\ call' = [t \in Tasks |-> IF t \in T THEN None ELSE call[t]]
  /\ todo' = [t \in Tasks |-> IF t \in T THEN {} ELSE todo[t]]
  /\ found' = [t \in Tasks |-> IF t \in T THEN {} ELSE found[t]]
  /\ answer' = [t \in Tasks |-> IF t \in T THEN None ELSE answer[t]]
  /\ before' = [t \in Tasks |-> IF t \in T THEN {} ELSE before[t]]

Return(t) ==
  /\ pc[t] = "return"
  /\ Reset({t})
  /\ UNCHANGED <<exists, recorded, cache, known, bounds>>

Fault == faults < MaxFaults /\ faults' = faults + 1 /\ UNCHANGED <<calls, cleanups>>

\* The API or a connection fails.
Error(t) ==
  /\ Fault
  /\ pc[t] \notin {"idle", "return", "lookup", "record"}
  /\ Finish(t, "failed")
  /\ UNCHANGED <<exists, recorded, cache, known, call, todo, found, before>>

\* The database is created, but the answer is lost.
CreateUnanswered(t) ==
  /\ Fault
  /\ pc[t] = "create"
  /\ Created(t)
  /\ Finish(t, "failed")
  /\ UNCHANGED <<recorded, cache, known, call, todo, found>>

\* The future is dropped.
Dropped(t) ==
  /\ Fault
  /\ pc[t] \notin {"idle", "return"}
  /\ Reset({t})
  /\ UNCHANGED <<exists, recorded, cache, known>>

\* A process dies and starts afresh.
Restart(p) ==
  /\ Fault
  /\ cache' = [cache EXCEPT ![p] = {}]
  /\ known' = [known EXCEPT ![p] = {}]
  /\ Reset({t \in Tasks : ProcessOf[t] = p})
  /\ UNCHANGED <<exists, recorded>>

Proceed(t) ==
  \/ Lookup(t) \/ GetDatabase(t) \/ CreateDatabase(t) \/ AlreadyExists(t) \/ Refetch(t)
  \/ PersistLogicalName(t) \/ CacheTarget(t) \/ Connect(t)
  \/ KnownNames(t) \/ ListNames(t) \/ NamesLoaded(t) \/ NamedTargets(t)
  \/ ListManaged(t) \/ ClearCaches(t)
  \/ \E n \in Names : LoadName(t, n) \/ DeleteDatabase(t, n)
  \/ Return(t)

Next ==
  \/ \E t \in Tasks :
       \/ \E c \in Call : Invoke(t, c)
       \/ Proceed(t)
       \/ Error(t)
       \/ CreateUnanswered(t)
       \/ Dropped(t)
  \/ \E p \in Processes : Restart(p)

Spec == Init /\ [][Next]_vars

----------------------------------------------------------------------------

\* Only an opener for a publish is ever about to create a database.
TypeOK ==
  /\ exists \subseteq Names
  /\ recorded \subseteq Names
  /\ cache \in [Processes -> SUBSET Names]
  /\ known \in [Processes -> SUBSET Names]
  /\ pc \in [Tasks -> {"idle", "lookup", "get", "create", "refetch", "persist", "record",
                       "connect", "names", "load", "named_targets", "cleanup", "delete",
                       "return"}]
  /\ \A t \in Tasks : pc[t] \in {"create", "refetch"} => call[t].op = "open"
  /\ call \in [Tasks -> Call \cup {None}]
  /\ todo \in [Tasks -> SUBSET Names]
  /\ found \in [Tasks -> SUBSET Names]
  /\ answer \in [Tasks -> {"ok", "none", "failed", None}]
  /\ before \in [Tasks -> SUBSET Names]
  /\ calls \in 0..MaxCalls
  /\ cleanups \in 0..MaxCleanups
  /\ faults \in 0..MaxFaults

Opened(t) == answer[t] # None /\ call[t].op \in {"open", "openExisting"}

\* A partition that was opened has a database that records its name, so that
\* every other process can find it: also if the database was created by
\* somebody who died before he had named it, or was cached by a listing.  And
\* whatever a provisioner knows, or names() answers, is such a name.
NamesAreRecorded ==
  /\ TypeOK
  /\ cleanups = 0 => \A t \in Tasks :
       /\ Opened(t) /\ answer[t] = "ok" => Name(t) \in recorded
       /\ call[t] # None /\ call[t].op = "names" => found[t] \subseteq recorded
       /\ known[ProcessOf[t]] \subseteq recorded

\* A race to create a database makes nobody fail.
RaceIsHarmless ==
  \A t \in Tasks : Opened(t) /\ answer[t] = "failed" => faults > 0 \/ cleanups > 0

\* A cleanup that succeeded has left no database of those there were, whoever
\* created them, unless somebody has created it again.
CleanupIsComplete ==
  \A t \in Tasks :
    answer[t] = "ok" /\ call[t].op = "cleanup" => before[t] \cap exists = {}

=============================================================================
