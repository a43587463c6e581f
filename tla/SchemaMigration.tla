-------------------------- MODULE SchemaMigration --------------------------
(***************************************************************************)
(* Schema migration of a database file by every connection that is opened  *)
(* to it: migrate_schema() in crates/wee-events-sqlite/src/database.rs.    *)
(*                                                                         *)
(* Connections of any process race.  SQLite is modelled by what this code  *)
(* relies on: a statement outside a transaction is atomic; BEGIN is        *)
(* deferred, so a transaction takes its snapshot with its first statement  *)
(* and the write lock with the first one that writes, which is refused if  *)
(* its snapshot is no longer the newest; a transaction whose connection is *)
(* closed is rolled back.  Binaries of different versions may open the     *)
(* same file.                                                              *)
(***************************************************************************)
EXTENDS Naturals

CONSTANTS Openers,
          TargetOf,   \* the schema version an opener's binary wants
          MaxVersion, \* the newest of them
          None,
          MaxFaults   \* bound on errors and crashes

ASSUME VersionAssumption ==
  /\ MaxVersion \in Nat
  /\ TargetOf \in [Openers -> 1..MaxVersion]
  /\ MaxFaults \in Nat
  /\ None \notin Openers

VARIABLES versionTable, \* _wee_events_schema_versions exists
          tables,       \* the versions whose tables exist
          version,      \* the recorded version, 0 for no row
          commits,      \* transactions committed that changed something
          writer,       \* who holds the write lock, or None
          pc,
          current,      \* the version an opener has read
          snapshot,     \* the commit its transaction began at
          faults

database == <<versionTable, tables, version, commits, writer>>
vars == <<database, pc, current, snapshot, faults>>

Init ==
  /\ versionTable = FALSE
  /\ tables = {}
  /\ version = 0
  /\ commits = 0
  /\ writer = None
  /\ pc = [o \in Openers |-> "start"]
  /\ current = [o \in Openers |-> 0]
  /\ snapshot = [o \in Openers |-> 0]
  /\ faults = 0

Goto(o, s) == pc' = [pc EXCEPT ![o] = s]

\* CREATE TABLE IF NOT EXISTS _wee_events_schema_versions; it waits for a
\* writer only if there is a table to create.
CreateVersionTable(o) ==
  /\ pc[o] = "start"
  /\ versionTable \/ writer = None
  /\ versionTable' = TRUE
  /\ commits' = IF versionTable THEN commits ELSE commits + 1
  /\ Goto(o, "read")
  /\ UNCHANGED <<tables, version, writer, current, snapshot, faults>>

\* current_schema_version(), compared with the target
ReadVersion(o) ==
  /\ pc[o] = "read"
  /\ current' = [current EXCEPT ![o] = version]
  /\ Goto(o, IF version >= TargetOf[o] THEN "open" ELSE "begin")
  /\ UNCHANGED <<database, snapshot, faults>>

\* Mutant of Migrations: the first one is taken for done.
AllButFirst(o) == (current[o] + 2)..TargetOf[o]

\* The DDL of the versions above the one read.
Migrations(o) == (current[o] + 1)..TargetOf[o]

\* The statements are CREATE ... IF NOT EXISTS: they write nothing where the
\* tables are there.
NothingToCreate(o) == Migrations(o) \subseteq tables

\* BEGIN; and the DDL.  The snapshot is that of now.
BeginWithoutChange(o) ==
  /\ pc[o] = "begin"
  /\ NothingToCreate(o)
  /\ snapshot' = [snapshot EXCEPT ![o] = commits]
  /\ Goto(o, "record")
  /\ UNCHANGED <<database, current, faults>>

BeginAndCreate(o) ==
  /\ pc[o] = "begin"
  /\ ~NothingToCreate(o)
  /\ writer = None
  /\ writer' = o
  /\ snapshot' = [snapshot EXCEPT ![o] = commits]
  /\ Goto(o, "record")
  /\ UNCHANGED <<versionTable, tables, version, commits, current, faults>>

\* The upsert of the version, which needs the write lock and a snapshot
\* nobody has committed after.
RecordVersion(o) ==
  /\ pc[o] = "record"
  /\ writer \in {None, o}
  /\ snapshot[o] = commits
  /\ writer' = o
  /\ Goto(o, "commit")
  /\ UNCHANGED <<versionTable, tables, version, commits, current, snapshot, faults>>

\* COMMIT: tables and version appear at once.
Commit(o) ==
  /\ pc[o] = "commit"
  /\ tables' = tables \cup Migrations(o)
  /\ version' = TargetOf[o]
  /\ commits' = commits + 1
  /\ writer' = None
  /\ Goto(o, "open")
  /\ UNCHANGED <<versionTable, current, snapshot, faults>>

\* Mutant of Close: the transaction stays open.
CloseLocked(o) ==
  /\ Goto(o, "failed")
  /\ UNCHANGED <<database, current, snapshot>>

\* The connection is closed: its transaction is rolled back.
Close(o) ==
  /\ writer' = IF writer = o THEN None ELSE writer
  /\ Goto(o, "failed")
  /\ UNCHANGED <<versionTable, tables, version, commits, current, snapshot>>

\* A transaction that has read and cannot write now is refused at once, and
\* migrate_schema() does not try again.
Refused(o) ==
  /\ pc[o] = "record"
  /\ snapshot[o] # commits \/ writer \notin {None, o}
  /\ Close(o)
  /\ UNCHANGED faults

Waiting(o) ==
  /\ writer \notin {None, o}
  /\ \/ pc[o] = "start" /\ ~versionTable
     \/ pc[o] = "begin" /\ ~NothingToCreate(o)

\* The busy timeout of 30 seconds expires.
DatabaseBusy(o) ==
  /\ Waiting(o)
  /\ Close(o)
  /\ UNCHANGED faults

\* A statement fails, or the process dies.
Fail(o) ==
  /\ faults < MaxFaults
  /\ faults' = faults + 1
  /\ pc[o] \notin {"open", "failed"}
  /\ Close(o)

\* The file is opened once more.
Reopen(o) ==
  /\ pc[o] \in {"open", "failed"}
  /\ Goto(o, "start")
  /\ current' = [current EXCEPT ![o] = 0]
  /\ snapshot' = [snapshot EXCEPT ![o] = 0]
  /\ UNCHANGED <<database, faults>>

Proceed(o) ==
  \/ CreateVersionTable(o)
  \/ ReadVersion(o)
  \/ BeginWithoutChange(o)
  \/ BeginAndCreate(o)
  \/ RecordVersion(o)
  \/ Commit(o)
  \/ Refused(o)
  \/ DatabaseBusy(o)

Next == \E o \in Openers : Proceed(o) \/ Fail(o) \/ Reopen(o)

\* Connections proceed, and whoever could not open the file tries again.
Fairness ==
  \A o \in Openers : WF_vars(Proceed(o) \/ (pc[o] = "failed" /\ Reopen(o)))

Spec == Init /\ [][Next]_vars /\ Fairness

----------------------------------------------------------------------------

\* The write lock is held by nobody but an opener inside its transaction.
TypeOK ==
  /\ versionTable \in BOOLEAN
  /\ tables \subseteq 1..MaxVersion
  /\ version \in 0..MaxVersion
  /\ commits \in Nat
  /\ writer \in {None} \cup {o \in Openers : pc[o] \in {"record", "commit"}}
  /\ pc \in [Openers -> {"start", "read", "begin", "record", "commit", "open", "failed"}]
  /\ current \in [Openers -> 0..MaxVersion]
  /\ snapshot \in [Openers -> Nat]
  /\ faults \in 0..MaxFaults

\* A connection that was opened has every table its binary uses, although
\* other openers read the same old version, failed half-way, or were binaries
\* that want less and record that.
OpenMeansMigrated ==
  \A o \in Openers : pc[o] = "open" => 1..TargetOf[o] \subseteq tables

\* The recorded version never promises a table there is not.
VersionMeansTables == 1..version \subseteq tables

\* The file does get migrated, whoever fails: nobody keeps the others out.
EventuallyMigrated == \A o \in Openers : <>(1..TargetOf[o] \subseteq tables)

=============================================================================
