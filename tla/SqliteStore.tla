----------------------------- MODULE SqliteStore -----------------------------
(***************************************************************************)
(* The SQLite event store on one partition's database file, shared by      *)
(* several store instances ("processes"):                                  *)
(* crates/wee-events-sqlite/src/event_store/store.rs.                      *)
(*                                                                         *)
(* Each process has one cached connection behind an async mutex and one    *)
(* ULID generator.  The generators' clocks are independent, so a process   *)
(* may draw ULIDs below those another has already stored.  A publish       *)
(* attempt is one IMMEDIATE transaction: it holds the database's write     *)
(* lock, inserts one row per event by a conditional INSERT, and commits.   *)
(* An INSERT that changes nothing is a conflict and rolls back.  A busy    *)
(* database is retried; a conflict is retried only if the caller gave no   *)
(* expected revision.  Any task may be dropped, and a process restarted,   *)
(* between two steps.                                                      *)
(***************************************************************************)
EXTENDS EventModel

CONSTANTS Procs,         \* store instances
          ProcOf,        \* the process each client runs in
          MaxAttempts,   \* MAX_AUTO_RETRIES
          MaxBusy,       \* MAX_BUSY_RETRIES
          MaxCalls,      \* bound on the calls made by all clients together
          MaxFaults      \* bound on store errors, dropped tasks and restarts

ASSUME ProcAssumption == ProcOf \in [Clients -> Procs]
ASSUME BoundAssumption ==
  /\ MaxAttempts \in Nat \ {0}
  /\ MaxBusy \in Nat
  /\ MaxCalls \in Nat
  /\ MaxFaults \in Nat

VARIABLES db,       \* db[a]: committed rows of aggregate a, in insertion order
          writeTx,  \* the client whose transaction holds the write lock, or None
          tx,       \* tx[c]: revisions of the rows c's open transaction inserted
          conn,     \* conn[p]: the client holding p's connection mutex, or None
          gen,      \* gen[p]: the last ULID p's generator handed out
          pc,       \* where each client is
          call,     \* its arguments
          attempt,  \* its publish attempts so far that ended in a conflict
          busy,     \* its busy retries within the current attempt
          reply,    \* what it is about to return
          calls,    \* number of calls made so far
          faults    \* number of faults so far

loopVars == <<attempt, busy>>
bounds == <<calls, faults>>
vars == <<db, writeTx, tx, conn, gen, pc, call, loopVars, reply, bounds>>

Agg(c) == call[c].agg

StoredRevisions ==
  UNION {{db[a][i].rev : i \in 1..Len(db[a])} : a \in Aggregates}

\* The revisions a caller can have got hold of.
KnownRevisions == {Zero} \cup StoredRevisions

\* The revisions of call[c]'s aggregate that c's own transaction sees.
VisibleRevisions(c) ==
  {db[Agg(c)][i].rev : i \in 1..Len(db[Agg(c)])}
    \cup {tx[c][i] : i \in 1..Len(tx[c])}

\* COALESCE(MAX(revision), zero)
MaxRevision(S) ==
  IF S = {} THEN Zero ELSE CHOOSE r \in S : \A q \in S : q <= r

\* SELECT ... ORDER BY revision
OrderByRevision(s) ==
  CHOOSE t \in [1..Len(s) -> {s[i] : i \in 1..Len(s)}] : Sorted(t)

----------------------------------------------------------------------------

Init ==
  /\ db = [a \in Aggregates |-> <<>>]
  /\ writeTx = None
  /\ tx = [c \in Clients |-> <<>>]
  /\ conn = [p \in Procs |-> None]
  /\ gen = [p \in Procs |-> 0]
  /\ pc = [c \in Clients |-> "idle"]
  /\ call = [c \in Clients |-> None]
  /\ attempt = [c \in Clients |-> 0]
  /\ busy = [c \in Clients |-> 0]
  /\ reply = [c \in Clients |-> None]
  /\ calls = 0
  /\ faults = 0

Invoke(c, request) ==
  /\ pc[c] = "idle"
  /\ calls < MaxCalls
  /\ calls' = calls + 1
  /\ call' = [call EXCEPT ![c] = request]
  /\ pc' = [pc EXCEPT ![c] = "connect"]
  /\ UNCHANGED <<db, writeTx, tx, conn, gen, loopVars, reply, faults>>

Publish(c, a, expected, n) ==
  Invoke(c, [op |-> "publish", agg |-> a, expected |-> expected, n |-> n])

Load(c, a) ==
  Invoke(c, [op |-> "load", agg |-> a, expected |-> None, n |-> 0])

\* conn.lock().await: held until the call returns, back-off sleeps included.
LockConnection(c) ==
  /\ pc[c] = "connect"
  /\ conn[ProcOf[c]] = None
  /\ conn' = [conn EXCEPT ![ProcOf[c]] = c]
  /\ pc' = [pc EXCEPT ![c] = IF call[c].n = 0 THEN "query" ELSE "begin"]
  /\ UNCHANGED <<db, writeTx, tx, gen, call, loopVars, reply, bounds>>

Finish(c, answer) ==
  /\ reply' = [reply EXCEPT ![c] = answer]
  /\ pc' = [pc EXCEPT ![c] = "return"]

\* load_from_connection, for a load and for a publish of no events.
Query(c) ==
  /\ pc[c] = "query"
  /\ LET s == OrderByRevision(db[Agg(c)])
     IN Finish(c, IF call[c].op = "load"
                    THEN Answer("loaded", RevisionOf(s), s)
                    ELSE Answer("ok", RevisionOf(s), <<>>))
  /\ UNCHANGED <<db, writeTx, tx, conn, gen, call, loopVars, bounds>>

\* BEGIN IMMEDIATE
BeginTransaction(c) ==
  /\ pc[c] = "begin"
  /\ writeTx = None
  /\ writeTx' = c
  /\ pc' = [pc EXCEPT ![c] = "insert"]
  /\ UNCHANGED <<db, tx, conn, gen, call, loopVars, reply, bounds>>

\* Mutant of Rollback: the rows go, the transaction stays open.
RollbackRows(c) ==
  /\ tx' = [tx EXCEPT ![c] = <<>>]
  /\ UNCHANGED writeTx

\* Dropping the transaction rolls it back.
Rollback(c) ==
  /\ tx' = [tx EXCEPT ![c] = <<>>]
  /\ writeTx' = IF writeTx = c THEN None ELSE writeTx

BusyRetryLeft(c) == busy[c] < MaxBusy

\* An attempt ended in SQLITE_BUSY or SQLITE_LOCKED: wait and try again, for
\* at most MaxBusy times; then it is an error like any other.
RetryBusy(c) ==
  /\ Rollback(c)
  /\ IF BusyRetryLeft(c)
       THEN /\ busy' = [busy EXCEPT ![c] = @ + 1]
            /\ pc' = [pc EXCEPT ![c] = "begin"]
            /\ UNCHANGED reply
       ELSE /\ Finish(c, Answer("failed", Zero, <<>>))
            /\ UNCHANGED busy
  /\ UNCHANGED <<db, conn, gen, call, attempt>>

\* The write lock is taken, and still is when the busy timeout expires.
DatabaseBusy(c) ==
  /\ pc[c] = "begin"
  /\ writeTx # None
  /\ RetryBusy(c)
  /\ UNCHANGED bounds

\* Mutants of Accepts: SQL_ADVANCE without `? > MAX(revision)`; an expected
\* revision met by any later one; SQL_EXACT for every row, not only the first.
AcceptsUnordered(c, r) ==
  \/ tx[c] # <<>> \/ call[c].expected = None
  \/ call[c].expected = MaxRevision(VisibleRevisions(c))

AcceptsNewer(c, r) == r > MaxRevision(VisibleRevisions(c))

AcceptsExactly(c, r) ==
  /\ call[c].expected \in {None, MaxRevision(VisibleRevisions(c))}
  /\ r > MaxRevision(VisibleRevisions(c))

\* The condition in the WHERE clause of the INSERT for revision r:
\* SQL_INITIAL, SQL_EXACT or SQL_ADVANCE.
Accepts(c, r) ==
  LET first == tx[c] = <<>>
      expected == call[c].expected
      visible == VisibleRevisions(c)
  IN \/ first /\ expected = Zero /\ visible = {}
     \/ first /\ expected \notin {None, Zero}
              /\ r > MaxRevision(visible) /\ MaxRevision(visible) = expected
     \/ (~first \/ expected = None) /\ r > MaxRevision(visible)

\* What c's generator can hand out next: above its last ULID, and not what
\* another process has stored (their random parts never coincide).
Ulids(c) == {r \in Revisions : r > gen[ProcOf[c]]} \ StoredRevisions

\* One event: an event id (not kept) and a revision are minted, and the row
\* is inserted.
Insert(c, r) ==
  /\ pc[c] = "insert"
  /\ r \in Ulids(c)
  /\ gen' = [gen EXCEPT ![ProcOf[c]] = r]
  /\ Accepts(c, r)
  /\ tx' = [tx EXCEPT ![c] = @ \o <<r>>]
  /\ pc' = [pc EXCEPT ![c] = IF Len(tx'[c]) = call[c].n THEN "commit" ELSE "insert"]
  /\ UNCHANGED <<db, writeTx, conn, call, loopVars, reply, bounds>>

\* The INSERT changed no row.  A caller that expected a revision is told; one
\* that did not has the whole batch tried again, until the attempts run out.
InsertConflict(c, r) ==
  /\ pc[c] = "insert"
  /\ r \in Ulids(c)
  /\ gen' = [gen EXCEPT ![ProcOf[c]] = r]
  /\ ~Accepts(c, r)
  /\ Rollback(c)
  /\ LET actual == MaxRevision(VisibleRevisions(c))
     IN \/ /\ call[c].expected # None
           /\ Finish(c, Answer("conflict", actual, <<>>))
           /\ UNCHANGED loopVars
        \/ /\ call[c].expected = None
           /\ attempt[c] + 1 < MaxAttempts
           /\ attempt' = [attempt EXCEPT ![c] = @ + 1]
           /\ busy' = [busy EXCEPT ![c] = 0]
           /\ pc' = [pc EXCEPT ![c] = "begin"]
           /\ UNCHANGED reply
        \/ /\ call[c].expected = None
           /\ attempt[c] + 1 = MaxAttempts
           /\ Finish(c, Answer("exhausted", actual, <<>>))
           /\ UNCHANGED loopVars
  /\ UNCHANGED <<db, conn, call, bounds>>

\* generate_ulid fails: the generator has overflowed.
GeneratorOverflow(c) ==
  /\ pc[c] = "insert"
  /\ Ulids(c) = {}
  /\ Rollback(c)
  /\ Finish(c, Answer("failed", Zero, <<>>))
  /\ UNCHANGED <<db, conn, gen, call, loopVars, bounds>>

\* Mutant of Commit: the rows are in, but the answer is taken for a busy one.
CommitRetried(c) ==
  /\ pc[c] = "commit"
  /\ db' = [db EXCEPT ![Agg(c)] = @ \o Batch(tx[c], call[c].expected)]
  /\ Rollback(c)
  /\ pc' = [pc EXCEPT ![c] = "begin"]
  /\ UNCHANGED <<conn, gen, call, loopVars, reply, bounds>>

\* tx.commit()
Commit(c) ==
  /\ pc[c] = "commit"
  /\ LET batch == Batch(tx[c], call[c].expected)
     IN /\ db' = [db EXCEPT ![Agg(c)] = @ \o batch]
        /\ Finish(c, Answer("ok", tx[c][Len(tx[c])], batch))
  /\ Rollback(c)
  /\ UNCHANGED <<conn, gen, call, loopVars, bounds>>

\* Mutant of End: the connection mutex is kept.
EndConnected(c) ==
  /\ Rollback(c)
  /\ pc' = [pc EXCEPT ![c] = "idle"]
  /\ call' = [call EXCEPT ![c] = None]
  /\ reply' = [reply EXCEPT ![c] = None]
  /\ attempt' = [attempt EXCEPT ![c] = 0]
  /\ busy' = [busy EXCEPT ![c] = 0]
  /\ UNCHANGED <<db, conn, gen, calls>>

\* The call ends, with an answer or because its task is dropped: the
\* transaction is rolled back and the connection mutex released.
End(c) ==
  /\ Rollback(c)
  /\ conn' = [conn EXCEPT ![ProcOf[c]] = IF @ = c THEN None ELSE @]
  /\ pc' = [pc EXCEPT ![c] = "idle"]
  /\ call' = [call EXCEPT ![c] = None]
  /\ reply' = [reply EXCEPT ![c] = None]
  /\ attempt' = [attempt EXCEPT ![c] = 0]
  /\ busy' = [busy EXCEPT ![c] = 0]
  /\ UNCHANGED <<db, gen, calls>>

Return(c) ==
  /\ pc[c] = "return"
  /\ End(c)
  /\ UNCHANGED faults

----------------------------------------------------------------------------
(* Faults *)

Fault == faults < MaxFaults /\ faults' = faults + 1

\* A statement fails for another reason (I/O, disk full, a remote error): the
\* error is returned.
StoreError(c) ==
  /\ Fault
  /\ pc[c] \in {"query", "begin", "insert", "commit"}
  /\ Rollback(c)
  /\ Finish(c, Answer("failed", Zero, <<>>))
  /\ UNCHANGED <<db, conn, gen, call, loopVars, calls>>

\* A remote database commits, and the connection breaks before it says so: the
\* publisher gets an error as of any other statement.  What was stored is kept
\* beside it, for the history.
CommitAnswerLost(c) ==
  /\ Fault
  /\ pc[c] = "commit"
  /\ LET batch == Batch(tx[c], call[c].expected)
     IN /\ db' = [db EXCEPT ![Agg(c)] = @ \o batch]
        /\ Finish(c, Answer("unknown", tx[c][Len(tx[c])], batch))
  /\ Rollback(c)
  /\ UNCHANGED <<conn, gen, call, loopVars, calls>>

\* The database reports busy in the middle of a transaction.
BusyInTransaction(c) ==
  /\ Fault
  /\ pc[c] \in {"insert", "commit"}
  /\ RetryBusy(c)
  /\ UNCHANGED calls

\* A caller drops the future, or its process dies.
Dropped(c) ==
  /\ Fault
  /\ pc[c] # "idle"
  /\ End(c)

\* A process that lost its tasks starts again: a new generator, on a clock
\* that may have been set back.
Restart(p) ==
  /\ Fault
  /\ \A c \in Clients : ProcOf[c] = p => pc[c] = "idle"
  /\ gen' = [gen EXCEPT ![p] = 0]
  /\ UNCHANGED <<db, writeTx, tx, conn, pc, call, loopVars, reply, calls>>

----------------------------------------------------------------------------

Proceed(c) ==
  \/ LockConnection(c)
  \/ Query(c)
  \/ BeginTransaction(c)
  \/ DatabaseBusy(c)
  \/ \E r \in Revisions : Insert(c, r)
  \/ \E r \in Revisions : InsertConflict(c, r)
  \/ GeneratorOverflow(c)
  \/ Commit(c)
  \/ Return(c)

Next ==
  \/ \E c \in Clients :
       \/ \E a \in Aggregates, e \in KnownRevisions \cup {None}, n \in 0..MaxBatch :
            Publish(c, a, e, n)
       \/ \E a \in Aggregates : Load(c, a)
       \/ Proceed(c)
       \/ StoreError(c)
       \/ CommitAnswerLost(c)
       \/ BusyInTransaction(c)
       \/ Dropped(c)
  \/ \E p \in Procs : Restart(p)

\* The runtime polls every task that can go on.
Fairness == \A c \in Clients : WF_vars(Proceed(c))

Spec == Init /\ [][Next]_vars /\ Fairness

----------------------------------------------------------------------------

Steps == {"idle", "connect", "query", "begin", "insert", "commit", "return"}

Outcome ==
  [kind : {"ok", "loaded", "conflict", "failed", "exhausted", "unknown"},
   rev : {Zero} \cup Revisions, events : Seq(Event)]

ASSUME OutcomeAssumption == None \notin Outcome

TypeOK ==
  /\ db \in [Aggregates -> Seq(Event)]
  /\ writeTx \in Clients \cup {None}
  /\ tx \in [Clients -> Seq(Revisions)]
  /\ conn \in [Procs -> Clients \cup {None}]
  /\ gen \in [Procs -> 0..MaxUlid]
  /\ pc \in [Clients -> Steps]
  /\ call \in [Clients -> Request \cup {None}]
  /\ attempt \in [Clients -> 0..(MaxAttempts - 1)]
  /\ busy \in [Clients -> 0..MaxBusy]
  /\ reply \in [Clients -> Outcome \cup {None}]
  /\ calls \in 0..MaxCalls
  /\ faults \in 0..MaxFaults

\* Rows are inserted in the order of their revisions, although the processes
\* that mint them disagree about the time: readers that saw a prefix of the
\* stream never find an older event in front of it later.
StreamMonotonic == \A a \in Aggregates : Sorted(db[a])

\* An accepted batch directly follows the revision its publisher expected,
\* whatever other processes committed in between.
ExpectedRevisionHonoured == \A a \in Aggregates : Honoured(db[a])

\* The `actual` of a conflict is a revision a reload can find: never one of
\* the rolled-back transaction's own rows.
ConflictReportsCommitted ==
  \A c \in Clients :
    reply[c] # None /\ reply[c].kind \in {"conflict", "exhausted"}
      => reply[c].rev \in
           {Zero} \cup {db[Agg(c)][i].rev : i \in 1..Len(db[Agg(c)])}

\* The write lock is never left behind: whoever holds it is in the middle of
\* an attempt, on its process's connection; not backing off, answering or gone.
WriteLockHeldInAttempt ==
  writeTx # None => /\ pc[writeTx] \in {"insert", "commit"}
                    /\ conn[ProcOf[writeTx]] = writeTx

\* Every load and publish returns: retries are bounded, and no task waits for
\* a connection for ever.
EveryCallReturns == \A c \in Clients : pc[c] # "idle" ~> pc[c] = "idle"

\* A caller turned away holds a stale revision (test_suite.rs:309-313: reload,
\* "retry with fresh revision (succeeds)").
ConflictMeansStale ==
  \A c \in Clients :
    reply[c] # None /\ reply[c].kind = "conflict"
      => call[c].expected # reply[c].rev

\* The store implements the EventStore promise, except that a publisher whose
\* clock is behind can be refused for no reason of the stream's: giving up
\* after the last attempt, and a conflict on the very revision that is
\* current, are failures that leave the stream alone; and that a publisher whose
\* connection breaks is not told that its batch was stored.
PromisedReply(c) ==
  IF reply[c] = None THEN None
  ELSE IF reply[c].kind = "unknown" THEN Answer("ok", reply[c].rev, reply[c].events)
  ELSE IF \/ reply[c].kind = "exhausted"
          \/ reply[c].kind = "conflict" /\ reply[c].rev = call[c].expected
    THEN Answer("failed", Zero, <<>>)
    ELSE reply[c]

ES == INSTANCE EventStream WITH log <- db,
                                reply <- [c \in Clients |-> PromisedReply(c)]

Linearizable == ES!Spec

=============================================================================
