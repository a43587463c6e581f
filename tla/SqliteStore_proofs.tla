------------------------- MODULE SqliteStore_proofs -------------------------
(***************************************************************************)
(* SqliteStore for any processes, clients, aggregates, batch sizes, retry  *)
(* limits, ULID range and number of faults: the inductive invariant IInv,  *)
(* the safety properties it implies, and the implementation of             *)
(* EventStream.                                                            *)
(***************************************************************************)
EXTENDS SqliteStore, EventModel_proofs, WellFoundedInduction

\* Who may be in the middle of a transaction: only the holder of the write
\* lock has rows, and it holds its process's connection.
LockInv ==
  \A c \in Clients :
    /\ pc[c] \in {"insert", "commit"} <=> writeTx = c
    /\ tx[c] # <<>> => writeTx = c
    /\ pc[c] \notin {"idle", "connect"} => conn[ProcOf[c]] = c

\* What a client's call and reply are at each step.
CallInv ==
  \A c \in Clients :
    /\ pc[c] # "idle" => call[c] \in Request
    /\ pc[c] = "idle" => call[c] = None
    /\ reply[c] # None => pc[c] = "return"
    /\ pc[c] \in {"begin", "insert", "commit"} => call[c].n > 0
    /\ pc[c] = "query" => call[c].n = 0

\* The rows of an open transaction can be appended as they are: they increase,
\* above the committed ones and within the generator, and follow the revision
\* their publisher expects.
RowsInv ==
  \A c \in Clients :
    /\ Increasing(tx[c])
    /\ \A i \in 1..Len(tx[c]) : tx[c][i] <= gen[ProcOf[c]]
    /\ tx[c] # <<>> =>
         /\ \A i \in 1..Len(tx[c]) : tx[c][i] > RevisionOf(db[Agg(c)])
         /\ call[c].expected \in {None, RevisionOf(db[Agg(c)])}
    /\ pc[c] = "insert" => Len(tx[c]) < call[c].n
    /\ pc[c] = "commit" => Len(tx[c]) = call[c].n

IInv == /\ TypeOK
        /\ LockInv
        /\ CallInv
        /\ RowsInv
        /\ StreamMonotonic
        /\ ExpectedRevisionHonoured
        /\ ConflictReportsCommitted

----------------------------------------------------------------------------
(* Sets and streams of revisions *)

\* MAX(revision) of a set with a greatest element is that element.
LEMMA MaxRevisionIs ==
  ASSUME NEW S \in SUBSET Nat, NEW m \in S, \A q \in S : q <= m
  PROVE  MaxRevision(S) = m
<1> DEFINE greatest(r) == \A q \in S : q <= r
<1>1. \A r \in S : greatest(r) => r = m
  <2> SUFFICES ASSUME NEW r \in S, greatest(r) PROVE r = m
    OBVIOUS
  <2>1. r \in Nat /\ m \in Nat /\ r <= m /\ m <= r
    OBVIOUS
  <2> QED
    BY <2>1
<1>2. (CHOOSE r \in S : greatest(r)) = m
  <2> HIDE DEF greatest
  <2>1. greatest(m)
    BY DEF greatest
  <2> QED
    BY <1>1, <2>1
<1> QED
  BY <1>2 DEF MaxRevision

\* Among the revisions of a sorted stream the last is the greatest.
LEMMA StreamMax ==
  ASSUME NEW s \in Seq(Event), Sorted(s)
  PROVE  MaxRevision({s[i].rev : i \in 1..Len(s)}) = RevisionOf(s)
<1> DEFINE S == {s[i].rev : i \in 1..Len(s)}
<1>1. CASE s = <<>>
  <2>1. S = {}
    BY <1>1
  <2> QED
    BY <1>1, <2>1 DEF MaxRevision, RevisionOf
<1>2. CASE s # <<>>
  <2>1. Len(s) \in 1..Len(s) /\ RevisionOf(s) = s[Len(s)].rev
    BY <1>2, RevisionOfType
  <2>2. S \in SUBSET Nat /\ RevisionOf(s) \in S
    BY <2>1, EventAt
  <2>3. \A q \in S : q <= RevisionOf(s)
    BY SortedLast
  <2> HIDE DEF S
  <2>4. MaxRevision(S) = RevisionOf(s)
    BY <2>2, <2>3, MaxRevisionIs
  <2> QED
    BY <2>4 DEF S
<1> QED
  BY <1>1, <1>2

\* A set of numbers has a least element.
LEMMA LeastElement ==
  ASSUME NEW D \in SUBSET Nat, D # {}
  PROVE  \E i \in D : \A j \in D : i <= j
<1> DEFINE R == OpToRel(<, Nat)
<1>1. IsWellFoundedOn(R, Nat)
  BY NatLessThanWellFounded
<1>2. \A x, y \in Nat : x < y => <<x, y>> \in R
  BY DEF OpToRel
<1> HIDE DEF R
<1>3. PICK i \in D : \A j \in D : ~ (<<j, i>> \in R)
  BY <1>1, WFMin
<1>4. \A j \in D : i <= j
  <2> SUFFICES ASSUME NEW j \in D PROVE i <= j
    OBVIOUS
  <2>1. i \in Nat /\ j \in Nat
    OBVIOUS
  <2>2. ~ (j < i)
    BY <1>2, <1>3, <2>1, Zenon
  <2> QED
    BY <2>1, <2>2, SMT
<1> QED
  BY <1>4

\* A sorted stream is its own ORDER BY revision: no other arrangement of its
\* events is sorted.
LEMMA SortedUnique ==
  ASSUME NEW s \in Seq(Event), Sorted(s),
         NEW t \in [1..Len(s) -> {s[i] : i \in 1..Len(s)}], Sorted(t)
  PROVE  t = s
<1> DEFINE n == Len(s)
<1>0. n \in Nat /\ t \in Seq(Event) /\ Len(t) = n
  OBVIOUS
<1>1. \A i \in 1..n : s[i].rev \in Nat /\ t[i].rev \in Nat
  BY <1>0, EventAt
<1>2. \A i \in 1..n : \E k \in 1..n : t[i] = s[k]
  OBVIOUS
<1>3. \A i, j \in 1..n : i < j => s[i].rev < s[j].rev /\ t[i].rev < t[j].rev
  BY <1>0 DEF Sorted
<1> HIDE DEF n
<1>4. \A i \in 1..n : t[i].rev >= s[i].rev
  <2> DEFINE D == {i \in 1..n : t[i].rev < s[i].rev}
  <2> SUFFICES ASSUME D # {} PROVE FALSE
    BY <1>1
  <2>1. D \in SUBSET Nat
    BY <1>0
  <2>2. PICK i \in D : \A j \in D : i <= j
    <3> HIDE DEF D
    <3> QED
      BY <2>1, LeastElement
  <2>3. PICK k \in 1..n : t[i] = s[k]
    BY <1>2
  <2>4. k < i
    BY <1>0, <1>1, <1>3, <2>3
  <2>5. t[k].rev < t[i].rev
    BY <1>3, <2>4
  <2>6. k \in D
    BY <2>3, <2>5
  <2> QED
    BY <1>0, <2>1, <2>2, <2>4, <2>6
<1>5. \A i \in 1..n : t[i].rev <= s[i].rev
  <2> DEFINE D == {m \in 0..n : \E i \in 1..n : m = n - i /\ t[i].rev > s[i].rev}
  <2>a. SUFFICES ASSUME NEW i \in 1..n, t[i].rev > s[i].rev PROVE FALSE
    BY <1>1
  <2>b. n - i \in D
    BY <1>0, <2>a
  <2>1. D \in SUBSET Nat /\ D # {}
    BY <1>0, <2>b
  <2>2. PICK m \in D : \A j \in D : m <= j
    <3> HIDE DEF D
    <3> QED
      BY <2>1, LeastElement
  <2>3. PICK l \in 1..n : m = n - l /\ t[l].rev > s[l].rev
    OBVIOUS
  <2>4. PICK k \in 1..n : t[l] = s[k]
    BY <1>2
  <2>5. k > l
    BY <1>0, <1>1, <1>3, <2>3, <2>4
  <2>6. t[k].rev > s[k].rev
    BY <1>1, <1>3, <2>4, <2>5
  <2>7. n - k \in D
    <3>1. n - k \in 0..n
      BY <1>0, <2>4
    <3> QED
      BY <2>4, <2>6, <3>1
  <2>8. m <= n - k
    BY <2>2, <2>7
  <2> QED
    BY <1>0, <2>3, <2>5, <2>8
<1>6. \A i \in 1..n : t[i] = s[i]
  <2> SUFFICES ASSUME NEW i \in 1..n PROVE t[i] = s[i]
    OBVIOUS
  <2>1. PICK k \in 1..n : t[i] = s[k]
    BY <1>2
  <2>2. s[k].rev = s[i].rev
    BY <1>1, <1>4, <1>5, <2>1
  <2>3. ~ (k < i) /\ ~ (i < k)
    BY <1>1, <1>3, <2>1, <2>2
  <2> QED
    BY <1>0, <2>1, <2>3
<1> QED
  BY <1>0, <1>6 DEF n

LEMMA OrderByRevisionIs ==
  ASSUME NEW s \in Seq(Event), Sorted(s)
  PROVE  OrderByRevision(s) = s
<1> DEFINE T == [1..Len(s) -> {s[i] : i \in 1..Len(s)}]
<1>1. s \in T
  OBVIOUS
<1>2. \A t \in T : Sorted(t) => t = s
  BY SortedUnique
<1> HIDE DEF T
<1>3. (CHOOSE t \in T : Sorted(t)) = s
  BY <1>1, <1>2
<1> QED
  BY <1>3 DEF OrderByRevision, T

----------------------------------------------------------------------------
(* The invariant *)

LEMMA InitIInv == Init => IInv
<1> SUFFICES ASSUME Init PROVE IInv
  OBVIOUS
<1>1. TypeOK
  BY BoundAssumption, MaxUlidAssumption DEF Init, TypeOK, Steps
<1>2. LockInv /\ CallInv /\ RowsInv
  BY NoneAssumption DEF Init, LockInv, CallInv, RowsInv, Increasing
<1>3. StreamMonotonic /\ ExpectedRevisionHonoured /\ ConflictReportsCommitted
  BY DEF Init, StreamMonotonic, ExpectedRevisionHonoured, ConflictReportsCommitted,
         Sorted, Honoured
<1> QED
  BY <1>1, <1>2, <1>3 DEF IInv

\* What a client inside a call works with.
LEMMA CallFacts ==
  ASSUME IInv, NEW c \in Clients, pc[c] # "idle"
  PROVE  /\ call[c] \in Request
         /\ Agg(c) \in Aggregates
         /\ call[c].expected \in Expected
         /\ call[c].n \in 0..MaxBatch
         /\ call[c].n \in Nat
         /\ call[c] # None
         /\ db[Agg(c)] \in Seq(Event)
         /\ Sorted(db[Agg(c)])
         /\ RevisionOf(db[Agg(c)]) \in {Zero} \cup Revisions
         /\ RevisionOf(db[Agg(c)]) \in Nat
<1>1. call[c] \in Request
  BY DEF IInv, CallInv
<1>2. /\ Agg(c) \in Aggregates
      /\ call[c].expected \in Expected
      /\ call[c].n \in 0..MaxBatch
      /\ call[c] # None
  BY <1>1, RequestType DEF Agg
<1>3. call[c].n \in Nat
  BY <1>2, MaxBatchAssumption
<1>4. db[Agg(c)] \in Seq(Event) /\ Sorted(db[Agg(c)])
  BY <1>2 DEF IInv, TypeOK, StreamMonotonic
<1>5. RevisionOf(db[Agg(c)]) \in {Zero} \cup Revisions
  BY <1>4, RevisionOfType
<1>6. RevisionOf(db[Agg(c)]) \in Nat
  BY <1>5, MaxUlidAssumption DEF Revisions, Zero
<1> QED
  BY <1>1, <1>2, <1>3, <1>4, <1>5, <1>6

\* The rows of a transaction are revisions, and so are what a generator
\* handed out.
LEMMA RowsType ==
  ASSUME IInv, NEW c \in Clients
  PROVE  /\ tx[c] \in Seq(Revisions)
         /\ \A i \in 1..Len(tx[c]) : tx[c][i] \in Nat
         /\ ProcOf[c] \in Procs
         /\ gen[ProcOf[c]] \in Nat
<1>1. tx[c] \in Seq(Revisions)
  BY DEF IInv, TypeOK
<1>2. \A i \in 1..Len(tx[c]) : tx[c][i] \in Nat
  BY <1>1, MaxUlidAssumption DEF Revisions
<1>3. ProcOf[c] \in Procs
  BY ProcAssumption
<1>4. gen[ProcOf[c]] \in Nat
  BY <1>3, MaxUlidAssumption DEF IInv, TypeOK
<1> QED
  BY <1>1, <1>2, <1>3, <1>4

\* The revision of a stream is zero or one of a committed row.
LEMMA CurrentIsCommitted ==
  ASSUME NEW s \in Seq(Event)
  PROVE  RevisionOf(s) \in {Zero} \cup {s[i].rev : i \in 1..Len(s)}
  BY RevisionOfType DEF RevisionOf

\* What was committed stays committed when a batch is appended.
LEMMA AppendKeeps ==
  ASSUME NEW s \in Seq(Event), NEW revs \in Seq(Revisions), NEW e \in Expected,
         NEW t, t = s \o Batch(revs, e)
  PROVE  {s[i].rev : i \in 1..Len(s)} \subseteq {t[i].rev : i \in 1..Len(t)}
<1>1. /\ Len(t) = Len(s) + Len(revs)
      /\ \A i \in 1..Len(s) : t[i] = s[i]
  BY AppendBatch
<1>2. Len(s) \in Nat /\ Len(revs) \in Nat
  OBVIOUS
<1>3. \A i \in 1..Len(s) : i \in 1..Len(t)
  BY <1>1, <1>2
<1> QED
  BY <1>1, <1>3

\* The publish options a caller can pass are well-typed.
LEMMA KnownRevisionType ==
  ASSUME IInv, NEW e \in KnownRevisions \cup {None}
  PROVE  e \in Expected
<1>1. \A a \in Aggregates : \A i \in 1..Len(db[a]) : db[a][i].rev \in Revisions
  BY EventAt DEF IInv, TypeOK
<1> QED
  BY <1>1 DEF KnownRevisions, StoredRevisions, Expected

\* A new call, whatever it asks, leaves the store alone.
LEMMA InvokePreserves ==
  ASSUME IInv, NEW c \in Clients, NEW request \in Request, Invoke(c, request)
  PROVE  IInv'
<1>1. /\ pc[c] = "idle" /\ pc'[c] = "connect" /\ call'[c] = request
      /\ \A d \in Clients : d # c => pc'[d] = pc[d] /\ call'[d] = call[d]
      /\ UNCHANGED <<db, writeTx, tx, conn, gen, loopVars, reply, faults>>
  BY DEF Invoke, IInv, TypeOK
<1>2. TypeOK'
  BY <1>1, BoundAssumption DEF Invoke, IInv, TypeOK, Steps, loopVars
<1>3. LockInv'
  BY <1>1 DEF IInv, LockInv
<1>4. CallInv'
  BY <1>1 DEF IInv, CallInv
<1>5. tx[c] = <<>> /\ reply[c] = None
  BY <1>1 DEF IInv, LockInv, CallInv
<1>6. RowsInv'
  BY <1>1, <1>5 DEF IInv, RowsInv, Agg
<1>7. StreamMonotonic' /\ ExpectedRevisionHonoured'
  BY <1>1 DEF IInv, StreamMonotonic, ExpectedRevisionHonoured
<1>8. ConflictReportsCommitted'
  BY <1>1, <1>5 DEF IInv, ConflictReportsCommitted, Agg
<1> QED
  BY <1>2, <1>3, <1>4, <1>6, <1>7, <1>8 DEF IInv

LEMMA PublishPreserves ==
  ASSUME IInv, NEW c \in Clients, NEW a \in Aggregates,
         NEW e \in KnownRevisions \cup {None}, NEW n \in 0..MaxBatch,
         Publish(c, a, e, n)
  PROVE  IInv'
<1> DEFINE request == [op |-> "publish", agg |-> a, expected |-> e, n |-> n]
<1>1. e \in Expected
  BY KnownRevisionType
<1>2. request \in Request
  BY <1>1 DEF Request, PublishRequest
<1>3. Invoke(c, request)
  BY DEF Publish
<1> HIDE DEF request
<1> QED
  BY <1>2, <1>3, InvokePreserves

LEMMA LoadPreserves ==
  ASSUME IInv, NEW c \in Clients, NEW a \in Aggregates, Load(c, a)
  PROVE  IInv'
<1> DEFINE request == [op |-> "load", agg |-> a, expected |-> None, n |-> 0]
<1>1. request \in Request
  BY DEF Request, LoadRequest
<1>2. Invoke(c, request)
  BY DEF Load
<1> HIDE DEF request
<1> QED
  BY <1>1, <1>2, InvokePreserves

LEMMA LockConnectionPreserves ==
  ASSUME IInv, NEW c \in Clients, LockConnection(c)
  PROVE  IInv'
<1> DEFINE step == IF call[c].n = 0 THEN "query" ELSE "begin"
<1>1. /\ pc[c] = "connect" /\ pc'[c] = step
      /\ \A d \in Clients : d # c => pc'[d] = pc[d]
      /\ conn[ProcOf[c]] = None
      /\ conn' = [conn EXCEPT ![ProcOf[c]] = c]
      /\ UNCHANGED <<db, writeTx, tx, gen, call, loopVars, reply, bounds>>
  BY DEF LockConnection, IInv, TypeOK
<1>2. ProcOf[c] \in Procs /\ conn'[ProcOf[c]] = c
  BY <1>1, ProcAssumption DEF IInv, TypeOK
<1>3. TypeOK'
  BY <1>1, <1>2 DEF LockConnection, IInv, TypeOK, Steps, loopVars, bounds
<1>4. LockInv'
  <2>1. \A d \in Clients : d # c /\ pc[d] \notin {"idle", "connect"}
          => conn[ProcOf[d]] = d /\ ProcOf[d] # ProcOf[c]
    BY <1>1, NoneAssumption DEF IInv, LockInv
  <2>2. \A d \in Clients : ProcOf[d] \in Procs
    BY ProcAssumption
  <2>3. \A d \in Clients : d # c /\ pc[d] \notin {"idle", "connect"}
          => conn'[ProcOf[d]] = d
    BY <1>1, <2>1, <2>2 DEF IInv, TypeOK
  <2> QED
    BY <1>1, <1>2, <2>3 DEF IInv, LockInv
<1>5. call[c].n \in Nat
  BY <1>1, CallFacts
<1>6. CallInv'
  BY <1>1, <1>5 DEF IInv, CallInv
<1>7. RowsInv'
  BY <1>1 DEF IInv, RowsInv, Agg
<1>8. StreamMonotonic' /\ ExpectedRevisionHonoured' /\ ConflictReportsCommitted'
  BY <1>1 DEF IInv, StreamMonotonic, ExpectedRevisionHonoured,
              ConflictReportsCommitted, Agg
<1> QED
  BY <1>3, <1>4, <1>6, <1>7, <1>8 DEF IInv

LEMMA BeginTransactionPreserves ==
  ASSUME IInv, NEW c \in Clients, BeginTransaction(c)
  PROVE  IInv'
<1>1. /\ pc[c] = "begin" /\ pc'[c] = "insert"
      /\ \A d \in Clients : d # c => pc'[d] = pc[d]
      /\ writeTx = None /\ writeTx' = c
      /\ UNCHANGED <<db, tx, conn, gen, call, loopVars, reply, bounds>>
  BY DEF BeginTransaction, IInv, TypeOK
<1>2. TypeOK'
  BY <1>1 DEF BeginTransaction, IInv, TypeOK, Steps, loopVars, bounds
<1>3. \A d \in Clients : tx[d] = <<>> /\ pc[d] \notin {"insert", "commit"}
  BY <1>1, NoneAssumption DEF IInv, LockInv
<1>4. LockInv'
  BY <1>1, <1>3 DEF IInv, LockInv
<1>5. CallInv'
  BY <1>1 DEF IInv, CallInv
<1>6. RowsInv'
  <2>1. Len(tx[c]) = 0 /\ call[c].n > 0
    BY <1>1, <1>3 DEF IInv, CallInv
  <2> QED
    BY <1>1, <1>3, <2>1 DEF IInv, RowsInv, Agg
<1>7. StreamMonotonic' /\ ExpectedRevisionHonoured' /\ ConflictReportsCommitted'
  BY <1>1 DEF IInv, StreamMonotonic, ExpectedRevisionHonoured,
              ConflictReportsCommitted, Agg
<1> QED
  BY <1>2, <1>4, <1>5, <1>6, <1>7 DEF IInv

----------------------------------------------------------------------------
(* Steps that end an attempt without a commit *)

\* The answers a step can give are of the declared type.
LEMMA OutcomeType ==
  ASSUME NEW kind \in {"ok", "loaded", "conflict", "failed", "exhausted", "unknown"},
         NEW rev \in {Zero} \cup Revisions, NEW events \in Seq(Event)
  PROVE  /\ Answer(kind, rev, events) \in Outcome
         /\ Answer(kind, rev, events).kind = kind
         /\ Answer(kind, rev, events).rev = rev
         /\ Answer(kind, rev, events) # None
<1>1. Answer(kind, rev, events) \in Outcome
  BY DEF Answer, Outcome
<1> QED
  BY <1>1, OutcomeAssumption DEF Answer

\* A client whose attempt ends without a commit leaves the committed rows and
\* the other clients alone, and holds the write lock no longer.
LEMMA RollbackPreserves ==
  ASSUME IInv, NEW c \in Clients, NEW step \in {"begin", "return"},
         pc[c] \in {"query", "begin", "insert", "commit"},
         step = "begin" => pc[c] # "query" /\ UNCHANGED reply,
         Rollback(c), pc' = [pc EXCEPT ![c] = step],
         UNCHANGED <<db, conn, call>>,
         gen' \in [Procs -> 0..MaxUlid], \A p \in Procs : gen[p] <= gen'[p],
         attempt' \in [Clients -> 0..(MaxAttempts - 1)],
         busy' \in [Clients -> 0..MaxBusy],
         calls' \in 0..MaxCalls, faults' \in 0..MaxFaults,
         reply' \in [Clients -> Outcome \cup {None}],
         \A d \in Clients : d # c => reply'[d] = reply[d],
         reply'[c] # None /\ reply'[c].kind \in {"conflict", "exhausted"}
           => reply'[c].rev \in
                {Zero} \cup {db[Agg(c)][i].rev : i \in 1..Len(db[Agg(c)])}
  PROVE  IInv'
<1>1. /\ pc'[c] = step
      /\ \A d \in Clients : d # c => pc'[d] = pc[d]
      /\ tx'[c] = <<>>
      /\ \A d \in Clients : d # c => tx'[d] = tx[d]
      /\ writeTx' = IF writeTx = c THEN None ELSE writeTx
  BY DEF IInv, TypeOK, Rollback
<1>2. TypeOK'
  <2>1. tx' \in [Clients -> Seq(Revisions)] /\ writeTx' \in Clients \cup {None}
    BY DEF IInv, TypeOK, Rollback
  <2>2. pc' \in [Clients -> Steps]
    BY DEF IInv, TypeOK, Steps
  <2> QED
    BY <2>1, <2>2 DEF IInv, TypeOK
<1>3. LockInv'
  <2>1. writeTx' # c
    BY <1>1, NoneAssumption
  <2>2. \A d \in Clients : d # c => (writeTx' = d <=> writeTx = d)
    BY <1>1, NoneAssumption
  <2>3. conn'[ProcOf[c]] = c
    BY DEF IInv, LockInv
  <2> QED
    BY <1>1, <2>1, <2>2, <2>3 DEF IInv, LockInv
<1>4. CallInv'
  <2>1. reply[c] = None
    BY DEF IInv, CallInv
  <2>2. step = "begin" => reply'[c] = None
    BY <2>1
  <2>3. step = "begin" => call[c].n > 0
    BY DEF IInv, CallInv
  <2> QED
    BY <1>1, <2>2, <2>3 DEF IInv, CallInv
<1>5. RowsInv'
  <2>1. ASSUME NEW d \in Clients, d # c
        PROVE  \A i \in 1..Len(tx[d]) : tx[d][i] <= gen'[ProcOf[d]]
    <3>1. ProcOf[d] \in Procs
      BY RowsType
    <3>2. \A i \in 1..Len(tx[d]) : tx[d][i] \in Nat
      BY RowsType
    <3>3. \A i \in 1..Len(tx[d]) : tx[d][i] <= gen[ProcOf[d]]
      BY DEF IInv, RowsInv
    <3>4. gen[ProcOf[d]] \in Nat /\ gen'[ProcOf[d]] \in Nat
      BY <3>1, MaxUlidAssumption DEF IInv, TypeOK
    <3>5. gen[ProcOf[d]] <= gen'[ProcOf[d]]
      BY <3>1
    <3> QED
      BY <3>2, <3>3, <3>4, <3>5
  <2>2. \A d \in Clients : Agg(d)' = Agg(d)
    BY DEF Agg
  <2>3. ASSUME NEW d \in Clients
        PROVE  /\ Increasing(tx'[d])
               /\ \A i \in 1..Len(tx'[d]) : tx'[d][i] <= gen'[ProcOf[d]]
               /\ tx'[d] # <<>> =>
                    /\ \A i \in 1..Len(tx'[d]) : tx'[d][i] > RevisionOf(db[Agg(d)])
                    /\ call[d].expected \in {None, RevisionOf(db[Agg(d)])}
               /\ pc'[d] = "insert" => Len(tx'[d]) < call[d].n
               /\ pc'[d] = "commit" => Len(tx'[d]) = call[d].n
    <3>1. CASE d = c
      BY <1>1, <3>1 DEF Increasing
    <3>2. CASE d # c
      BY <1>1, <2>1, <3>2 DEF IInv, RowsInv
    <3> QED
      BY <3>1, <3>2
  <2> QED
    BY <2>2, <2>3 DEF RowsInv
<1>6. StreamMonotonic' /\ ExpectedRevisionHonoured'
  BY DEF IInv, StreamMonotonic, ExpectedRevisionHonoured
<1>7. ConflictReportsCommitted'
  <2> SUFFICES ASSUME NEW d \in Clients,
                      reply'[d] # None, reply'[d].kind \in {"conflict", "exhausted"}
               PROVE  reply'[d].rev \in
                        {Zero} \cup {db[Agg(d)][i].rev : i \in 1..Len(db[Agg(d)])}
    BY DEF ConflictReportsCommitted, Agg
  <2>1. CASE d = c
    BY <2>1
  <2>2. CASE d # c
    BY <2>2 DEF IInv, ConflictReportsCommitted
  <2> QED
    BY <2>1, <2>2
<1> QED
  BY <1>2, <1>3, <1>4, <1>5, <1>6, <1>7 DEF IInv

\* The same for a client that answers, when the generator stays as it is.
LEMMA FinishPreserves ==
  ASSUME IInv, NEW c \in Clients, NEW answer \in Outcome,
         pc[c] \in {"query", "begin", "insert", "commit"},
         answer.kind \notin {"conflict", "exhausted"},
         Rollback(c), Finish(c, answer), UNCHANGED <<db, conn, gen, call, loopVars>>,
         calls' \in 0..MaxCalls, faults' \in 0..MaxFaults
  PROVE  IInv'
<1>1. /\ pc' = [pc EXCEPT ![c] = "return"]
      /\ reply' = [reply EXCEPT ![c] = answer]
  BY DEF Finish
<1>2. /\ reply' \in [Clients -> Outcome \cup {None}]
      /\ reply'[c] = answer
      /\ \A d \in Clients : d # c => reply'[d] = reply[d]
  BY <1>1 DEF IInv, TypeOK
<1>3. gen' \in [Procs -> 0..MaxUlid] /\ \A p \in Procs : gen[p] <= gen'[p]
  BY MaxUlidAssumption DEF IInv, TypeOK
<1>4. /\ attempt' \in [Clients -> 0..(MaxAttempts - 1)]
      /\ busy' \in [Clients -> 0..MaxBusy]
  BY DEF IInv, TypeOK, loopVars
<1> QED
  BY <1>1, <1>2, <1>3, <1>4, RollbackPreserves

\* A client without the write lock has nothing to roll back.
LEMMA NothingToRollBack ==
  ASSUME IInv, NEW c \in Clients, pc[c] \notin {"insert", "commit"},
         UNCHANGED <<tx, writeTx>>
  PROVE  Rollback(c)
<1>1. writeTx # c /\ tx[c] = <<>>
  BY DEF IInv, LockInv
<1> QED
  BY <1>1 DEF Rollback, IInv, TypeOK

\* Answers without events, of every kind.
LEMMA EmptyAnswer ==
  ASSUME NEW kind \in {"ok", "loaded", "conflict", "failed", "exhausted", "unknown"},
         NEW rev \in {Zero} \cup Revisions
  PROVE  /\ Answer(kind, rev, <<>>) \in Outcome
         /\ Answer(kind, rev, <<>>).kind = kind
         /\ Answer(kind, rev, <<>>).rev = rev
         /\ Answer(kind, rev, <<>>) # None
<1>1. <<>> \in Seq(Event)
  OBVIOUS
<1>2. Answer(kind, rev, <<>>) \in Outcome
  BY <1>1 DEF Answer, Outcome
<1> QED
  BY <1>2, OutcomeAssumption DEF Answer

\* The error a failed call reports.
LEMMA FailedAnswer == Answer("failed", Zero, <<>>) \in Outcome
                      /\ Answer("failed", Zero, <<>>).kind = "failed"
<1>1. <<>> \in Seq(Event)
  OBVIOUS
<1> QED
  BY <1>1 DEF Answer, Outcome

LEMMA QueryPreserves ==
  ASSUME IInv, NEW c \in Clients, Query(c)
  PROVE  IInv'
<1> DEFINE s == OrderByRevision(db[Agg(c)])
           answer == IF call[c].op = "load"
                       THEN Answer("loaded", RevisionOf(s), s)
                       ELSE Answer("ok", RevisionOf(s), <<>>)
<1>1. /\ pc[c] = "query"
      /\ Finish(c, answer)
      /\ UNCHANGED <<db, writeTx, tx, conn, gen, call, loopVars, bounds>>
  BY DEF Query
<1>2. s \in Seq(Event) /\ RevisionOf(s) \in {Zero} \cup Revisions
  BY <1>1, CallFacts, OrderByRevisionIs
<1>3. answer \in Outcome /\ answer.kind \notin {"conflict", "exhausted"}
  <2>1. <<>> \in Seq(Event)
    OBVIOUS
  <2> HIDE DEF s
  <2> QED
    BY <1>2, <2>1, OutcomeType
<1> HIDE DEF answer
<1>4. Rollback(c)
  BY <1>1, NothingToRollBack
<1>5. calls' \in 0..MaxCalls /\ faults' \in 0..MaxFaults
  BY <1>1 DEF IInv, TypeOK, bounds
<1> QED
  BY <1>1, <1>3, <1>4, <1>5, FinishPreserves

LEMMA RetryBusyPreserves ==
  ASSUME IInv, NEW c \in Clients, pc[c] \in {"begin", "insert", "commit"},
         RetryBusy(c), calls' \in 0..MaxCalls, faults' \in 0..MaxFaults
  PROVE  IInv'
<1>1. Rollback(c) /\ UNCHANGED <<db, conn, gen, call, attempt>>
  BY DEF RetryBusy
<1>2. CASE /\ BusyRetryLeft(c)
           /\ busy' = [busy EXCEPT ![c] = @ + 1]
           /\ pc' = [pc EXCEPT ![c] = "begin"]
           /\ UNCHANGED reply
  <2>1. busy' \in [Clients -> 0..MaxBusy]
    BY <1>2, BoundAssumption DEF IInv, TypeOK, BusyRetryLeft
  <2>2. /\ reply' \in [Clients -> Outcome \cup {None}]
        /\ attempt' \in [Clients -> 0..(MaxAttempts - 1)]
        /\ gen' \in [Procs -> 0..MaxUlid]
        /\ \A p \in Procs : gen[p] <= gen'[p]
    BY <1>1, <1>2, MaxUlidAssumption DEF IInv, TypeOK
  <2>3. reply'[c] = None
    BY <1>2 DEF IInv, CallInv
  <2> QED
    BY <1>1, <1>2, <2>1, <2>2, <2>3, RollbackPreserves
<1>3. CASE ~BusyRetryLeft(c)
  <2>1. Finish(c, Answer("failed", Zero, <<>>)) /\ UNCHANGED busy
    BY <1>3 DEF RetryBusy
  <2> QED
    BY <1>1, <2>1, FailedAnswer, FinishPreserves DEF loopVars
<1> QED
  BY <1>2, <1>3 DEF RetryBusy

LEMMA DatabaseBusyPreserves ==
  ASSUME IInv, NEW c \in Clients, DatabaseBusy(c)
  PROVE  IInv'
<1>1. calls' \in 0..MaxCalls /\ faults' \in 0..MaxFaults
  BY DEF DatabaseBusy, bounds, IInv, TypeOK
<1> QED
  BY <1>1, RetryBusyPreserves DEF DatabaseBusy

\* A fault counts against its bound.
LEMMA FaultType ==
  ASSUME IInv, Fault
  PROVE  faults' \in 0..MaxFaults
  BY BoundAssumption DEF Fault, IInv, TypeOK

LEMMA BusyInTransactionPreserves ==
  ASSUME IInv, NEW c \in Clients, BusyInTransaction(c)
  PROVE  IInv'
<1>1. calls' \in 0..MaxCalls /\ faults' \in 0..MaxFaults
  BY FaultType DEF BusyInTransaction, IInv, TypeOK
<1> QED
  BY <1>1, RetryBusyPreserves DEF BusyInTransaction

LEMMA StoreErrorPreserves ==
  ASSUME IInv, NEW c \in Clients, StoreError(c)
  PROVE  IInv'
<1>1. calls' \in 0..MaxCalls /\ faults' \in 0..MaxFaults
  BY FaultType DEF StoreError, IInv, TypeOK
<1> QED
  BY <1>1, FailedAnswer, FinishPreserves DEF StoreError

LEMMA GeneratorOverflowPreserves ==
  ASSUME IInv, NEW c \in Clients, GeneratorOverflow(c)
  PROVE  IInv'
<1>1. calls' \in 0..MaxCalls /\ faults' \in 0..MaxFaults
  BY DEF GeneratorOverflow, bounds, IInv, TypeOK
<1> QED
  BY <1>1, FailedAnswer, FinishPreserves DEF GeneratorOverflow

----------------------------------------------------------------------------
(* The INSERT *)

\* The greatest revision an open transaction sees: its own last row, or else
\* the stream's current revision.
LEMMA VisibleMax ==
  ASSUME IInv, NEW c \in Clients, pc[c] = "insert"
  PROVE  /\ VisibleRevisions(c) = {} => db[Agg(c)] = <<>>
         /\ tx[c] = <<>> => MaxRevision(VisibleRevisions(c)) = RevisionOf(db[Agg(c)])
         /\ tx[c] # <<>> => /\ Len(tx[c]) \in 1..Len(tx[c])
                            /\ MaxRevision(VisibleRevisions(c)) = tx[c][Len(tx[c])]
<1> DEFINE s == db[Agg(c)]
           stored == {s[i].rev : i \in 1..Len(s)}
           rows == tx[c]
           own == {rows[i] : i \in 1..Len(rows)}
<1>1. s \in Seq(Event) /\ Sorted(s)
  BY CallFacts
<1>2. rows \in Seq(Revisions)
  BY DEF IInv, TypeOK
<1>3. VisibleRevisions(c) = stored \cup own
  BY DEF VisibleRevisions
<1>4. stored \cup own = {} => s = <<>>
  <2>1. s # <<>> => Len(s) \in 1..Len(s)
    BY <1>1
  <2>2. s # <<>> => s[Len(s)].rev \in stored
    BY <2>1
  <2> QED
    BY <2>2
<1>5. CASE rows = <<>>
  <2>1. own = {}
    BY <1>5
  <2>2. MaxRevision(stored) = RevisionOf(s)
    BY <1>1, StreamMax
  <2> HIDE DEF stored, own, s
  <2>3. MaxRevision(stored \cup own) = RevisionOf(s)
    BY <2>1, <2>2
  <2> QED
    BY <1>3, <1>4, <1>5, <2>3 DEF s
<1>6. CASE rows # <<>>
  <2> DEFINE m == rows[Len(rows)]
  <2>1. Len(rows) \in 1..Len(rows)
    BY <1>2, <1>6
  <2>2. stored \in SUBSET Nat
    BY <1>1, EventAt
  <2>3. \A i \in 1..Len(rows) : rows[i] \in Nat
    BY <1>2, MaxUlidAssumption DEF Revisions
  <2>4. m \in stored \cup own /\ stored \cup own \in SUBSET Nat
    BY <2>1, <2>2, <2>3
  <2>5. \A q \in stored : q <= m
    <3>1. RevisionOf(s) < m /\ RevisionOf(s) \in Nat
      BY <1>6, <2>1, CallFacts DEF IInv, RowsInv
    <3>2. \A i \in 1..Len(s) : s[i].rev <= RevisionOf(s) /\ s[i].rev \in Nat
      BY <1>1, SortedLast, EventAt
    <3>3. m \in Nat
      BY <2>1, <2>3
    <3> QED
      BY <3>1, <3>2, <3>3
  <2>6. \A i \in 1..Len(rows) : rows[i] <= m
    <3>1. \A i \in 1..Len(rows) : i < Len(rows) => rows[i] < m
      BY <2>1 DEF IInv, RowsInv, Increasing
    <3> QED
      BY <2>1, <2>3, <3>1
  <2>7. \A q \in stored \cup own : q <= m
    BY <2>5, <2>6
  <2> HIDE DEF stored, own, m
  <2>8. MaxRevision(stored \cup own) = m
    BY <2>4, <2>7, MaxRevisionIs
  <2> QED
    BY <1>3, <1>4, <1>6, <2>1, <2>8 DEF m
<1> QED
  BY <1>5, <1>6

\* A ULID of a client's generator is above every row of its transaction.
LEMMA UlidFacts ==
  ASSUME IInv, NEW c \in Clients, NEW r \in Ulids(c)
  PROVE  /\ r \in Revisions /\ r \in Nat
         /\ r > gen[ProcOf[c]]
         /\ \A i \in 1..Len(tx[c]) : tx[c][i] < r /\ tx[c][i] \in Nat
<1>1. r \in Revisions /\ r > gen[ProcOf[c]]
  BY DEF Ulids
<1>2. r \in Nat
  BY <1>1, MaxUlidAssumption DEF Revisions
<1>3. gen[ProcOf[c]] \in Nat
  BY RowsType
<1>5. \A i \in 1..Len(tx[c]) : tx[c][i] \in Nat
  BY RowsType
<1>6. \A i \in 1..Len(tx[c]) : tx[c][i] <= gen[ProcOf[c]]
  BY DEF IInv, RowsInv
<1> QED
  BY <1>1, <1>2, <1>3, <1>5, <1>6

\* A row the INSERT lets in is above the stream, and the transaction's first
\* row follows the revision the publisher expects.
LEMMA AcceptedRow ==
  ASSUME IInv, NEW c \in Clients, pc[c] = "insert", NEW r \in Ulids(c), Accepts(c, r)
  PROVE  /\ r > RevisionOf(db[Agg(c)])
         /\ call[c].expected \in {None, RevisionOf(db[Agg(c)])}
<1> DEFINE actual == RevisionOf(db[Agg(c)])
           visible == VisibleRevisions(c)
           expected == call[c].expected
<1>1. r \in Nat /\ r > 0
  BY UlidFacts, MaxUlidAssumption DEF Revisions
<1>2. actual \in Nat
  BY CallFacts
<1>3. CASE tx[c] = <<>>
  <2>1. MaxRevision(visible) = actual
    BY <1>3, VisibleMax
  <2>2. visible = {} => actual = Zero
    BY VisibleMax DEF RevisionOf
  <2>3. \/ expected = Zero /\ visible = {}
        \/ r > MaxRevision(visible) /\ MaxRevision(visible) = expected
        \/ expected = None /\ r > MaxRevision(visible)
    BY <1>3 DEF Accepts
  <2> HIDE DEF actual, visible, expected
  <2>4. r > actual /\ expected \in {None, actual}
    BY <1>1, <2>1, <2>2, <2>3 DEF Zero
  <2> QED
    BY <2>4 DEF actual, expected
<1>4. CASE tx[c] # <<>>
  <2>1. /\ \A i \in 1..Len(tx[c]) : tx[c][i] > actual
        /\ expected \in {None, actual}
    BY <1>4 DEF IInv, RowsInv
  <2>2. /\ Len(tx[c]) \in 1..Len(tx[c])
        /\ tx[c][Len(tx[c])] < r
        /\ tx[c][Len(tx[c])] \in Nat
    BY <1>4, VisibleMax, UlidFacts
  <2> QED
    BY <1>1, <1>2, <2>1, <2>2
<1> QED
  BY <1>3, <1>4

\* Only the first row of a batch can be refused, and then the transaction sees
\* exactly what is committed.
LEMMA RefusedRow ==
  ASSUME IInv, NEW c \in Clients, pc[c] = "insert", NEW r \in Ulids(c), ~Accepts(c, r)
  PROVE  MaxRevision(VisibleRevisions(c)) = RevisionOf(db[Agg(c)])
<1>1. CASE tx[c] # <<>>
  <2>1. /\ Len(tx[c]) \in 1..Len(tx[c])
        /\ MaxRevision(VisibleRevisions(c)) = tx[c][Len(tx[c])]
    BY <1>1, VisibleMax
  <2>2. r > tx[c][Len(tx[c])]
    BY <2>1, UlidFacts
  <2>3. Accepts(c, r)
    BY <1>1, <2>1, <2>2 DEF Accepts
  <2> QED
    BY <2>3
<1> QED
  BY <1>1, VisibleMax

\* The row goes to the end of the transaction.
LEMMA InsertPreserves ==
  ASSUME IInv, NEW c \in Clients, NEW r \in Revisions, Insert(c, r)
  PROVE  IInv'
<1> DEFINE p == ProcOf[c]
           n == Len(tx[c])
<1>1. /\ pc[c] = "insert" /\ r \in Ulids(c) /\ Accepts(c, r)
      /\ gen' = [gen EXCEPT ![p] = r]
      /\ tx' = [tx EXCEPT ![c] = @ \o <<r>>]
      /\ UNCHANGED <<db, writeTx, conn, call, loopVars, reply, bounds>>
  BY DEF Insert
<1>2. /\ pc' = [pc EXCEPT ![c] = IF Len(tx'[c]) = call[c].n THEN "commit" ELSE "insert"]
      /\ tx[c] \in Seq(Revisions)
      /\ tx'[c] = tx[c] \o <<r>>
      /\ \A d \in Clients : d # c => tx'[d] = tx[d] /\ pc'[d] = pc[d]
  BY <1>1 DEF Insert, IInv, TypeOK
<1>3. /\ tx'[c] \in Seq(Revisions)
      /\ n \in Nat
      /\ Len(tx'[c]) = n + 1
      /\ tx'[c][n + 1] = r
      /\ \A i \in 1..n : tx'[c][i] = tx[c][i]
  BY <1>2
<1>4. /\ r \in Nat /\ r > gen[p]
      /\ \A i \in 1..n : tx[c][i] < r /\ tx[c][i] \in Nat
  BY <1>1, UlidFacts
<1>5. /\ p \in Procs /\ gen'[p] = r
      /\ \A q \in Procs : gen'[q] \in 0..MaxUlid /\ gen[q] <= gen'[q]
  <2>1. p \in Procs /\ gen \in [Procs -> 0..MaxUlid]
    BY ProcAssumption DEF IInv, TypeOK
  <2>2. /\ gen'[p] = r
        /\ \A q \in Procs : q # p => gen'[q] = gen[q]
    BY <1>1, <2>1
  <2>3. \A q \in Procs : gen[q] \in Nat /\ gen[q] <= MaxUlid
    BY <2>1, MaxUlidAssumption
  <2>4. r \in 0..MaxUlid
    BY <1>4, MaxUlidAssumption DEF Revisions
  <2> QED
    BY <1>4, <2>1, <2>2, <2>3, <2>4, MaxUlidAssumption
<1>6. TypeOK'
  <2>1. gen' \in [Procs -> 0..MaxUlid]
    BY <1>1, <1>5 DEF IInv, TypeOK
  <2>2. tx' \in [Clients -> Seq(Revisions)]
    BY <1>1, <1>2, <1>3 DEF IInv, TypeOK
  <2>3. pc' \in [Clients -> Steps]
    BY <1>2 DEF IInv, TypeOK, Steps
  <2> QED
    BY <1>1, <2>1, <2>2, <2>3 DEF IInv, TypeOK, loopVars, bounds
<1>7. pc'[c] = IF n + 1 = call[c].n THEN "commit" ELSE "insert"
  BY <1>2, <1>3 DEF IInv, TypeOK
<1>8. LockInv'
  BY <1>1, <1>2, <1>7 DEF IInv, LockInv
<1>9. CallInv'
  BY <1>1, <1>2, <1>7 DEF IInv, CallInv
<1>10. RowsInv'
  <2>1. ASSUME NEW d \in Clients, d # c
        PROVE  \A i \in 1..Len(tx[d]) : tx[d][i] <= gen'[ProcOf[d]]
    <3>1. ProcOf[d] \in Procs
      BY RowsType
    <3>2. \A i \in 1..Len(tx[d]) : tx[d][i] \in Nat
      BY RowsType
    <3>3. \A i \in 1..Len(tx[d]) : tx[d][i] <= gen[ProcOf[d]]
      BY DEF IInv, RowsInv
    <3>4. /\ gen[ProcOf[d]] \in Nat /\ gen'[ProcOf[d]] \in Nat
          /\ gen[ProcOf[d]] <= gen'[ProcOf[d]]
      BY <1>5, <3>1, MaxUlidAssumption DEF IInv, TypeOK
    <3> QED
      BY <3>2, <3>3, <3>4
  <2>2. Increasing(tx'[c])
    <3>1. \A i, j \in 1..n : i < j => tx[c][i] < tx[c][j]
      BY DEF IInv, RowsInv, Increasing
    <3>2. ASSUME NEW i \in 1..(n + 1), NEW j \in 1..(n + 1), i < j
          PROVE  tx'[c][i] < tx'[c][j]
      <4>1. i \in 1..n
        BY <1>3, <3>2
      <4>2. CASE j = n + 1
        BY <1>3, <1>4, <4>1, <4>2
      <4>3. CASE j # n + 1
        BY <1>3, <3>1, <3>2, <4>1, <4>3
      <4> QED
        BY <4>2, <4>3
    <3> QED
      BY <1>3, <3>2 DEF Increasing
  <2>3. \A i \in 1..Len(tx'[c]) : tx'[c][i] <= gen'[ProcOf[c]]
    BY <1>3, <1>4, <1>5
  <2>4. /\ r > RevisionOf(db[Agg(c)])
        /\ call[c].expected \in {None, RevisionOf(db[Agg(c)])}
    BY <1>1, AcceptedRow
  <2>5. \A i \in 1..n : tx[c][i] > RevisionOf(db[Agg(c)])
    BY DEF IInv, RowsInv
  <2>6. \A i \in 1..Len(tx'[c]) : tx'[c][i] > RevisionOf(db[Agg(c)])
    BY <1>3, <2>4, <2>5
  <2>7. n < call[c].n /\ call[c].n \in Nat
    BY <1>1, CallFacts DEF IInv, RowsInv
  <2>8. /\ pc'[c] = "insert" => Len(tx'[c]) < call[c].n
        /\ pc'[c] = "commit" => Len(tx'[c]) = call[c].n
    BY <1>3, <1>7, <2>7
  <2>9. ASSUME NEW d \in Clients
        PROVE  /\ Increasing(tx'[d])
               /\ \A i \in 1..Len(tx'[d]) : tx'[d][i] <= gen'[ProcOf[d]]
               /\ tx'[d] # <<>> =>
                    /\ \A i \in 1..Len(tx'[d]) : tx'[d][i] > RevisionOf(db[Agg(d)])
                    /\ call[d].expected \in {None, RevisionOf(db[Agg(d)])}
               /\ pc'[d] = "insert" => Len(tx'[d]) < call[d].n
               /\ pc'[d] = "commit" => Len(tx'[d]) = call[d].n
    <3>1. CASE d = c
      BY <2>2, <2>3, <2>4, <2>6, <2>8, <3>1
    <3>2. CASE d # c
      BY <1>2, <2>1, <3>2 DEF IInv, RowsInv
    <3> QED
      BY <3>1, <3>2
  <2> QED
    BY <1>1, <2>9 DEF RowsInv, Agg
<1>11. StreamMonotonic' /\ ExpectedRevisionHonoured' /\ ConflictReportsCommitted'
  BY <1>1 DEF IInv, StreamMonotonic, ExpectedRevisionHonoured,
              ConflictReportsCommitted, Agg
<1> QED
  BY <1>6, <1>8, <1>9, <1>10, <1>11 DEF IInv

\* A refused row ends the attempt; what is reported is the committed revision.
LEMMA InsertConflictPreserves ==
  ASSUME IInv, NEW c \in Clients, NEW r \in Revisions, InsertConflict(c, r)
  PROVE  IInv'
<1> DEFINE actual == MaxRevision(VisibleRevisions(c))
<1>1. /\ pc[c] = "insert" /\ r \in Ulids(c) /\ ~Accepts(c, r)
      /\ gen' = [gen EXCEPT ![ProcOf[c]] = r]
      /\ Rollback(c)
      /\ UNCHANGED <<db, conn, call, bounds>>
  BY DEF InsertConflict
<1>2. actual = RevisionOf(db[Agg(c)])
  BY <1>1, RefusedRow
<1>3. actual \in {Zero} \cup Revisions
  BY <1>1, <1>2, CallFacts
<1>4. actual \in {Zero} \cup {db[Agg(c)][i].rev : i \in 1..Len(db[Agg(c)])}
  BY <1>1, <1>2, CallFacts, CurrentIsCommitted
<1>5. gen' \in [Procs -> 0..MaxUlid] /\ \A p \in Procs : gen[p] <= gen'[p]
  <2>1. r \in Nat /\ r > gen[ProcOf[c]] /\ r \in Revisions
    BY <1>1, UlidFacts
  <2>2. ProcOf[c] \in Procs
    BY ProcAssumption
  <2> QED
    BY <1>1, <2>1, <2>2, MaxUlidAssumption DEF IInv, TypeOK, Revisions
<1>6. calls' \in 0..MaxCalls /\ faults' \in 0..MaxFaults
  BY <1>1 DEF IInv, TypeOK, bounds
<1>7. ASSUME NEW kind \in {"conflict", "exhausted"},
             Finish(c, Answer(kind, actual, <<>>)), UNCHANGED loopVars
      PROVE  IInv'
  <2> DEFINE answer == Answer(kind, actual, <<>>)
  <2>1. <<>> \in Seq(Event)
    OBVIOUS
  <2>2. answer \in Outcome /\ answer.rev = actual
    <3> HIDE DEF actual
    <3> QED
      BY <1>3, <2>1, OutcomeType DEF Answer
  <2>3. /\ pc' = [pc EXCEPT ![c] = "return"]
        /\ reply' = [reply EXCEPT ![c] = answer]
    BY <1>7 DEF Finish
  <2> HIDE DEF answer
  <2>4. /\ reply' \in [Clients -> Outcome \cup {None}]
        /\ reply'[c] = answer
        /\ \A d \in Clients : d # c => reply'[d] = reply[d]
    BY <2>2, <2>3 DEF IInv, TypeOK
  <2>5. reply'[c].rev \in {Zero} \cup {db[Agg(c)][i].rev : i \in 1..Len(db[Agg(c)])}
    BY <1>4, <2>2, <2>4
  <2>6. /\ attempt' \in [Clients -> 0..(MaxAttempts - 1)]
        /\ busy' \in [Clients -> 0..MaxBusy]
    BY <1>7 DEF IInv, TypeOK, loopVars
  <2> QED
    BY <1>1, <1>5, <1>6, <2>3, <2>4, <2>5, <2>6, RollbackPreserves
<1>8. CASE /\ attempt[c] + 1 < MaxAttempts
           /\ attempt' = [attempt EXCEPT ![c] = @ + 1]
           /\ busy' = [busy EXCEPT ![c] = 0]
           /\ pc' = [pc EXCEPT ![c] = "begin"]
           /\ UNCHANGED reply
  <2>1. /\ attempt' \in [Clients -> 0..(MaxAttempts - 1)]
        /\ busy' \in [Clients -> 0..MaxBusy]
    BY <1>8, BoundAssumption DEF IInv, TypeOK
  <2>2. reply' \in [Clients -> Outcome \cup {None}] /\ reply'[c] = None
    BY <1>1, <1>8 DEF IInv, TypeOK, CallInv
  <2> QED
    BY <1>1, <1>5, <1>6, <1>8, <2>1, <2>2, RollbackPreserves
<1> QED
  BY <1>7, <1>8 DEF InsertConflict

----------------------------------------------------------------------------
(* The COMMIT, the end of a call, and a restart *)

\* The rows are appended, whether or not the publisher hears of it.
LEMMA AppendPreserves ==
  ASSUME IInv, NEW c \in Clients, NEW kind \in {"ok", "unknown"},
         pc[c] = "commit",
         db' = [db EXCEPT ![Agg(c)] = @ \o Batch(tx[c], call[c].expected)],
         Finish(c, Answer(kind, tx[c][Len(tx[c])], Batch(tx[c], call[c].expected))),
         Rollback(c), UNCHANGED <<conn, gen, call, loopVars>>,
         calls' \in 0..MaxCalls, faults' \in 0..MaxFaults
  PROVE  IInv'
<1> DEFINE a == Agg(c)
           rows == tx[c]
           expected == call[c].expected
           answer == Answer(kind, rows[Len(rows)], Batch(rows, expected))
<1>1. /\ a \in Aggregates /\ db[a] \in Seq(Event) /\ Sorted(db[a])
      /\ rows \in Seq(Revisions) /\ expected \in Expected
      /\ Honoured(db[a])
  BY CallFacts DEF IInv, TypeOK, ExpectedRevisionHonoured
<1>2. Len(rows) > 0 /\ rows # <<>>
  <2>1. Len(rows) = call[c].n /\ call[c].n > 0
    BY DEF IInv, RowsInv, CallInv
  <2> QED
    BY <2>1
<1>3. /\ Increasing(rows)
      /\ \A i \in 1..Len(rows) : rows[i] > RevisionOf(db[a])
      /\ expected \in {None, RevisionOf(db[a])}
  BY <1>2 DEF IInv, RowsInv
<1>4. /\ db[a] \o Batch(rows, expected) \in Seq(Event)
      /\ Sorted(db[a] \o Batch(rows, expected))
      /\ Honoured(db[a] \o Batch(rows, expected))
  BY <1>1, <1>3, AppendBatch, AppendSorted, AppendHonoured
<1>5. answer \in Outcome /\ answer.kind = kind
  <2>1. Batch(rows, expected) \in Seq(Event)
    BY <1>1, BatchType
  <2>2. rows[Len(rows)] \in Revisions
    BY <1>1, <1>2
  <2> QED
    BY <2>1, <2>2, OutcomeType
<1>6. /\ db'[a] = db[a] \o Batch(rows, expected)
      /\ \A b \in Aggregates : b # a => db'[b] = db[b]
      /\ db' \in [Aggregates -> Seq(Event)]
  BY <1>1, <1>4 DEF IInv, TypeOK
<1>7. /\ pc'[c] = "return" /\ reply'[c] = answer /\ tx'[c] = <<>>
      /\ \A d \in Clients : d # c =>
           pc'[d] = pc[d] /\ reply'[d] = reply[d] /\ tx'[d] = tx[d]
      /\ writeTx = c /\ writeTx' = None
  BY DEF Finish, Rollback, IInv, TypeOK, LockInv
<1>8. \A d \in Clients : tx'[d] = <<>>
  BY <1>7 DEF IInv, LockInv
<1>9. TypeOK'
  <2>1. /\ pc' \in [Clients -> Steps]
        /\ tx' \in [Clients -> Seq(Revisions)]
        /\ writeTx' \in Clients \cup {None}
    BY DEF Finish, Rollback, IInv, TypeOK, Steps
  <2>2. reply' \in [Clients -> Outcome \cup {None}]
    BY <1>5 DEF Finish, IInv, TypeOK
  <2> QED
    BY <1>6, <2>1, <2>2 DEF IInv, TypeOK, loopVars
<1>10. LockInv'
  BY <1>7, <1>8, NoneAssumption DEF IInv, LockInv
<1>11. CallInv'
  BY <1>7 DEF IInv, CallInv
<1>12. RowsInv'
  <2>1. \A d \in Clients : pc'[d] \notin {"insert", "commit"}
    BY <1>7 DEF IInv, LockInv
  <2> QED
    BY <1>8, <2>1 DEF RowsInv, Increasing
<1>13. StreamMonotonic' /\ ExpectedRevisionHonoured'
  BY <1>4, <1>6 DEF IInv, StreamMonotonic, ExpectedRevisionHonoured
<1>14. ConflictReportsCommitted'
  <2> SUFFICES ASSUME NEW d \in Clients,
                      reply'[d] # None, reply'[d].kind \in {"conflict", "exhausted"}
               PROVE  reply'[d].rev \in
                        {Zero} \cup {db'[Agg(d)'][i].rev : i \in 1..Len(db'[Agg(d)'])}
    BY DEF ConflictReportsCommitted
  <2>1. d # c /\ reply'[d] = reply[d] /\ Agg(d)' = Agg(d)
    BY <1>5, <1>7 DEF Agg
  <2>2. reply[d].rev \in {Zero} \cup {db[Agg(d)][i].rev : i \in 1..Len(db[Agg(d)])}
    BY <2>1 DEF IInv, ConflictReportsCommitted
  <2>3. Agg(d) \in Aggregates
    BY <2>1, CallFacts DEF IInv, CallInv
  <2>4. CASE Agg(d) = a
    <3>1. {db[a][i].rev : i \in 1..Len(db[a])} \subseteq
            {db'[a][i].rev : i \in 1..Len(db'[a])}
      BY <1>1, <1>6, AppendKeeps
    <3> QED
      BY <2>1, <2>2, <2>4, <3>1
  <2>5. CASE Agg(d) # a
    BY <1>6, <2>1, <2>2, <2>3, <2>5
  <2> QED
    BY <2>4, <2>5
<1> QED
  BY <1>9, <1>10, <1>11, <1>12, <1>13, <1>14 DEF IInv

LEMMA CommitPreserves ==
  ASSUME IInv, NEW c \in Clients, Commit(c)
  PROVE  IInv'
<1>1. calls' \in 0..MaxCalls /\ faults' \in 0..MaxFaults
  BY DEF Commit, bounds, IInv, TypeOK
<1> QED
  BY <1>1, AppendPreserves DEF Commit

LEMMA CommitAnswerLostPreserves ==
  ASSUME IInv, NEW c \in Clients, CommitAnswerLost(c)
  PROVE  IInv'
<1>1. calls' \in 0..MaxCalls /\ faults' \in 0..MaxFaults
  BY FaultType DEF CommitAnswerLost, IInv, TypeOK
<1> QED
  BY <1>1, AppendPreserves DEF CommitAnswerLost

\* A call that ends gives back what it held and nothing else.
LEMMA EndPreserves ==
  ASSUME IInv, NEW c \in Clients, End(c), faults' \in 0..MaxFaults
  PROVE  IInv'
<1>1. /\ pc'[c] = "idle" /\ call'[c] = None /\ reply'[c] = None /\ tx'[c] = <<>>
      /\ \A d \in Clients : d # c => /\ pc'[d] = pc[d] /\ call'[d] = call[d]
                                     /\ reply'[d] = reply[d] /\ tx'[d] = tx[d]
      /\ writeTx' = IF writeTx = c THEN None ELSE writeTx
      /\ UNCHANGED <<db, gen, calls>>
  BY DEF End, Rollback, IInv, TypeOK
<1>2. TypeOK'
  <2>1. /\ pc' \in [Clients -> Steps]
        /\ call' \in [Clients -> Request \cup {None}]
        /\ reply' \in [Clients -> Outcome \cup {None}]
        /\ tx' \in [Clients -> Seq(Revisions)]
        /\ writeTx' \in Clients \cup {None}
    BY DEF End, Rollback, IInv, TypeOK, Steps
  <2>2. /\ attempt' \in [Clients -> 0..(MaxAttempts - 1)]
        /\ busy' \in [Clients -> 0..MaxBusy]
    BY BoundAssumption DEF End, IInv, TypeOK
  <2>3. conn' \in [Procs -> Clients \cup {None}]
    BY DEF End, IInv, TypeOK
  <2> QED
    BY <1>1, <2>1, <2>2, <2>3 DEF IInv, TypeOK
<1>3. LockInv'
  <2>1. writeTx' # c /\ \A d \in Clients : d # c => (writeTx' = d <=> writeTx = d)
    BY <1>1, NoneAssumption
  <2>2. \A d \in Clients : d # c /\ pc[d] \notin {"idle", "connect"}
          => conn'[ProcOf[d]] = d
    <3> SUFFICES ASSUME NEW d \in Clients, d # c, pc[d] \notin {"idle", "connect"}
                 PROVE  conn'[ProcOf[d]] = d
      OBVIOUS
    <3>1. conn[ProcOf[d]] = d /\ ProcOf[d] \in Procs
      BY ProcAssumption DEF IInv, LockInv
    <3>2. conn' = [conn EXCEPT ![ProcOf[c]] = IF @ = c THEN None ELSE @]
      BY DEF End
    <3> QED
      BY <3>1, <3>2 DEF IInv, TypeOK
  <2> QED
    BY <1>1, <2>1, <2>2 DEF IInv, LockInv
<1>4. CallInv'
  BY <1>1 DEF IInv, CallInv
<1>5. RowsInv'
  BY <1>1 DEF IInv, RowsInv, Agg, Increasing
<1>6. StreamMonotonic' /\ ExpectedRevisionHonoured'
  BY <1>1 DEF IInv, StreamMonotonic, ExpectedRevisionHonoured
<1>7. ConflictReportsCommitted'
  <2> SUFFICES ASSUME NEW d \in Clients,
                      reply'[d] # None, reply'[d].kind \in {"conflict", "exhausted"}
               PROVE  reply'[d].rev \in
                        {Zero} \cup {db'[Agg(d)'][i].rev : i \in 1..Len(db'[Agg(d)'])}
    BY DEF ConflictReportsCommitted
  <2>1. d # c /\ reply'[d] = reply[d] /\ Agg(d)' = Agg(d) /\ db' = db
    BY <1>1 DEF Agg
  <2>2. reply[d].rev \in {Zero} \cup {db[Agg(d)][i].rev : i \in 1..Len(db[Agg(d)])}
    BY <2>1 DEF IInv, ConflictReportsCommitted
  <2> QED
    BY <2>1, <2>2
<1> QED
  BY <1>2, <1>3, <1>4, <1>5, <1>6, <1>7 DEF IInv

LEMMA ReturnPreserves ==
  ASSUME IInv, NEW c \in Clients, Return(c)
  PROVE  IInv'
<1>1. faults' \in 0..MaxFaults
  BY DEF Return, IInv, TypeOK
<1> QED
  BY <1>1, EndPreserves DEF Return

LEMMA DroppedPreserves ==
  ASSUME IInv, NEW c \in Clients, Dropped(c)
  PROVE  IInv'
  BY FaultType, EndPreserves DEF Dropped

\* A process restarts its generator only when none of its transactions is open.
LEMMA RestartPreserves ==
  ASSUME IInv, NEW p \in Procs, Restart(p)
  PROVE  IInv'
<1>1. /\ \A c \in Clients : ProcOf[c] = p => pc[c] = "idle"
      /\ gen' = [gen EXCEPT ![p] = 0]
      /\ UNCHANGED <<db, writeTx, tx, conn, pc, call, loopVars, reply, calls>>
  BY DEF Restart
<1>2. TypeOK'
  BY <1>1, FaultType, MaxUlidAssumption DEF Restart, IInv, TypeOK, loopVars
<1>3. LockInv' /\ CallInv'
  BY <1>1 DEF IInv, LockInv, CallInv
<1>4. RowsInv'
  <2>1. \A c \in Clients : ProcOf[c] = p => tx[c] = <<>>
    BY <1>1 DEF IInv, LockInv
  <2>2. \A c \in Clients : ProcOf[c] \in Procs
    BY ProcAssumption
  <2>3. \A c \in Clients : tx[c] # <<>> => gen'[ProcOf[c]] = gen[ProcOf[c]]
    BY <1>1, <2>1, <2>2 DEF IInv, TypeOK
  <2>4. \A c \in Clients : \A i \in 1..Len(tx[c]) : tx[c][i] <= gen'[ProcOf[c]]
    BY <2>3 DEF IInv, RowsInv
  <2> QED
    BY <1>1, <2>4 DEF IInv, RowsInv, Agg
<1>5. StreamMonotonic' /\ ExpectedRevisionHonoured' /\ ConflictReportsCommitted'
  BY <1>1 DEF IInv, StreamMonotonic, ExpectedRevisionHonoured,
              ConflictReportsCommitted, Agg
<1> QED
  BY <1>2, <1>3, <1>4, <1>5 DEF IInv

----------------------------------------------------------------------------

LEMMA ProceedPreserves ==
  ASSUME IInv, NEW c \in Clients, Proceed(c)
  PROVE  IInv'
<1>1. CASE LockConnection(c) \/ Query(c)
  BY <1>1, LockConnectionPreserves, QueryPreserves
<1>2. CASE BeginTransaction(c) \/ DatabaseBusy(c)
  BY <1>2, BeginTransactionPreserves, DatabaseBusyPreserves
<1>3. CASE \E r \in Revisions : Insert(c, r)
  BY <1>3, InsertPreserves
<1>4. CASE \E r \in Revisions : InsertConflict(c, r)
  BY <1>4, InsertConflictPreserves
<1>5. CASE GeneratorOverflow(c) \/ Commit(c) \/ Return(c)
  BY <1>5, GeneratorOverflowPreserves, CommitPreserves, ReturnPreserves
<1> QED
  BY <1>1, <1>2, <1>3, <1>4, <1>5 DEF Proceed

LEMMA NextIInv == IInv /\ [Next]_vars => IInv'
<1> SUFFICES ASSUME IInv, [Next]_vars PROVE IInv'
  OBVIOUS
<1>1. ASSUME NEW c \in Clients, NEW a \in Aggregates,
             NEW e \in KnownRevisions \cup {None}, NEW n \in 0..MaxBatch,
             Publish(c, a, e, n)
      PROVE  IInv'
  BY <1>1, PublishPreserves
<1>2. ASSUME NEW c \in Clients, NEW a \in Aggregates, Load(c, a) PROVE IInv'
  BY <1>2, LoadPreserves
<1>3. ASSUME NEW c \in Clients, Proceed(c) PROVE IInv'
  BY <1>3, ProceedPreserves
<1>4. ASSUME NEW c \in Clients, StoreError(c) \/ CommitAnswerLost(c) PROVE IInv'
  BY <1>4, StoreErrorPreserves, CommitAnswerLostPreserves
<1>5. ASSUME NEW c \in Clients, BusyInTransaction(c) \/ Dropped(c) PROVE IInv'
  BY <1>5, BusyInTransactionPreserves, DroppedPreserves
<1>6. ASSUME NEW p \in Procs, Restart(p) PROVE IInv'
  BY <1>6, RestartPreserves
<1>7. CASE UNCHANGED vars
  <2>1. TypeOK'
    BY <1>7 DEF IInv, TypeOK, vars, loopVars, bounds
  <2>2. LockInv' /\ CallInv' /\ RowsInv'
    BY <1>7 DEF IInv, LockInv, CallInv, RowsInv, Agg, vars, loopVars, bounds
  <2>3. StreamMonotonic' /\ ExpectedRevisionHonoured' /\ ConflictReportsCommitted'
    BY <1>7 DEF IInv, StreamMonotonic, ExpectedRevisionHonoured,
                ConflictReportsCommitted, Agg, vars, loopVars, bounds
  <2> QED
    BY <2>1, <2>2, <2>3 DEF IInv
<1> QED
  BY <1>1, <1>2, <1>3, <1>4, <1>5, <1>6, <1>7 DEF Next

\* Every reachable state meets the inductive invariant.
THEOREM Invariance == Spec => []IInv
  BY InitIInv, NextIInv, PTL DEF Spec

\* Type correctness of every variable of the SQLite store.
THEOREM TypeCorrect == Spec => []TypeOK
<1>1. IInv => TypeOK
  BY DEF IInv
<1> QED
  BY <1>1, Invariance, PTL

\* Rows are inserted in the order of their revisions, however far the clocks of
\* the processes are apart and whatever fails or restarts: the comparison with
\* MAX(revision) under the write lock is enough.
THEOREM Monotonicity == Spec => []StreamMonotonic
<1>1. IInv => StreamMonotonic
  BY DEF IInv
<1> QED
  BY <1>1, Invariance, PTL

\* Every accepted batch directly follows the revision it was published under.
THEOREM OptimisticConcurrency == Spec => []ExpectedRevisionHonoured
<1>1. IInv => ExpectedRevisionHonoured
  BY DEF IInv
<1> QED
  BY <1>1, Invariance, PTL

\* The revision a conflict reports is one a reload finds: a refused INSERT
\* never reports a row of the transaction it rolls back.
THEOREM ConflictsAreCommitted == Spec => []ConflictReportsCommitted
<1>1. IInv => ConflictReportsCommitted
  BY DEF IInv
<1> QED
  BY <1>1, Invariance, PTL

\* No error, back-off, dropped task or restart leaves the write lock behind.
THEOREM WriteLockReleased == Spec => []WriteLockHeldInAttempt
<1>1. IInv => WriteLockHeldInAttempt
  <2> SUFFICES ASSUME IInv, writeTx # None
               PROVE  pc[writeTx] \in {"insert", "commit"} /\ conn[ProcOf[writeTx]] = writeTx
    BY DEF WriteLockHeldInAttempt
  <2>1. writeTx \in Clients
    BY DEF IInv, TypeOK
  <2> QED
    BY <2>1 DEF IInv, LockInv
<1> QED
  BY <1>1, Invariance, PTL

----------------------------------------------------------------------------
(* Refinement: the operators of the instance are those of EventModel. *)

LEMMA SameOperators ==
  /\ ES!Request = Request
  /\ ES!Revisions = Revisions
  /\ ES!Zero = Zero
  /\ \A s : ES!RevisionOf(s) = RevisionOf(s)
  /\ \A revs, e : ES!Batch(revs, e) = Batch(revs, e)
  /\ \A revs : ES!Increasing(revs) <=> Increasing(revs)
  /\ \A kind, rev, events : ES!Answer(kind, rev, events) = Answer(kind, rev, events)
<1>1. ES!Zero = Zero /\ ES!Revisions = Revisions
  BY DEF ES!Zero, Zero, ES!Revisions, Revisions
<1>2. ES!Expected = Expected
  BY <1>1 DEF ES!Expected, Expected
<1>3. ES!Request = Request
  BY <1>2 DEF ES!Request, Request, ES!PublishRequest, PublishRequest, ES!LoadRequest,
              LoadRequest
<1>4. \A s : ES!RevisionOf(s) = RevisionOf(s)
  BY <1>1 DEF ES!RevisionOf, RevisionOf
<1>5. \A revs, e : ES!Batch(revs, e) = Batch(revs, e)
  BY DEF ES!Batch, Batch
<1>6. \A revs : ES!Increasing(revs) <=> Increasing(revs)
  BY DEF ES!Increasing, Increasing
<1>7. \A kind, rev, events : ES!Answer(kind, rev, events) = Answer(kind, rev, events)
  BY DEF ES!Answer, Answer
<1> QED
  BY <1>1, <1>3, <1>4, <1>5, <1>6, <1>7

\* What the callers of an EventStore are told.
Promised == [c \in Clients |-> PromisedReply(c)]

LEMMA RefinesInit == Init => ES!Init
  BY DEF Init, ES!Init, PromisedReply

\* A call that is new or goes on is told nothing yet.
LEMMA PromisedStays ==
  ASSUME IInv, UNCHANGED reply,
         \A d \in Clients : reply[d] # None => call'[d] = call[d]
  PROVE  Promised' = Promised
<1>1. \A d \in Clients : PromisedReply(d)' = PromisedReply(d)
  BY DEF PromisedReply
<1> QED
  BY <1>1 DEF Promised

\* An answer is promised to the client it is for.
LEMMA PromisedAnswer ==
  ASSUME IInv, NEW c \in Clients, NEW answer, answer # None,
         reply' = [reply EXCEPT ![c] = answer], UNCHANGED call
  PROVE  /\ answer.kind = "unknown" =>
              Promised' = [Promised EXCEPT ![c] = Answer("ok", answer.rev, answer.events)]
         /\ answer.kind = "exhausted" =>
              Promised' = [Promised EXCEPT ![c] = Answer("failed", Zero, <<>>)]
         /\ answer.kind = "conflict" /\ answer.rev = call[c].expected =>
              Promised' = [Promised EXCEPT ![c] = Answer("failed", Zero, <<>>)]
         /\ answer.kind = "conflict" /\ answer.rev # call[c].expected =>
              Promised' = [Promised EXCEPT ![c] = answer]
         /\ answer.kind \in {"ok", "loaded", "failed"} =>
              Promised' = [Promised EXCEPT ![c] = answer]
<1>1. /\ reply'[c] = answer
      /\ \A d \in Clients : d # c => reply'[d] = reply[d]
  BY DEF IInv, TypeOK
<1>2. \A d \in Clients : d # c => PromisedReply(d)' = PromisedReply(d)
  BY <1>1 DEF PromisedReply
<1>3. Promised' = [Promised EXCEPT ![c] = PromisedReply(c)']
  BY <1>2 DEF Promised
<1>4. /\ answer.kind = "unknown" =>
           PromisedReply(c)' = Answer("ok", answer.rev, answer.events)
      /\ answer.kind = "exhausted" => PromisedReply(c)' = Answer("failed", Zero, <<>>)
      /\ answer.kind = "conflict" /\ answer.rev = call[c].expected =>
           PromisedReply(c)' = Answer("failed", Zero, <<>>)
      /\ answer.kind = "conflict" /\ answer.rev # call[c].expected =>
           PromisedReply(c)' = answer
      /\ answer.kind \in {"ok", "loaded", "failed"} => PromisedReply(c)' = answer
  BY <1>1 DEF PromisedReply
<1> QED
  BY <1>3, <1>4

\* A client inside a call has not been answered.
LEMMA PendingCall ==
  ASSUME IInv, NEW c \in Clients, pc[c] \notin {"idle", "return"}
  PROVE  /\ call[c] # None
         /\ ES!Pending(c, call[c].op)
         /\ call[c].op \in {"publish", "load"}
         /\ call[c].n > 0 => call[c].op = "publish"
<1>1. reply[c] = None
  BY DEF IInv, CallInv
<1>2. call[c] # None /\ call[c] \in Request
  BY CallFacts
<1>3. PromisedReply(c) = None
  BY <1>1 DEF PromisedReply
<1>4. /\ call[c].op \in {"publish", "load"}
      /\ call[c].op = "load" => call[c].n = 0
  BY <1>2 DEF Request, PublishRequest, LoadRequest
<1> QED
  BY <1>2, <1>3, <1>4 DEF ES!Pending

\* A step that tells nobody anything and commits nothing is a stutter.
LEMMA Stutters ==
  ASSUME IInv, UNCHANGED <<db, call, reply>>
  PROVE  UNCHANGED ES!vars
<1>1. Promised' = Promised
  BY PromisedStays
<1> QED
  BY <1>1 DEF ES!vars, Promised

\* A new call is an invocation.
LEMMA InvokeRefines ==
  ASSUME IInv, NEW c \in Clients, NEW request \in Request, Invoke(c, request)
  PROVE  ES!Next
<1>1. /\ pc[c] = "idle"
      /\ call' = [call EXCEPT ![c] = request]
      /\ UNCHANGED <<db, reply>>
  BY DEF Invoke
<1>2. call[c] = None /\ reply[c] = None
  BY <1>1 DEF IInv, CallInv
<1>3. \A d \in Clients : reply[d] # None => call'[d] = call[d]
  BY <1>1, <1>2 DEF IInv, TypeOK
<1>4. Promised' = Promised
  BY <1>1, <1>3, PromisedStays
<1>5. ES!Invoke(c, request)
  BY <1>1, <1>2, <1>4 DEF ES!Invoke, Promised
<1> QED
  BY <1>5, SameOperators DEF ES!Next

\* An error leaves the stream alone.
LEMMA FailRefines ==
  ASSUME IInv, NEW c \in Clients, pc[c] \notin {"idle", "return"},
         UNCHANGED <<db, call>>, Promised' = [Promised EXCEPT ![c] = Answer("failed", Zero, <<>>)]
  PROVE  ES!Next
<1>1. ES!Pending(c, "publish") \/ ES!Pending(c, "load")
  BY PendingCall
<1>2. ES!Fail(c)
  BY <1>1, SameOperators DEF ES!Fail, Promised
<1> QED
  BY <1>2 DEF ES!Next

\* So does an error a step reports by that name.
LEMMA ErrorRefines ==
  ASSUME IInv, NEW c \in Clients, pc[c] \notin {"idle", "return"},
         UNCHANGED <<db, call>>, Finish(c, Answer("failed", Zero, <<>>))
  PROVE  ES!Next
<1> DEFINE answer == Answer("failed", Zero, <<>>)
<1>1. answer # None /\ answer.kind = "failed"
  BY FailedAnswer, OutcomeAssumption
<1>2. reply' = [reply EXCEPT ![c] = answer]
  BY DEF Finish
<1> HIDE DEF answer
<1>3. Promised' = [Promised EXCEPT ![c] = answer]
  BY <1>1, <1>2, PromisedAnswer
<1> QED
  BY <1>3, FailRefines DEF answer

\* A read takes effect where it sees the committed rows.
LEMMA QueryRefines ==
  ASSUME IInv, NEW c \in Clients, Query(c)
  PROVE  ES!Next
<1> DEFINE s == db[Agg(c)]
           loaded == Answer("loaded", RevisionOf(s), s)
           current == Answer("ok", RevisionOf(s), <<>>)
<1>1. /\ pc[c] = "query"
      /\ OrderByRevision(s) = s
      /\ UNCHANGED <<db, call>>
  BY CallFacts, OrderByRevisionIs DEF Query
<1>2. /\ ES!Pending(c, call[c].op)
      /\ call[c].op \in {"publish", "load"}
      /\ call[c].n = 0
  BY <1>1, PendingCall DEF IInv, CallInv
<1>3. /\ loaded # None /\ loaded.kind = "loaded"
      /\ current # None /\ current.kind = "ok"
  <2>2. s \in Seq(Event) /\ RevisionOf(s) \in {Zero} \cup Revisions
    BY <1>1, CallFacts
  <2> HIDE DEF s
  <2>3. loaded # None /\ loaded.kind = "loaded"
    BY <2>2, OutcomeType
  <2>4. current # None /\ current.kind = "ok"
    BY <2>2, EmptyAnswer
  <2> QED
    BY <2>3, <2>4
<1>4. CASE call[c].op = "load"
  <2>1. reply' = [reply EXCEPT ![c] = loaded]
    BY <1>1, <1>4 DEF Query, Finish
  <2>2. Promised' = [Promised EXCEPT ![c] = loaded]
    <3> HIDE DEF loaded
    <3> QED
      BY <1>1, <1>3, <2>1, PromisedAnswer
  <2>3. ES!Load(c)
    BY <1>1, <1>2, <1>4, <2>2, SameOperators DEF ES!Load, Promised, Agg
  <2> QED
    BY <2>3 DEF ES!Next
<1>5. CASE call[c].op = "publish"
  <2>1. reply' = [reply EXCEPT ![c] = current]
    BY <1>1, <1>5 DEF Query, Finish
  <2>2. Promised' = [Promised EXCEPT ![c] = current]
    <3> HIDE DEF current
    <3> QED
      BY <1>1, <1>3, <2>1, PromisedAnswer
  <2>3. ES!PublishNothing(c)
    BY <1>1, <1>2, <1>5, <2>2, SameOperators DEF ES!PublishNothing, Promised, Agg
  <2> QED
    BY <2>3 DEF ES!Next
<1> QED
  BY <1>2, <1>4, <1>5

\* A refused INSERT is a conflict if the stream has moved, and an error if
\* only the clocks are at odds or the attempts have run out.
LEMMA InsertConflictRefines ==
  ASSUME IInv, NEW c \in Clients, NEW r \in Revisions, InsertConflict(c, r)
  PROVE  [ES!Next]_(ES!vars)
<1> DEFINE actual == RevisionOf(db[Agg(c)])
           conflict == Answer("conflict", actual, <<>>)
           exhausted == Answer("exhausted", actual, <<>>)
<1>1. /\ pc[c] = "insert" /\ r \in Ulids(c) /\ ~Accepts(c, r)
      /\ UNCHANGED <<db, call>>
  BY DEF InsertConflict
<1>2. MaxRevision(VisibleRevisions(c)) = actual
  BY <1>1, RefusedRow
<1>3. /\ conflict # None /\ conflict.kind = "conflict" /\ conflict.rev = actual
      /\ exhausted # None /\ exhausted.kind = "exhausted"
  <2>2. actual \in {Zero} \cup Revisions
    BY <1>1, CallFacts
  <2> HIDE DEF actual
  <2>3. conflict # None /\ conflict.kind = "conflict" /\ conflict.rev = actual
    BY <2>2, EmptyAnswer
  <2>4. exhausted # None /\ exhausted.kind = "exhausted"
    BY <2>2, EmptyAnswer
  <2> QED
    BY <2>3, <2>4
<1>4. CASE call[c].expected # None /\ reply' = [reply EXCEPT ![c] = conflict]
  <2>1. CASE call[c].expected = actual
    <3>1. Promised' = [Promised EXCEPT ![c] = Answer("failed", Zero, <<>>)]
      <4> HIDE DEF conflict
      <4> QED
        BY <1>1, <1>3, <1>4, <2>1, PromisedAnswer
    <3> QED
      BY <1>1, <3>1, FailRefines
  <2>2. CASE call[c].expected # actual
    <3>1. Promised' = [Promised EXCEPT ![c] = conflict]
      <4> HIDE DEF conflict
      <4> QED
        BY <1>1, <1>3, <1>4, <2>2, PromisedAnswer
    <3>2. ES!Pending(c, "publish") /\ call[c].n > 0
      BY <1>1, PendingCall DEF IInv, CallInv
    <3>3. ES!Conflict(c)
      BY <1>1, <1>4, <2>2, <3>1, <3>2, SameOperators DEF ES!Conflict, Promised, Agg
    <3> QED
      BY <3>3 DEF ES!Next
  <2> QED
    BY <2>1, <2>2
<1>5. CASE UNCHANGED reply
  BY <1>1, <1>5, Stutters
<1>6. CASE reply' = [reply EXCEPT ![c] = exhausted]
  <2>1. Promised' = [Promised EXCEPT ![c] = Answer("failed", Zero, <<>>)]
    <3> HIDE DEF exhausted
    <3> QED
      BY <1>1, <1>3, <1>6, PromisedAnswer
  <2> QED
    BY <1>1, <2>1, FailRefines
<1> QED
  BY <1>2, <1>4, <1>5, <1>6 DEF InsertConflict, Finish

\* The commit is where an accepted publish takes effect, whether or not the
\* publisher hears of it.
LEMMA AppendRefines ==
  ASSUME IInv, NEW c \in Clients, NEW kind \in {"ok", "unknown"},
         pc[c] = "commit",
         db' = [db EXCEPT ![Agg(c)] = @ \o Batch(tx[c], call[c].expected)],
         Finish(c, Answer(kind, tx[c][Len(tx[c])], Batch(tx[c], call[c].expected))),
         UNCHANGED call
  PROVE  ES!Next
<1> DEFINE a == Agg(c)
           revs == tx[c]
           batch == Batch(revs, call[c].expected)
           answer == Answer(kind, revs[Len(revs)], batch)
<1>1. /\ ES!Pending(c, "publish") /\ call[c].n > 0 /\ call[c].n \in 0..MaxBatch
      /\ call[c].expected \in Expected
  BY PendingCall, CallFacts DEF IInv, CallInv
<1>2. revs \in Seq(Revisions) /\ Len(revs) = call[c].n
  BY DEF IInv, TypeOK, RowsInv
<1>3. revs # <<>> /\ Len(revs) \in 1..MaxBatch
  BY <1>1, <1>2, MaxBatchAssumption
<1>4. /\ Increasing(revs)
      /\ \A i \in 1..Len(revs) : revs[i] > RevisionOf(db[a])
      /\ call[c].expected \in {None, RevisionOf(db[a])}
  BY <1>3 DEF IInv, RowsInv
<1>5. /\ answer # None /\ answer.kind = kind
      /\ answer.rev = revs[Len(revs)] /\ answer.events = batch
  <2>1. batch \in Seq(Event)
    BY <1>1, <1>2, BatchType
  <2>2. revs[Len(revs)] \in Revisions
    BY <1>2, <1>3
  <2> HIDE DEF batch, revs
  <2> QED
    BY <2>1, <2>2, OutcomeType DEF Answer
<1>6. reply' = [reply EXCEPT ![c] = answer]
  BY DEF Finish
<1>7. Promised' = [Promised EXCEPT ![c] = Answer("ok", revs[Len(revs)], batch)]
  <2>1. CASE kind = "ok"
    <3>1. Promised' = [Promised EXCEPT ![c] = answer]
      <4> HIDE DEF answer
      <4> QED
        BY <1>5, <1>6, <2>1, PromisedAnswer
    <3> QED
      BY <2>1, <3>1
  <2>2. CASE kind = "unknown"
    <3> HIDE DEF answer
    <3> QED
      BY <1>5, <1>6, <2>2, PromisedAnswer
  <2> QED
    BY <2>1, <2>2
<1>8. ES!Commit(c, revs)
  BY <1>1, <1>2, <1>4, <1>7, SameOperators DEF ES!Commit, Promised, Agg
<1>9. revs \in [1..Len(revs) -> Revisions]
  BY <1>2
<1> QED
  BY <1>3, <1>8, <1>9, SameOperators DEF ES!Next

\* The end of a call is its return, or its caller going away.
LEMMA EndRefines ==
  ASSUME IInv, NEW c \in Clients, pc[c] # "idle", End(c)
  PROVE  ES!Next
<1>1. call[c] # None
  BY CallFacts
<1>2. /\ call' = [call EXCEPT ![c] = None]
      /\ reply' = [reply EXCEPT ![c] = None]
      /\ UNCHANGED db
  BY DEF End
<1>3. /\ PromisedReply(c)' = None
      /\ \A d \in Clients : d # c => PromisedReply(d)' = PromisedReply(d)
  BY <1>2 DEF PromisedReply, IInv, TypeOK
<1>4. Promised' = [Promised EXCEPT ![c] = None]
  BY <1>3 DEF Promised
<1>5. ES!Return(c)
  BY <1>1, <1>2, <1>4 DEF ES!Return, Promised
<1> QED
  BY <1>5 DEF ES!Next

\* A busy database is waited for, or reported as an error.
LEMMA RetryBusyRefines ==
  ASSUME IInv, NEW c \in Clients, pc[c] \in {"begin", "insert", "commit"}, RetryBusy(c)
  PROVE  [ES!Next]_(ES!vars)
<1>1. UNCHANGED <<db, call>>
  BY DEF RetryBusy
<1>2. CASE UNCHANGED reply
  BY <1>1, <1>2, Stutters
<1>3. CASE Finish(c, Answer("failed", Zero, <<>>))
  BY <1>1, <1>3, ErrorRefines
<1> QED
  BY <1>2, <1>3 DEF RetryBusy

LEMMA ProceedRefines ==
  ASSUME IInv, NEW c \in Clients, Proceed(c)
  PROVE  [ES!Next]_(ES!vars)
<1>1. CASE \/ LockConnection(c) \/ BeginTransaction(c)
           \/ \E r \in Revisions : Insert(c, r)
  BY <1>1, Stutters DEF LockConnection, BeginTransaction, Insert
<1>2. CASE Query(c)
  BY <1>2, QueryRefines
<1>3. CASE DatabaseBusy(c)
  BY <1>3, RetryBusyRefines DEF DatabaseBusy
<1>4. CASE \E r \in Revisions : InsertConflict(c, r)
  BY <1>4, InsertConflictRefines
<1>5. CASE GeneratorOverflow(c)
  BY <1>5, ErrorRefines DEF GeneratorOverflow
<1>6. CASE Commit(c)
  BY <1>6, AppendRefines DEF Commit
<1>7. CASE Return(c)
  BY <1>7, EndRefines DEF Return
<1> QED
  BY <1>1, <1>2, <1>3, <1>4, <1>5, <1>6, <1>7 DEF Proceed

LEMMA PublishRefines ==
  ASSUME IInv, NEW c \in Clients, NEW a \in Aggregates,
         NEW e \in KnownRevisions \cup {None}, NEW n \in 0..MaxBatch,
         Publish(c, a, e, n)
  PROVE  ES!Next
<1> DEFINE request == [op |-> "publish", agg |-> a, expected |-> e, n |-> n]
<1>1. request \in Request
  BY KnownRevisionType DEF Request, PublishRequest
<1>2. Invoke(c, request)
  BY DEF Publish
<1> HIDE DEF request
<1> QED
  BY <1>1, <1>2, InvokeRefines

LEMMA LoadRefines ==
  ASSUME IInv, NEW c \in Clients, NEW a \in Aggregates, Load(c, a)
  PROVE  ES!Next
<1> DEFINE request == [op |-> "load", agg |-> a, expected |-> None, n |-> 0]
<1>1. request \in Request
  BY DEF Request, LoadRequest
<1>2. Invoke(c, request)
  BY DEF Load
<1> HIDE DEF request
<1> QED
  BY <1>1, <1>2, InvokeRefines

LEMMA RefinesNext == IInv /\ [Next]_vars => [ES!Next]_(ES!vars)
<1> SUFFICES ASSUME IInv, [Next]_vars PROVE [ES!Next]_(ES!vars)
  OBVIOUS
<1>1. ASSUME NEW c \in Clients, NEW a \in Aggregates,
             NEW e \in KnownRevisions \cup {None}, NEW n \in 0..MaxBatch,
             Publish(c, a, e, n)
      PROVE  ES!Next
  BY <1>1, PublishRefines
<1>2. ASSUME NEW c \in Clients, NEW a \in Aggregates, Load(c, a) PROVE ES!Next
  BY <1>2, LoadRefines
<1>3. ASSUME NEW c \in Clients, Proceed(c) PROVE [ES!Next]_(ES!vars)
  BY <1>3, ProceedRefines
<1>4. ASSUME NEW c \in Clients, StoreError(c) PROVE ES!Next
  BY <1>4, ErrorRefines DEF StoreError
<1>5. ASSUME NEW c \in Clients, CommitAnswerLost(c) PROVE ES!Next
  BY <1>5, AppendRefines DEF CommitAnswerLost
<1>6. ASSUME NEW c \in Clients, BusyInTransaction(c) PROVE [ES!Next]_(ES!vars)
  BY <1>6, RetryBusyRefines DEF BusyInTransaction
<1>7. ASSUME NEW c \in Clients, Dropped(c) PROVE ES!Next
  BY <1>7, EndRefines DEF Dropped
<1>8. ASSUME NEW p \in Procs, Restart(p) PROVE UNCHANGED ES!vars
  BY <1>8, Stutters DEF Restart
<1>9. CASE UNCHANGED vars
  BY <1>9, Stutters DEF vars
<1> QED
  BY <1>1, <1>2, <1>3, <1>4, <1>5, <1>6, <1>7, <1>8, <1>9 DEF Next

\* The SQLite store implements the EventStore promise: each load, publish and
\* conflict takes effect at one instant, in full or not at all, whatever is
\* retried, refused, dropped or restarted.
THEOREM Refinement == Spec => Linearizable
  BY RefinesInit, RefinesNext, Invariance, PTL DEF Spec, Linearizable, ES!Spec

=============================================================================
