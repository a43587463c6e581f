------------------------- MODULE MemoryStore_proofs -------------------------
(***************************************************************************)
(* MemoryStore for any threads, aggregates, batch size and ULID range: the *)
(* inductive invariant IInv, the safety properties it implies, and the     *)
(* implementation of EventStream.                                          *)
(***************************************************************************)
EXTENDS MemoryStore, EventModel_proofs

LEMMA InitIInv == Init => IInv
<1> SUFFICES ASSUME Init PROVE IInv
  OBVIOUS
<1>1. TypeOK
  BY MaxUlidAssumption, MaxCallsAssumption DEF Init, TypeOK, Steps
<1>2. CallInv /\ GuardInv /\ CheckedInv /\ MintedInv /\ FreshInv
  BY NoneAssumption
  DEF Init, CallInv, GuardInv, CheckedInv, MintedInv, FreshInv, Publishing, UnderGuard
<1>3. StoredInv /\ ScanInv
  BY DEF Init, StoredInv, ScanInv
<1>4. StreamMonotonic /\ ExpectedRevisionHonoured
  BY DEF Init, StreamMonotonic, ExpectedRevisionHonoured, Sorted, Honoured
<1>5. ConflictMeansStale /\ EnumerateCoversCommitted
  BY DEF Init, ConflictMeansStale, EnumerateCoversCommitted
<1> QED
  BY <1>1, <1>2, <1>3, <1>4, <1>5 DEF IInv

----------------------------------------------------------------------------

\* What a thread inside a call works with.
LEMMA CallFacts ==
  ASSUME IInv, NEW t \in Clients, pc[t] \notin {"idle", "scan"}
  PROVE  /\ call[t] \in Request
         /\ call[t] # None
         /\ Agg(t) \in Aggregates
         /\ call[t].expected \in Expected
         /\ call[t].expected \in {None} \cup 0..gen
         /\ call[t].n \in 0..MaxBatch
         /\ call[t].n \in Nat
         /\ stream[Agg(t)] \in Seq(Event)
         /\ RevisionOf(stream[Agg(t)]) \in {Zero} \cup Revisions
<1>1. call[t] \in Request /\ call[t] # None /\ call[t].expected \in {None} \cup 0..gen
  BY DEF IInv, TypeOK, CallInv
<1>2. /\ Agg(t) \in Aggregates
      /\ call[t].expected \in Expected
      /\ call[t].n \in 0..MaxBatch
  BY <1>1, RequestType DEF Agg
<1>3. call[t].n \in Nat
  BY <1>2, MaxBatchAssumption
<1>4. stream[Agg(t)] \in Seq(Event)
  BY <1>2 DEF IInv, TypeOK
<1> QED
  BY <1>1, <1>2, <1>3, <1>4, RevisionOfType

\* Nothing in a stream is above the generator.
LEMMA CurrentRevisionBound ==
  ASSUME IInv, NEW a \in Aggregates
  PROVE  RevisionOf(stream[a]) \in 0..gen
<1>1. stream[a] \in Seq(Event) /\ gen \in Nat
  BY MaxUlidAssumption DEF IInv, TypeOK
<1>2. CASE stream[a] = <<>>
  BY <1>1, <1>2 DEF RevisionOf, Zero
<1>3. CASE stream[a] # <<>>
  <2>1. Len(stream[a]) \in 1..Len(stream[a])
    BY <1>1, <1>3
  <2>2. /\ RevisionOf(stream[a]) = stream[a][Len(stream[a])].rev
        /\ stream[a][Len(stream[a])].rev \in Nat
    BY <1>1, <1>3, <2>1, EventAt DEF RevisionOf
  <2>3. stream[a][Len(stream[a])].rev <= gen
    BY <2>1 DEF IInv, StoredInv
  <2> QED
    BY <1>1, <2>2, <2>3
<1> QED
  BY <1>2, <1>3

\* What a caller may expect has been stored, so no thread is about to store it.
LEMMA KnownRevisionFacts ==
  ASSUME IInv, NEW e \in KnownRevisions
  PROVE  /\ e \in {Zero} \cup Revisions
         /\ e \in 0..gen
         /\ \A t \in Clients : pc[t] = "append" =>
              \A i \in 1..Len(minted[t]) : minted[t][i] # e
<1>1. gen \in Nat
  BY MaxUlidAssumption DEF IInv, TypeOK
<1>2. CASE e = Zero
  <2>1. \A t \in Clients : \A i \in 1..Len(minted[t]) : minted[t][i] \in Revisions
    BY DEF IInv, TypeOK
  <2>2. \A t \in Clients : \A i \in 1..Len(minted[t]) : minted[t][i] # 0
    BY <2>1, MaxUlidAssumption DEF Revisions
  <2> QED
    BY <1>1, <1>2, <2>2 DEF Zero
<1>3. CASE e # Zero
  <2>1. PICK a \in Aggregates : \E i \in 1..Len(stream[a]) : e = stream[a][i].rev
    BY <1>3 DEF KnownRevisions
  <2>2. stream[a] \in Seq(Event)
    BY DEF IInv, TypeOK
  <2>3. e \in Revisions /\ e \in Nat
    BY <2>1, <2>2, EventAt
  <2>4. e <= gen
    BY <2>1 DEF IInv, StoredInv
  <2>5. \A t \in Clients : pc[t] = "append" =>
          \A k \in 1..Len(minted[t]) : minted[t][k] # e
    BY <2>1 DEF IInv, FreshInv
  <2> QED
    BY <1>1, <2>3, <2>4, <2>5
<1> QED
  BY <1>2, <1>3

\* A call that begins counts against the bound and leaves the store alone.
LEMMA BeginType ==
  ASSUME IInv, NEW t \in Clients, NEW step \in Steps, Begin(t, step)
  PROVE  pc' \in [Clients -> Steps] /\ calls' \in 0..MaxCalls
  BY MaxCallsAssumption DEF IInv, TypeOK, Begin

----------------------------------------------------------------------------

\* A new call, whatever it asks, meets the invariant.
LEMMA NewCallPreserves ==
  ASSUME IInv, NEW t \in Clients, NEW request \in Request,
         NEW step \in {"get", "resolve"}, Begin(t, step),
         call' = [call EXCEPT ![t] = request],
         UNCHANGED <<storeVars, minted, reply, scanVars>>,
         request.expected \in KnownRevisions \cup {None},
         step = "get" => request.n = 0,
         step = "resolve" => request.op = "publish" /\ request.n > 0
  PROVE  IInv'
<1> USE DEF storeVars, scanVars
<1>1. request # None /\ request.expected \in {None} \cup 0..gen
  BY KnownRevisionFacts, NoneAssumption
<1>2. /\ pc[t] = "idle"
      /\ pc' = [pc EXCEPT ![t] = step]
      /\ \A u \in Clients : u # t => pc'[u] = pc[u] /\ call'[u] = call[u]
      /\ pc'[t] = step /\ call'[t] = request
  BY DEF Begin, IInv, TypeOK
<1>3. TypeOK'
  BY BeginType DEF IInv, TypeOK, Steps
<1>4. CallInv'
  BY <1>1, <1>2 DEF IInv, CallInv, Publishing, UnderGuard, Agg
<1>5. GuardInv' /\ CheckedInv' /\ MintedInv'
  BY <1>2 DEF IInv, GuardInv, CheckedInv, MintedInv, UnderGuard, Agg
<1>6. FreshInv'
  <2>1. \A u \in Clients : pc[u] = "append" =>
          \A i \in 1..Len(minted[u]) : minted[u][i] # request.expected
    <3>1. CASE request.expected = None
      <4>1. \A u \in Clients : \A i \in 1..Len(minted[u]) : minted[u][i] \in Revisions
        BY DEF IInv, TypeOK
      <4>2. None \notin Revisions
        BY NoneAssumption, MaxUlidAssumption DEF Revisions
      <4> QED
        BY <3>1, <4>1, <4>2
    <3>2. CASE request.expected \in KnownRevisions
      BY <3>2, KnownRevisionFacts
    <3> QED
      BY <3>1, <3>2
  <2> QED
    BY <1>2, <2>1 DEF IInv, FreshInv
<1>7. StoredInv' /\ ScanInv' /\ EnumerateCoversCommitted'
  BY DEF IInv, StoredInv, ScanInv, EnumerateCoversCommitted
<1>8. StreamMonotonic' /\ ExpectedRevisionHonoured'
  BY DEF IInv, StreamMonotonic, ExpectedRevisionHonoured
<1>9. ConflictMeansStale'
  BY <1>2 DEF IInv, ConflictMeansStale, CallInv, Agg
<1> QED
  BY <1>3, <1>4, <1>5, <1>6, <1>7, <1>8, <1>9 DEF IInv

LEMMA PublishPreserves ==
  ASSUME IInv, NEW t \in Clients, NEW a \in Aggregates,
         NEW e \in KnownRevisions \cup {None}, NEW n \in 0..MaxBatch,
         Publish(t, a, e, n)
  PROVE  IInv'
<1> DEFINE request == [op |-> "publish", agg |-> a, expected |-> e, n |-> n]
<1>1. e \in Expected
  BY KnownRevisionFacts DEF Expected
<1>2. request \in Request
  BY <1>1 DEF Request, PublishRequest
<1>3. n # 0 => n > 0
  BY MaxBatchAssumption
<1>4. /\ request.op = "publish"
      /\ request.expected = e
      /\ request.n = n
  OBVIOUS
<1>5. /\ Begin(t, IF n = 0 THEN "get" ELSE "resolve")
      /\ call' = [call EXCEPT ![t] = request]
      /\ UNCHANGED <<storeVars, minted, reply, scanVars>>
  BY DEF Publish
<1> HIDE DEF request
<1>6. CASE n = 0
  BY <1>2, <1>4, <1>5, <1>6, NewCallPreserves
<1>7. CASE n # 0
  BY <1>2, <1>3, <1>4, <1>5, <1>7, NewCallPreserves
<1> QED
  BY <1>6, <1>7

LEMMA LoadPreserves ==
  ASSUME IInv, NEW t \in Clients, NEW a \in Aggregates, Load(t, a)
  PROVE  IInv'
<1> DEFINE request == [op |-> "load", agg |-> a, expected |-> None, n |-> 0]
<1>1. request \in Request /\ request.expected = None /\ request.n = 0
  BY DEF Request, LoadRequest
<1>2. /\ Begin(t, "get")
      /\ call' = [call EXCEPT ![t] = request]
      /\ UNCHANGED <<storeVars, minted, reply, scanVars>>
  BY DEF Load
<1> HIDE DEF request
<1> QED
  BY <1>1, <1>2, NewCallPreserves

----------------------------------------------------------------------------

\* A thread that answers without touching the store.
LEMMA FinishPreserves ==
  ASSUME IInv, NEW t \in Clients, NEW answer \in Reply,
         pc[t] \in {"resolve", "check", "get", "read"},
         Finish(t, answer), UNCHANGED <<storeVars, call, minted, scanVars, calls>>,
         answer.kind = "conflict" => call[t].expected # RevisionOf(stream[Agg(t)])
  PROVE  IInv'
<1> USE DEF storeVars, scanVars
<1>1. /\ pc'[t] = "return" /\ reply'[t] = answer /\ answer # None
      /\ \A u \in Clients : u # t => pc'[u] = pc[u] /\ reply'[u] = reply[u]
  BY NoneAssumption DEF Finish, IInv, TypeOK
<1>2. TypeOK'
  BY DEF Finish, IInv, TypeOK, Steps
<1>3. CallInv'
  BY <1>1 DEF IInv, CallInv, Publishing, UnderGuard, Agg
<1>4. GuardInv' /\ CheckedInv' /\ MintedInv' /\ FreshInv'
  BY <1>1 DEF IInv, GuardInv, CheckedInv, MintedInv, FreshInv, UnderGuard, Agg
<1>5. StoredInv' /\ ScanInv' /\ EnumerateCoversCommitted'
  BY DEF IInv, StoredInv, ScanInv, EnumerateCoversCommitted
<1>6. StreamMonotonic' /\ ExpectedRevisionHonoured'
  BY DEF IInv, StreamMonotonic, ExpectedRevisionHonoured
<1>7. ConflictMeansStale'
  BY <1>1 DEF IInv, ConflictMeansStale, Agg
<1> QED
  BY <1>2, <1>3, <1>4, <1>5, <1>6, <1>7 DEF IInv

\* A thread that moves on without touching the store.
LEMMA GotoPreserves ==
  ASSUME IInv, NEW t \in Clients, NEW step \in {"lock", "insert", "mint", "read"},
         pc[t] \in {"resolve", "check", "get"},
         Goto(t, step), UNCHANGED <<storeVars, call, minted, scanVars, calls>>,
         step = "mint" <=> pc[t] = "check",
         step = "read" <=> pc[t] = "get",
         step \in {"lock", "read"} => Agg(t) \in present,
         step = "insert" => call[t].expected \in {None, Zero},
         step = "mint" => call[t].expected \in {None, RevisionOf(stream[Agg(t)])}
  PROVE  IInv'
<1> USE DEF storeVars, scanVars
<1>1. /\ pc'[t] = step
      /\ \A u \in Clients : u # t => pc'[u] = pc[u]
      /\ reply' = reply
  BY DEF Goto, IInv, TypeOK
<1>2. TypeOK'
  BY DEF Goto, IInv, TypeOK, Steps
<1>3. CallInv'
  BY <1>1 DEF IInv, CallInv, Publishing, UnderGuard, Agg
<1>4. GuardInv' /\ CheckedInv' /\ MintedInv' /\ FreshInv'
  BY <1>1 DEF IInv, GuardInv, CheckedInv, MintedInv, FreshInv, UnderGuard, Agg
<1>5. StoredInv' /\ ScanInv' /\ EnumerateCoversCommitted'
  BY DEF IInv, StoredInv, ScanInv, EnumerateCoversCommitted
<1>6. StreamMonotonic' /\ ExpectedRevisionHonoured'
  BY DEF IInv, StreamMonotonic, ExpectedRevisionHonoured
<1>7. ConflictMeansStale'
  BY <1>1 DEF IInv, ConflictMeansStale, Agg
<1> QED
  BY <1>2, <1>3, <1>4, <1>5, <1>6, <1>7 DEF IInv

\* The answers of this module are replies, of the kind they were built with.
LEMMA AnswerFacts ==
  ASSUME NEW kind \in {"ok", "loaded", "conflict", "failed"},
         NEW rev \in {Zero} \cup Revisions, NEW events \in Seq(Event)
  PROVE  /\ Answer(kind, rev, events) \in Reply
         /\ Answer(kind, rev, events).kind = kind
  BY AnswerType DEF Answer

\* An aggregate the map does not know has an empty stream.
LEMMA AbsentIsEmpty ==
  ASSUME IInv, NEW a \in Aggregates, a \notin present
  PROVE  stream[a] = <<>> /\ RevisionOf(stream[a]) = Zero
  BY DEF IInv, StoredInv, RevisionOf

LEMMA ResolvePreserves ==
  ASSUME IInv, NEW t \in Clients, Resolve(t)
  PROVE  IInv'
<1>1. pc[t] = "resolve" /\ UNCHANGED <<storeVars, call, minted, scanVars, calls>>
  BY DEF Resolve
<1>2. CASE Agg(t) \in present /\ Goto(t, "lock")
  BY <1>1, <1>2, GotoPreserves
<1>3. CASE /\ Agg(t) \notin present
           /\ call[t].expected \notin {None, Zero}
           /\ Finish(t, Answer("conflict", Zero, <<>>))
  <2>1. Answer("conflict", Zero, <<>>) \in Reply
    <3>1. <<>> \in Seq(Event)
      OBVIOUS
    <3> QED
      BY <3>1, AnswerType
  <2>2. RevisionOf(stream[Agg(t)]) = Zero
    BY <1>1, <1>3, CallFacts, AbsentIsEmpty
  <2> QED
    BY <1>1, <1>3, <2>1, <2>2, FinishPreserves
<1>4. CASE /\ Agg(t) \notin present
           /\ call[t].expected \in {None, Zero}
           /\ Goto(t, "insert")
  BY <1>1, <1>4, GotoPreserves
<1> QED
  BY <1>2, <1>3, <1>4 DEF Resolve

LEMMA StreamForPreserves ==
  ASSUME IInv, NEW t \in Clients, StreamFor(t)
  PROVE  IInv'
<1> USE DEF scanVars
<1>1. /\ pc[t] = "insert" /\ pc'[t] = "lock"
      /\ \A u \in Clients : u # t => pc'[u] = pc[u]
      /\ present' = present \cup {Agg(t)}
      /\ UNCHANGED <<stream, writer, gen, call, minted, scanVars, calls, reply>>
  BY DEF StreamFor, Goto, IInv, TypeOK
<1>2. Agg(t) \in Aggregates
  BY <1>1, CallFacts
<1>3. TypeOK'
  BY <1>1, <1>2 DEF StreamFor, Goto, IInv, TypeOK, Steps
<1>4. CallInv'
  BY <1>1 DEF IInv, CallInv, Publishing, UnderGuard, Agg
<1>5. GuardInv' /\ CheckedInv' /\ MintedInv' /\ FreshInv'
  BY <1>1 DEF IInv, GuardInv, CheckedInv, MintedInv, FreshInv, UnderGuard, Agg
<1>6. StoredInv' /\ ScanInv' /\ EnumerateCoversCommitted'
  BY <1>1 DEF IInv, StoredInv, ScanInv, EnumerateCoversCommitted
<1>7. StreamMonotonic' /\ ExpectedRevisionHonoured' /\ ConflictMeansStale'
  BY <1>1 DEF IInv, StreamMonotonic, ExpectedRevisionHonoured, ConflictMeansStale, Agg
<1> QED
  BY <1>3, <1>4, <1>5, <1>6, <1>7 DEF IInv

LEMMA LockStreamPreserves ==
  ASSUME IInv, NEW t \in Clients, LockStream(t)
  PROVE  IInv'
<1> USE DEF scanVars
<1>1. /\ pc[t] = "lock" /\ pc'[t] = "check"
      /\ \A u \in Clients : u # t => pc'[u] = pc[u]
      /\ writer[Agg(t)] = None
      /\ writer' = [writer EXCEPT ![Agg(t)] = t]
      /\ UNCHANGED <<present, stream, gen, call, minted, scanVars, calls, reply>>
  BY DEF LockStream, Goto, IInv, TypeOK
<1>2. Agg(t) \in Aggregates
  BY <1>1, CallFacts
<1>3. TypeOK'
  BY <1>1, <1>2 DEF LockStream, Goto, IInv, TypeOK, Steps
<1>4. CallInv'
  BY <1>1 DEF IInv, CallInv, Publishing, UnderGuard, Agg
<1>5. GuardInv'
  BY <1>1, <1>2, NoneAssumption DEF IInv, TypeOK, GuardInv, UnderGuard, Agg
<1>6. CheckedInv' /\ MintedInv' /\ FreshInv'
  BY <1>1 DEF IInv, CheckedInv, MintedInv, FreshInv, Agg
<1>7. StoredInv' /\ ScanInv' /\ EnumerateCoversCommitted'
  BY <1>1 DEF IInv, StoredInv, ScanInv, EnumerateCoversCommitted
<1>8. StreamMonotonic' /\ ExpectedRevisionHonoured' /\ ConflictMeansStale'
  BY <1>1 DEF IInv, StreamMonotonic, ExpectedRevisionHonoured, ConflictMeansStale, Agg
<1> QED
  BY <1>3, <1>4, <1>5, <1>6, <1>7, <1>8 DEF IInv

LEMMA CheckRevisionPreserves ==
  ASSUME IInv, NEW t \in Clients, CheckRevision(t)
  PROVE  IInv'
<1> DEFINE actual == RevisionOf(stream[Agg(t)])
<1>1. pc[t] = "check" /\ UNCHANGED <<storeVars, call, minted, scanVars, calls>>
  BY DEF CheckRevision
<1>2. CASE call[t].expected \in {None, actual}
  <2>1. Goto(t, "mint")
    BY <1>2 DEF CheckRevision
  <2> QED
    BY <1>1, <1>2, <2>1, GotoPreserves
<1>3. CASE call[t].expected \notin {None, actual}
  <2>1. Finish(t, Answer("conflict", actual, <<>>))
    BY <1>3 DEF CheckRevision
  <2>2. <<>> \in Seq(Event) /\ actual \in {Zero} \cup Revisions
    BY <1>1, CallFacts
  <2>3. Answer("conflict", actual, <<>>) \in Reply
    BY <2>2, AnswerType
  <2> QED
    BY <1>1, <1>3, <2>1, <2>3, FinishPreserves
<1> QED
  BY <1>2, <1>3

LEMMA GetPreserves ==
  ASSUME IInv, NEW t \in Clients, Get(t)
  PROVE  IInv'
<1>1. pc[t] = "get" /\ UNCHANGED <<storeVars, call, minted, scanVars, calls>>
  BY DEF Get
<1>2. CASE Agg(t) \in present
  <2>1. Goto(t, "read")
    BY <1>2 DEF Get
  <2> QED
    BY <1>1, <1>2, <2>1, GotoPreserves
<1>3. CASE Agg(t) \notin present
  <2>1. Finish(t, View(t, <<>>))
    BY <1>3 DEF Get
  <2>2. <<>> \in Seq(Event)
    OBVIOUS
  <2>3. View(t, <<>>) \in Reply /\ View(t, <<>>).kind # "conflict"
    BY <2>2, RevisionOfType, AnswerFacts DEF View
  <2> QED
    BY <1>1, <2>1, <2>3, FinishPreserves
<1> QED
  BY <1>2, <1>3

LEMMA ReadPreserves ==
  ASSUME IInv, NEW t \in Clients, Read(t)
  PROVE  IInv'
<1> DEFINE s == stream[Agg(t)]
<1>1. /\ pc[t] = "read" /\ UNCHANGED <<storeVars, call, minted, scanVars, calls>>
      /\ Finish(t, View(t, s))
  BY DEF Read
<1>2. <<>> \in Seq(Event) /\ s \in Seq(Event)
  BY <1>1, CallFacts
<1>3. View(t, s) \in Reply /\ View(t, s).kind # "conflict"
  BY <1>2, RevisionOfType, AnswerFacts DEF View
<1> QED
  BY <1>1, <1>3, FinishPreserves

\* The revisions a thread mints are increasing, above the old generator and
\* within the new one.
LEMMA MintedRevisions ==
  ASSUME IInv, NEW n \in Nat, gen + 2 * n <= MaxUlid
  PROVE  LET revs == [i \in 1..n |-> gen + 2 * i]
         IN /\ revs \in Seq(Revisions)
            /\ Len(revs) = n
            /\ Increasing(revs)
            /\ \A i \in 1..Len(revs) : revs[i] \in Nat /\ revs[i] > gen /\ revs[i] <= gen + 2 * n
<1> DEFINE revs == [i \in 1..n |-> gen + 2 * i]
<1>1. gen \in Nat
  BY MaxUlidAssumption DEF IInv, TypeOK
<1>2. \A i \in 1..n : gen + 2 * i \in Nat /\ gen + 2 * i > gen /\ gen + 2 * i <= gen + 2 * n
  BY <1>1
<1>3. \A i \in 1..n : gen + 2 * i \in Revisions
  BY <1>1, <1>2, MaxUlidAssumption DEF Revisions
<1>4. revs \in Seq(Revisions) /\ Len(revs) = n
  BY <1>3
<1>5. \A i \in 1..n : revs[i] = gen + 2 * i
  OBVIOUS
<1> HIDE DEF revs
<1>6. Increasing(revs)
  BY <1>1, <1>4, <1>5 DEF Increasing
<1> QED
  BY <1>2, <1>4, <1>5, <1>6 DEF revs

LEMMA MintEventIdsPreserves ==
  ASSUME IInv, NEW t \in Clients, MintEventIds(t)
  PROVE  IInv'
<1> USE DEF scanVars
<1> DEFINE n == call[t].n
           revs == [i \in 1..n |-> gen + 2 * i]
<1>1. /\ pc[t] = "mint"
      /\ UNCHANGED <<present, stream, writer, call, scanVars, calls>>
      /\ n \in Nat /\ gen \in Nat
  <2>1. pc[t] = "mint" /\ UNCHANGED <<present, stream, writer, call, scanVars, calls>>
    BY DEF MintEventIds
  <2>2. n \in Nat
    BY <2>1, CallFacts
  <2>3. gen \in Nat
    BY MaxUlidAssumption DEF IInv, TypeOK
  <2> QED
    BY <2>1, <2>2, <2>3
<1>2. StoredInv' /\ ScanInv' /\ EnumerateCoversCommitted'
  <2>1. gen' \in Nat /\ gen' >= gen
    BY <1>1, MaxUlidAssumption DEF MintEventIds, IInv, TypeOK
  <2>2. \A a \in Aggregates : \A i \in 1..Len(stream[a]) : stream[a][i].rev \in Nat
    BY EventAt DEF IInv, TypeOK
  <2> QED
    BY <1>1, <2>1, <2>2 DEF IInv, StoredInv, ScanInv, EnumerateCoversCommitted
<1>3. StreamMonotonic' /\ ExpectedRevisionHonoured'
  BY <1>1 DEF IInv, StreamMonotonic, ExpectedRevisionHonoured
<1>4. CASE gen + 2 * n <= MaxUlid
  <2>1. /\ minted' = [minted EXCEPT ![t] = revs] /\ gen' = gen + 2 * n
        /\ pc' = [pc EXCEPT ![t] = "append"] /\ reply' = reply
    BY <1>4 DEF MintEventIds, Goto
  <2>2. /\ revs \in Seq(Revisions)
        /\ Len(revs) = n
        /\ Increasing(revs)
        /\ \A i \in 1..Len(revs) : revs[i] \in Nat /\ revs[i] > gen /\ revs[i] <= gen + 2 * n
    BY <1>1, <1>4, MintedRevisions
  <2>3. /\ minted'[t] = revs /\ pc'[t] = "append"
        /\ \A u \in Clients : u # t => minted'[u] = minted[u] /\ pc'[u] = pc[u]
    BY <2>1 DEF IInv, TypeOK
  <2>4. /\ gen' \in 0..MaxUlid /\ gen' >= gen
        /\ \A u \in Clients : \A i \in 1..Len(minted[u]) : minted[u][i] \in Nat
    <3>1. \A u \in Clients : \A i \in 1..Len(minted[u]) : minted[u][i] \in Revisions
      BY DEF IInv, TypeOK
    <3> QED
      BY <1>1, <1>4, <2>1, <3>1, MaxUlidAssumption DEF Revisions
  <2> HIDE DEF revs
  <2>5. TypeOK'
    BY <1>1, <2>1, <2>2, <2>4 DEF IInv, TypeOK, Steps
  <2>6. CallInv'
    <3>1. \A u \in Clients : call[u] # None => call'[u].expected \in {None} \cup 0..gen'
      BY <1>1, <2>4 DEF IInv, CallInv
    <3> QED
      BY <1>1, <2>1, <2>3, <3>1 DEF IInv, CallInv, Publishing, UnderGuard, Agg
  <2>7. GuardInv' /\ CheckedInv'
    BY <1>1, <2>3 DEF IInv, GuardInv, CheckedInv, UnderGuard, Agg
  <2>8. MintedInv'
    <3>1. RevisionOf(stream[Agg(t)]) \in 0..gen
      BY <1>1, CallFacts, CurrentRevisionBound
    <3>2. \A i \in 1..Len(revs) : revs[i] <= gen' /\ revs[i] > RevisionOf(stream[Agg(t)])
      BY <1>1, <2>1, <2>2, <3>1
    <3>3. \A u \in Clients : u # t /\ pc[u] = "append" =>
            \A i \in 1..Len(minted[u]) : minted[u][i] <= gen'
      BY <1>1, <2>4 DEF IInv, MintedInv
    <3> QED
      BY <1>1, <2>2, <2>3, <3>2, <3>3 DEF IInv, MintedInv, Agg
  <2>9. FreshInv'
    <3>1. \A i \in 1..Len(revs) : revs[i] \in Nat /\ revs[i] > gen
      BY <1>1, <2>2
    <3>2. \A a \in Aggregates : \A j \in 1..Len(stream[a]) :
            stream[a][j].rev \in Nat /\ stream[a][j].rev <= gen
      BY EventAt DEF IInv, TypeOK, StoredInv
    <3>3. \A u \in Clients : pc[u] = "append" =>
            \A k \in 1..Len(minted[u]) : minted[u][k] <= gen
      BY DEF IInv, MintedInv
    <3>4. \A u \in Clients : call[u] # None => call[u].expected \in {None} \cup 0..gen
      BY DEF IInv, CallInv
    <3>5. \A i \in 1..Len(revs) :
            /\ \A a \in Aggregates : \A j \in 1..Len(stream[a]) : stream[a][j].rev # revs[i]
            /\ \A u \in Clients : pc[u] = "append" =>
                 \A k \in 1..Len(minted[u]) : minted[u][k] # revs[i]
            /\ \A u \in Clients : call[u] # None => call[u].expected # revs[i]
      BY <1>1, <2>4, <3>1, <3>2, <3>3, <3>4, NoneAssumption
    <3> QED
      BY <1>1, <2>3, <3>5 DEF IInv, FreshInv
  <2>10. ConflictMeansStale'
    BY <1>1, <2>1, <2>3 DEF IInv, ConflictMeansStale, Agg
  <2> QED
    BY <1>2, <1>3, <2>5, <2>6, <2>7, <2>8, <2>9, <2>10 DEF IInv
<1>5. CASE ~(gen + 2 * n <= MaxUlid)
  <2> DEFINE answer == Answer("failed", Zero, <<>>)
  <2>1. /\ gen' = MaxUlid /\ minted' = minted
        /\ pc' = [pc EXCEPT ![t] = "return"] /\ reply' = [reply EXCEPT ![t] = answer]
    BY <1>5 DEF MintEventIds, Finish
  <2>2. answer \in Reply /\ answer.kind = "failed" /\ answer # None
    <3>1. <<>> \in Seq(Event)
      OBVIOUS
    <3> QED
      BY <3>1, AnswerFacts, NoneAssumption
  <2>3. /\ pc'[t] = "return" /\ reply'[t] = answer
        /\ \A u \in Clients : u # t => reply'[u] = reply[u] /\ pc'[u] = pc[u]
    BY <2>1 DEF IInv, TypeOK
  <2>4. gen' \in 0..MaxUlid /\ gen' >= gen
    BY <1>1, <2>1, MaxUlidAssumption DEF IInv, TypeOK
  <2> HIDE DEF answer
  <2>5. TypeOK'
    BY <1>1, <2>1, <2>2, <2>4 DEF IInv, TypeOK, Steps
  <2>6. CallInv'
    <3>1. \A u \in Clients : call[u] # None => call'[u].expected \in {None} \cup 0..gen'
      BY <1>1, <2>4 DEF IInv, CallInv
    <3> QED
      BY <1>1, <2>2, <2>3, <3>1 DEF IInv, CallInv, Publishing, UnderGuard, Agg
  <2>7. GuardInv' /\ CheckedInv' /\ FreshInv'
    BY <1>1, <2>1, <2>3 DEF IInv, GuardInv, CheckedInv, FreshInv, UnderGuard, Agg
  <2>8. MintedInv'
    <3>1. \A u \in Clients : \A i \in 1..Len(minted[u]) : minted[u][i] \in Revisions
      BY DEF IInv, TypeOK
    <3>2. \A u \in Clients : \A i \in 1..Len(minted[u]) : minted[u][i] <= gen'
      BY <2>1, <3>1, MaxUlidAssumption DEF Revisions
    <3> QED
      BY <1>1, <2>1, <2>3, <3>2 DEF IInv, MintedInv, Agg
  <2>9. ConflictMeansStale'
    BY <1>1, <2>2, <2>3 DEF IInv, ConflictMeansStale, Agg
  <2> QED
    BY <1>2, <1>3, <2>5, <2>6, <2>7, <2>8, <2>9 DEF IInv
<1> QED
  BY <1>4, <1>5

LEMMA AppendEventsPreserves ==
  ASSUME IInv, NEW t \in Clients, AppendEvents(t)
  PROVE  IInv'
<1> USE DEF scanVars
<1> DEFINE a == Agg(t)
           e == call[t].expected
           revs == minted[t]
           batch == Batch(revs, e)
           longer == stream[a] \o batch
           answer == Answer("ok", revs[Len(revs)], batch)
<1>1. /\ pc[t] = "append"
      /\ UNCHANGED <<present, writer, gen, call, minted, scanVars, calls>>
      /\ stream' = [stream EXCEPT ![a] = longer]
      /\ reply' = [reply EXCEPT ![t] = answer]
      /\ pc' = [pc EXCEPT ![t] = "return"]
  BY DEF AppendEvents, Finish
<1>2. /\ a \in Aggregates /\ e \in Expected /\ stream[a] \in Seq(Event)
      /\ call[t].n \in Nat /\ call[t] # None
  BY <1>1, CallFacts
<1>3. /\ revs \in Seq(Revisions) /\ Len(revs) > 0
      /\ Increasing(revs)
      /\ \A i \in 1..Len(revs) : revs[i] <= gen /\ revs[i] > RevisionOf(stream[a])
  BY <1>1 DEF IInv, TypeOK, MintedInv, CallInv, Publishing
<1>4. e \in {None, RevisionOf(stream[a])}
  BY <1>1 DEF IInv, CheckedInv
<1>5. /\ batch \in Seq(Event) /\ longer \in Seq(Event)
      /\ Len(longer) = Len(stream[a]) + Len(revs)
      /\ \A i \in 1..Len(stream[a]) : longer[i] = stream[a][i]
      /\ \A i \in (Len(stream[a]) + 1)..Len(longer) :
           /\ i - Len(stream[a]) \in 1..Len(revs)
           /\ longer[i].rev = revs[i - Len(stream[a])]
  <2> HIDE DEF a, e, revs
  <2>1. batch \in Seq(Event)
    BY <1>2, <1>3, BatchType
  <2> QED
    BY <1>2, <1>3, <2>1, AppendBatch
<1>6. Sorted(longer)
  BY <1>2, <1>3, AppendSorted DEF IInv, StreamMonotonic
<1>7. Honoured(longer)
  BY <1>2, <1>3, <1>4, AppendHonoured DEF IInv, ExpectedRevisionHonoured
<1>8. RevisionOf(longer) = revs[Len(revs)] /\ Len(revs) \in 1..Len(revs)
  BY <1>2, <1>3, AppendRevision
<1>9. answer \in Reply /\ answer.kind = "ok" /\ answer # None
  BY <1>3, <1>5, <1>8, AnswerFacts, NoneAssumption
<1>10. /\ stream'[a] = longer
       /\ \A b \in Aggregates : b # a => stream'[b] = stream[b]
       /\ pc'[t] = "return" /\ reply'[t] = answer
       /\ \A u \in Clients : u # t => pc'[u] = pc[u] /\ reply'[u] = reply[u]
  BY <1>1, <1>2 DEF IInv, TypeOK
\* While t holds the write guard nobody else is between check and append.
<1>11. \A u \in Clients : u # t /\ pc[u] \in UnderGuard => Agg(u) # a
  BY <1>1, <1>2 DEF IInv, GuardInv, UnderGuard
\* A revision of the longer stream was there before, or has just been minted.
<1>12. \A i \in 1..Len(longer) :
         \/ \E j \in 1..Len(stream[a]) : longer[i].rev = stream[a][j].rev
         \/ \E j \in 1..Len(revs) : longer[i].rev = revs[j]
  <2> HIDE DEF longer, batch, a, e, revs
  <2> TAKE i \in 1..Len(longer)
  <2>1. Len(stream[a]) \in Nat /\ Len(longer) \in Nat
    BY <1>2, <1>5
  <2>2. CASE i \in 1..Len(stream[a])
    BY <1>5, <2>2
  <2>3. CASE i \in (Len(stream[a]) + 1)..Len(longer)
    BY <1>5, <2>3
  <2> QED
    BY <2>1, <2>2, <2>3
<1> HIDE DEF longer, batch, answer, a, e, revs
<1>13. TypeOK'
  BY <1>1, <1>5, <1>9 DEF IInv, TypeOK, Steps
<1>14. CallInv'
  BY <1>1, <1>9, <1>10 DEF IInv, CallInv, Publishing, UnderGuard, Agg
<1>15. GuardInv'
  BY <1>1, <1>10 DEF IInv, GuardInv, UnderGuard, Agg
<1>16. CheckedInv' /\ MintedInv'
  <2>1. \A u \in Clients : pc'[u] \in {"mint", "append"} =>
          /\ u # t /\ pc[u] = pc'[u] /\ Agg(u) # a /\ Agg(u) \in Aggregates
          /\ call[u] = call'[u]
    BY <1>1, <1>10, <1>11, CallFacts DEF UnderGuard
  <2> QED
    BY <1>1, <1>10, <2>1 DEF IInv, CheckedInv, MintedInv, Agg
<1>17. FreshInv'
  <2> SUFFICES ASSUME NEW u \in Clients, pc'[u] = "append", NEW i \in 1..Len(minted[u])
               PROVE  /\ \A b \in Aggregates : \A j \in 1..Len(stream'[b]) :
                           stream'[b][j].rev # minted[u][i]
                      /\ \A v \in Clients : pc'[v] = "append" /\ v # u =>
                           \A k \in 1..Len(minted[v]) : minted[v][k] # minted[u][i]
                      /\ \A v \in Clients : call[v] # None => call[v].expected # minted[u][i]
    BY <1>1 DEF FreshInv
  <2>1. u # t /\ pc[u] = "append"
    BY <1>1, <1>10
  <2>2. \A b \in Aggregates : \A j \in 1..Len(stream[b]) : stream[b][j].rev # minted[u][i]
    BY <2>1 DEF IInv, FreshInv
  <2>3. \A k \in 1..Len(revs) : revs[k] # minted[u][i]
    BY <1>1, <2>1 DEF IInv, FreshInv, revs
  <2>4. \A j \in 1..Len(longer) : longer[j].rev # minted[u][i]
    BY <1>2, <1>12, <2>2, <2>3
  <2>5. \A v \in Clients : pc'[v] = "append" => pc[v] = "append"
    BY <1>1, <1>10
  <2> QED
    BY <1>10, <2>1, <2>2, <2>4, <2>5 DEF IInv, FreshInv
<1>18. StoredInv'
  <2>1. \A i \in 1..Len(longer) : longer[i].rev <= gen
    BY <1>2, <1>3, <1>12 DEF IInv, StoredInv
  <2>2. a \in present
    BY <1>1 DEF IInv, CallInv, UnderGuard, a
  <2> QED
    BY <1>1, <1>10, <2>1, <2>2 DEF IInv, StoredInv
<1>19. ScanInv' /\ EnumerateCoversCommitted'
  BY <1>1 DEF IInv, ScanInv, EnumerateCoversCommitted
<1>20. StreamMonotonic' /\ ExpectedRevisionHonoured'
  BY <1>6, <1>7, <1>10 DEF IInv, StreamMonotonic, ExpectedRevisionHonoured
<1>21. ConflictMeansStale'
  <2> SUFFICES ASSUME NEW u \in Clients, reply'[u] # None, reply'[u].kind = "conflict"
               PROVE  call[u].expected # RevisionOf(stream'[Agg(u)])
    BY <1>1 DEF ConflictMeansStale, Agg
  <2>1. u # t /\ reply[u] # None /\ reply[u].kind = "conflict"
    BY <1>9, <1>10
  <2>2. call[u].expected # RevisionOf(stream[Agg(u)])
    BY <2>1 DEF IInv, ConflictMeansStale
  <2>3. call[u] # None /\ Agg(u) \in Aggregates
    <3>1. pc[u] = "return"
      BY <2>1 DEF IInv, CallInv
    <3> QED
      BY <3>1, CallFacts
  <2>4. CASE Agg(u) # a
    BY <1>10, <2>2, <2>3, <2>4
  <2>5. CASE Agg(u) = a
    <3>1. call[u].expected # revs[Len(revs)]
      BY <1>1, <1>8, <2>3 DEF IInv, FreshInv, revs
    <3> QED
      BY <1>8, <1>10, <2>5, <3>1
  <2> QED
    BY <2>4, <2>5
<1> QED
  BY <1>13, <1>14, <1>15, <1>16, <1>17, <1>18, <1>19, <1>20, <1>21 DEF IInv

LEMMA ReturnPreserves ==
  ASSUME IInv, NEW t \in Clients, Return(t)
  PROVE  IInv'
<1> USE DEF scanVars
<1>1. /\ pc[t] = "return"
      /\ UNCHANGED <<present, stream, gen, scanVars, calls>>
      /\ pc'[t] = "idle" /\ call'[t] = None /\ reply'[t] = None
      /\ \A u \in Clients : u # t => /\ pc'[u] = pc[u] /\ call'[u] = call[u]
                                     /\ reply'[u] = reply[u] /\ minted'[u] = minted[u]
  BY DEF Return, IInv, TypeOK
<1>2. Agg(t) \in Aggregates
  BY <1>1, CallFacts
<1>3. writer' = [writer EXCEPT ![Agg(t)] = IF writer[Agg(t)] = t THEN None ELSE writer[Agg(t)]]
  BY DEF Return
<1>4. \A b \in Aggregates : \A u \in Clients : writer'[b] = u <=> writer[b] = u /\ u # t
  BY <1>1, <1>2, <1>3, NoneAssumption DEF IInv, TypeOK, GuardInv, Agg
<1>5. TypeOK'
  <2>1. writer' \in [Aggregates -> Clients \cup {None}]
    BY <1>3 DEF IInv, TypeOK
  <2>2. minted' \in [Clients -> Seq(Revisions)]
    <3>1. <<>> \in Seq(Revisions)
      OBVIOUS
    <3> QED
      BY <3>1 DEF Return, IInv, TypeOK
  <2> QED
    BY <1>1, <2>1, <2>2 DEF Return, IInv, TypeOK, Steps
<1>6. CallInv'
  BY <1>1 DEF IInv, CallInv, Publishing, UnderGuard, Agg
<1>7. GuardInv'
  <2>1. \A u \in Clients : pc[u] \in UnderGuard => Agg(u) \in Aggregates
    BY CallFacts DEF UnderGuard
  <2> QED
    BY <1>1, <1>4, <2>1 DEF IInv, GuardInv, UnderGuard, Agg
<1>8. CheckedInv' /\ MintedInv' /\ FreshInv'
  BY <1>1 DEF IInv, CheckedInv, MintedInv, FreshInv, Agg
<1>9. StoredInv' /\ ScanInv' /\ EnumerateCoversCommitted'
  BY <1>1 DEF IInv, StoredInv, ScanInv, EnumerateCoversCommitted
<1>10. StreamMonotonic' /\ ExpectedRevisionHonoured' /\ ConflictMeansStale'
  BY <1>1 DEF IInv, StreamMonotonic, ExpectedRevisionHonoured, ConflictMeansStale, Agg
<1> QED
  BY <1>5, <1>6, <1>7, <1>8, <1>9, <1>10 DEF IInv

----------------------------------------------------------------------------

\* Enumerating changes nothing but the enumerating thread's own variables.
LEMMA ScanPreserves ==
  ASSUME IInv, NEW t \in Clients, NEW step \in {"idle", "scan"},
         pc[t] \in {"idle", "scan"}, pc' = [pc EXCEPT ![t] = step],
         UNCHANGED <<storeVars, call, minted, reply>>,
         scanVars' \in [Clients -> SUBSET Aggregates] \X [Clients -> SUBSET Aggregates]
                         \X [Clients -> SUBSET Aggregates],
         calls' \in 0..MaxCalls, ScanInv', EnumerateCoversCommitted'
  PROVE  IInv'
<1> USE DEF storeVars
<1>1. \A u \in Clients : u # t => pc'[u] = pc[u]
  BY DEF IInv, TypeOK
<1>2. pc'[t] = step
  BY DEF IInv, TypeOK
<1>3. TypeOK'
  BY DEF IInv, TypeOK, Steps, scanVars
<1>4. CallInv'
  BY <1>1, <1>2 DEF IInv, CallInv, Publishing, UnderGuard, Agg
<1>5. GuardInv' /\ CheckedInv' /\ MintedInv' /\ FreshInv'
  BY <1>1, <1>2 DEF IInv, GuardInv, CheckedInv, MintedInv, FreshInv, UnderGuard, Agg
<1>6. StoredInv' /\ StreamMonotonic' /\ ExpectedRevisionHonoured' /\ ConflictMeansStale'
  BY DEF IInv, StoredInv, StreamMonotonic, ExpectedRevisionHonoured, ConflictMeansStale, Agg
<1> QED
  BY <1>3, <1>4, <1>5, <1>6 DEF IInv

LEMMA EnumeratePreserves ==
  ASSUME IInv, NEW t \in Clients, NEW wanted \in SUBSET Aggregates, Enumerate(t, wanted)
  PROVE  IInv'
<1>1. scanVars' \in [Clients -> SUBSET Aggregates] \X [Clients -> SUBSET Aggregates]
                       \X [Clients -> SUBSET Aggregates]
  BY DEF IInv, TypeOK, Enumerate, scanVars
<1>2. calls' \in 0..MaxCalls
  BY MaxCallsAssumption DEF IInv, TypeOK, Enumerate, Begin
<1>3. ScanInv'
  BY DEF IInv, TypeOK, ScanInv, StoredInv, Enumerate, storeVars
<1>4. EnumerateCoversCommitted'
  BY DEF IInv, TypeOK, EnumerateCoversCommitted, Enumerate
<1> QED
  BY <1>1, <1>2, <1>3, <1>4, ScanPreserves DEF Enumerate, Begin

LEMMA VisitPreserves ==
  ASSUME IInv, NEW t \in Clients, NEW a \in Aggregates, Visit(t, a)
  PROVE  IInv'
<1>1. scanVars' \in [Clients -> SUBSET Aggregates] \X [Clients -> SUBSET Aggregates]
                       \X [Clients -> SUBSET Aggregates]
  BY DEF IInv, TypeOK, Visit, scanVars
<1>2. pc' = [pc EXCEPT ![t] = "scan"]
  BY DEF IInv, TypeOK, Visit
<1>3. ScanInv'
  BY DEF IInv, TypeOK, ScanInv, Visit, storeVars
<1>4. EnumerateCoversCommitted'
  BY DEF IInv, TypeOK, ScanInv, EnumerateCoversCommitted, Visit
<1> QED
  BY <1>1, <1>2, <1>3, <1>4, ScanPreserves DEF IInv, TypeOK, Visit

LEMMA EnumerateReturnPreserves ==
  ASSUME IInv, NEW t \in Clients, EnumerateReturn(t)
  PROVE  IInv'
<1>1. scanVars' \in [Clients -> SUBSET Aggregates] \X [Clients -> SUBSET Aggregates]
                       \X [Clients -> SUBSET Aggregates]
  BY DEF IInv, TypeOK, EnumerateReturn, scanVars
<1>2. ScanInv'
  BY DEF IInv, TypeOK, ScanInv, EnumerateReturn, storeVars
<1>3. EnumerateCoversCommitted'
  BY DEF IInv, TypeOK, EnumerateCoversCommitted, EnumerateReturn
<1> QED
  BY <1>1, <1>2, <1>3, ScanPreserves DEF IInv, TypeOK, EnumerateReturn

----------------------------------------------------------------------------

LEMMA NextIInv == IInv /\ [Next]_vars => IInv'
<1> SUFFICES ASSUME IInv, [Next]_vars PROVE IInv'
  OBVIOUS
<1>1. ASSUME NEW t \in Clients, NEW a \in Aggregates,
             NEW e \in KnownRevisions \cup {None}, NEW n \in 0..MaxBatch,
             Publish(t, a, e, n)
      PROVE  IInv'
  BY <1>1, PublishPreserves
<1>2. ASSUME NEW t \in Clients, NEW a \in Aggregates, Load(t, a) PROVE IInv'
  BY <1>2, LoadPreserves
<1>3. ASSUME NEW t \in Clients, NEW wanted \in SUBSET Aggregates, Enumerate(t, wanted)
      PROVE  IInv'
  BY <1>3, EnumeratePreserves
<1>4. ASSUME NEW t \in Clients, Proceed(t) PROVE IInv'
  BY <1>4, ResolvePreserves, StreamForPreserves, LockStreamPreserves,
     CheckRevisionPreserves, MintEventIdsPreserves, AppendEventsPreserves,
     ReturnPreserves, GetPreserves, ReadPreserves, VisitPreserves,
     EnumerateReturnPreserves DEF Proceed
<1>5. CASE UNCHANGED vars
  <2>1. TypeOK' /\ CallInv' /\ GuardInv' /\ CheckedInv' /\ MintedInv' /\ FreshInv'
    BY <1>5 DEF vars, storeVars, scanVars, IInv, TypeOK, CallInv, GuardInv, CheckedInv,
                MintedInv, FreshInv, Agg
  <2>2. /\ StoredInv' /\ ScanInv' /\ StreamMonotonic' /\ ExpectedRevisionHonoured'
        /\ ConflictMeansStale' /\ EnumerateCoversCommitted'
    BY <1>5 DEF vars, storeVars, scanVars, IInv, StoredInv, ScanInv, StreamMonotonic,
                ExpectedRevisionHonoured, ConflictMeansStale, EnumerateCoversCommitted, Agg
  <2> QED
    BY <2>1, <2>2 DEF IInv
<1> QED
  BY <1>1, <1>2, <1>3, <1>4, <1>5 DEF Next

\* The invariant holds in every reachable state.
THEOREM Invariance == Spec => []IInv
  BY InitIInv, NextIInv, PTL DEF Spec

\* Type correctness of every variable of the in-memory store.
THEOREM TypeCorrect == Spec => []TypeOK
<1>1. IInv => TypeOK
  BY DEF IInv
<1> QED
  BY <1>1, Invariance, PTL

\* Revisions of a stream increase although threads share one generator:
\* minting under the stream's write guard is enough.
THEOREM Monotonicity == Spec => []StreamMonotonic
<1>1. IInv => StreamMonotonic
  BY DEF IInv
<1> QED
  BY <1>1, Invariance, PTL

\* Every accepted batch directly follows the revision it was published under.
THEOREM OptimisticConcurrency == Spec => []ExpectedRevisionHonoured
<1>1. IInv => ExpectedRevisionHonoured
  BY DEF IInv
<1> QED
  BY <1>1, Invariance, PTL

\* A RevisionConflict is never spurious.
THEOREM ConflictsAreReal == Spec => []ConflictMeansStale
<1>1. IInv => ConflictMeansStale
  BY DEF IInv
<1> QED
  BY <1>1, Invariance, PTL

\* Enumeration misses no aggregate that already had events.
THEOREM EnumerationComplete == Spec => []EnumerateCoversCommitted
<1>1. IInv => EnumerateCoversCommitted
  BY DEF IInv
<1> QED
  BY <1>1, Invariance, PTL

----------------------------------------------------------------------------
(* Refinement: the operators of the instance are those of EventModel. *)

LEMMA SameOperators ==
  /\ ES!Request = Request
  /\ ES!Revisions = Revisions
  /\ ES!Zero = Zero
  /\ \A s : ES!RevisionOf(s) = RevisionOf(s)
  /\ \A revs, e : ES!Batch(revs, e) = Batch(revs, e)
  /\ \A revs : ES!Increasing(revs) <=> Increasing(revs)
  /\ \A kind, rev, events : ES!Answer(kind, rev, events) = Answer(kind, rev, events)
<1>1. ES!Zero = Zero /\ ES!Revisions = Revisions
  BY DEF ES!Zero, Zero, ES!Revisions, Revisions
<1>2. ES!Expected = Expected
  BY <1>1 DEF ES!Expected, Expected
<1>3. ES!Request = Request
  BY <1>2 DEF ES!Request, Request, ES!PublishRequest, PublishRequest, ES!LoadRequest,
              LoadRequest
<1>4. \A s : ES!RevisionOf(s) = RevisionOf(s)
  BY <1>1 DEF ES!RevisionOf, RevisionOf
<1>5. \A revs, e : ES!Batch(revs, e) = Batch(revs, e)
  BY DEF ES!Batch, Batch
<1>6. \A revs : ES!Increasing(revs) <=> Increasing(revs)
  BY DEF ES!Increasing, Increasing
<1>7. \A kind, rev, events : ES!Answer(kind, rev, events) = Answer(kind, rev, events)
  BY DEF ES!Answer, Answer
<1> QED
  BY <1>1, <1>3, <1>4, <1>5, <1>6, <1>7

LEMMA RefinesInit == Init => ES!Init
  BY DEF Init, ES!Init

\* A new call is an invocation.
LEMMA InvokeRefines ==
  ASSUME IInv, NEW t \in Clients, NEW request \in Request, pc[t] = "idle",
         call' = [call EXCEPT ![t] = request], UNCHANGED <<stream, reply>>
  PROVE  ES!Next
<1>1. call[t] = None
  BY DEF IInv, CallInv
<1>2. ES!Invoke(t, request)
  BY <1>1 DEF ES!Invoke
<1> QED
  BY <1>2, SameOperators DEF ES!Next

\* A thread that takes effect has been invoked and has not answered yet.
LEMMA PendingCall ==
  ASSUME IInv, NEW t \in Clients, pc[t] \in Publishing \cup {"get", "read"}
  PROVE  call[t] # None /\ reply[t] = None /\ ES!Pending(t, call[t].op)
  BY DEF IInv, CallInv, Publishing, ES!Pending

\* A RevisionConflict takes effect where the current revision was read.
LEMMA ConflictRefines ==
  ASSUME IInv, NEW t \in Clients, pc[t] \in {"resolve", "check"},
         call[t].expected \notin {None, RevisionOf(stream[Agg(t)])},
         reply' = [reply EXCEPT ![t] =
                     Answer("conflict", RevisionOf(stream[Agg(t)]), <<>>)],
         UNCHANGED <<stream, call>>
  PROVE  ES!Next
<1>1. ES!Pending(t, "publish") /\ call[t].n > 0
  BY PendingCall DEF IInv, CallInv, Publishing
<1>2. ES!Conflict(t)
  BY <1>1, SameOperators DEF ES!Conflict, Agg
<1> QED
  BY <1>2 DEF ES!Next

LEMMA ResolveRefines ==
  ASSUME IInv, NEW t \in Clients, Resolve(t)
  PROVE  [ES!Next]_(ES!vars)
<1>1. pc[t] = "resolve" /\ UNCHANGED <<stream, call>>
  BY DEF Resolve, storeVars
<1>2. CASE Goto(t, "lock") \/ Goto(t, "insert")
  BY <1>1, <1>2 DEF Goto, ES!vars
<1>3. CASE /\ Agg(t) \notin present
           /\ call[t].expected \notin {None, Zero}
           /\ Finish(t, Answer("conflict", Zero, <<>>))
  <2>1. RevisionOf(stream[Agg(t)]) = Zero
    BY <1>1, <1>3, CallFacts, AbsentIsEmpty
  <2> QED
    BY <1>1, <1>3, <2>1, ConflictRefines DEF Finish
<1> QED
  BY <1>2, <1>3 DEF Resolve

LEMMA CheckRevisionRefines ==
  ASSUME IInv, NEW t \in Clients, CheckRevision(t)
  PROVE  [ES!Next]_(ES!vars)
<1>1. pc[t] = "check" /\ UNCHANGED <<stream, call>>
  BY DEF CheckRevision, storeVars
<1>2. CASE Goto(t, "mint")
  BY <1>1, <1>2 DEF Goto, ES!vars
<1>3. CASE /\ call[t].expected \notin {None, RevisionOf(stream[Agg(t)])}
           /\ Finish(t, Answer("conflict", RevisionOf(stream[Agg(t)]), <<>>))
  BY <1>1, <1>3, ConflictRefines DEF Finish
<1> QED
  BY <1>2, <1>3 DEF CheckRevision

\* A publish fails when the generator overflows, and then nothing is stored.
LEMMA MintEventIdsRefines ==
  ASSUME IInv, NEW t \in Clients, MintEventIds(t)
  PROVE  [ES!Next]_(ES!vars)
<1>1. pc[t] = "mint" /\ UNCHANGED <<stream, call>>
  BY DEF MintEventIds
<1>2. CASE Goto(t, "append")
  BY <1>1, <1>2 DEF Goto, ES!vars
<1>3. CASE Finish(t, Answer("failed", Zero, <<>>))
  <2>1. ES!Pending(t, "publish")
    BY <1>1, PendingCall DEF IInv, CallInv, Publishing
  <2>2. ES!Fail(t)
    BY <1>1, <1>3, <2>1, SameOperators DEF ES!Fail, Finish
  <2> QED
    BY <2>2 DEF ES!Next
<1> QED
  BY <1>2, <1>3 DEF MintEventIds

\* Appending is where an accepted publish takes effect.
LEMMA AppendEventsRefines ==
  ASSUME IInv, NEW t \in Clients, AppendEvents(t)
  PROVE  [ES!Next]_(ES!vars)
<1> DEFINE a == Agg(t)
           revs == minted[t]
           batch == Batch(revs, call[t].expected)
<1>1. /\ pc[t] = "append"
      /\ UNCHANGED call
      /\ stream' = [stream EXCEPT ![a] = @ \o batch]
      /\ reply' = [reply EXCEPT ![t] = Answer("ok", revs[Len(revs)], batch)]
  BY DEF AppendEvents, Finish
<1>2. ES!Pending(t, "publish") /\ call[t].n > 0
  BY <1>1, PendingCall DEF IInv, CallInv, Publishing
<1>3. call[t].expected \in {None, RevisionOf(stream[a])}
  BY <1>1 DEF IInv, CheckedInv
<1>4. /\ Len(revs) = call[t].n
      /\ Increasing(revs)
      /\ \A i \in 1..Len(revs) : revs[i] > RevisionOf(stream[a])
      /\ revs \in Seq(Revisions)
  BY <1>1 DEF IInv, TypeOK, MintedInv
<1>5. ES!Commit(t, revs)
  BY <1>1, <1>2, <1>3, <1>4, SameOperators DEF ES!Commit, Agg
<1>6. call[t].n \in 1..MaxBatch
  <2>1. call[t].n \in 0..MaxBatch
    BY <1>1, CallFacts
  <2> QED
    BY <1>2, <2>1, MaxBatchAssumption
<1>7. revs \in [1..call[t].n -> Revisions]
  BY <1>4
<1> QED
  BY <1>5, <1>6, <1>7, SameOperators DEF ES!Next

LEMMA ReturnRefines ==
  ASSUME IInv, NEW t \in Clients, Return(t)
  PROVE  ES!Next
<1>1. pc[t] = "return" /\ call[t] # None
  BY DEF Return, IInv, CallInv
<1>2. ES!Return(t)
  BY <1>1 DEF Return, ES!Return
<1> QED
  BY <1>2 DEF ES!Next

\* A load or an empty publish takes effect where it sees the stream.
LEMMA ViewRefines ==
  ASSUME IInv, NEW t \in Clients, pc[t] \in {"get", "read"},
         Finish(t, View(t, stream[Agg(t)])), UNCHANGED <<stream, call>>
  PROVE  ES!Next
<1> DEFINE s == stream[Agg(t)]
<1>1. ES!Pending(t, call[t].op) /\ call[t].n = 0 /\ call[t] \in Request
  BY PendingCall, CallFacts DEF IInv, CallInv
<1>2. CASE call[t].op = "load"
  <2>1. reply' = [reply EXCEPT ![t] = Answer("loaded", RevisionOf(s), s)]
    BY <1>2 DEF Finish, View
  <2>2. ES!Load(t)
    BY <1>1, <1>2, <2>1, SameOperators DEF ES!Load, Agg
  <2> QED
    BY <2>2 DEF ES!Next
<1>3. CASE call[t].op # "load"
  <2>1. reply' = [reply EXCEPT ![t] = Answer("ok", RevisionOf(s), <<>>)]
    BY <1>3 DEF Finish, View
  <2>2. call[t].op = "publish"
    BY <1>1, <1>3 DEF Request, PublishRequest, LoadRequest
  <2>3. ES!PublishNothing(t)
    BY <1>1, <2>1, <2>2, SameOperators DEF ES!PublishNothing, Agg
  <2> QED
    BY <2>3 DEF ES!Next
<1> QED
  BY <1>2, <1>3

LEMMA GetRefines ==
  ASSUME IInv, NEW t \in Clients, Get(t)
  PROVE  [ES!Next]_(ES!vars)
<1>1. pc[t] = "get" /\ UNCHANGED <<stream, call>>
  BY DEF Get, storeVars
<1>2. CASE Agg(t) \in present
  BY <1>1, <1>2 DEF Get, Goto, ES!vars
<1>3. CASE Agg(t) \notin present
  <2>1. stream[Agg(t)] = <<>>
    BY <1>1, <1>3, CallFacts, AbsentIsEmpty
  <2> QED
    BY <1>1, <1>3, <2>1, ViewRefines DEF Get
<1> QED
  BY <1>2, <1>3

LEMMA ReadRefines ==
  ASSUME IInv, NEW t \in Clients, Read(t)
  PROVE  ES!Next
  BY ViewRefines DEF Read, storeVars

LEMMA PublishRefines ==
  ASSUME IInv, NEW t \in Clients, NEW a \in Aggregates,
         NEW e \in KnownRevisions \cup {None}, NEW n \in 0..MaxBatch,
         Publish(t, a, e, n)
  PROVE  ES!Next
<1> DEFINE request == [op |-> "publish", agg |-> a, expected |-> e, n |-> n]
<1>1. e \in Expected
  BY KnownRevisionFacts DEF Expected
<1>2. request \in Request
  BY <1>1 DEF Request, PublishRequest
<1>3. /\ pc[t] = "idle"
      /\ call' = [call EXCEPT ![t] = request]
      /\ UNCHANGED <<stream, reply>>
  BY DEF Publish, Begin, storeVars
<1> HIDE DEF request
<1> QED
  BY <1>2, <1>3, InvokeRefines

LEMMA LoadRefines ==
  ASSUME IInv, NEW t \in Clients, NEW a \in Aggregates, Load(t, a)
  PROVE  ES!Next
<1> DEFINE request == [op |-> "load", agg |-> a, expected |-> None, n |-> 0]
<1>1. request \in Request
  BY DEF Request, LoadRequest
<1>2. /\ pc[t] = "idle"
      /\ call' = [call EXCEPT ![t] = request]
      /\ UNCHANGED <<stream, reply>>
  BY DEF Load, Begin, storeVars
<1> HIDE DEF request
<1> QED
  BY <1>1, <1>2, InvokeRefines

LEMMA RefinesNext == IInv /\ [Next]_vars => [ES!Next]_(ES!vars)
<1> SUFFICES ASSUME IInv, [Next]_vars PROVE [ES!Next]_(ES!vars)
  OBVIOUS
<1>1. ASSUME NEW t \in Clients, NEW a \in Aggregates,
             NEW e \in KnownRevisions \cup {None}, NEW n \in 0..MaxBatch,
             Publish(t, a, e, n)
      PROVE  ES!Next
  BY <1>1, PublishRefines
<1>2. ASSUME NEW t \in Clients, NEW a \in Aggregates, Load(t, a) PROVE ES!Next
  BY <1>2, LoadRefines
<1>3. ASSUME NEW t \in Clients, NEW wanted \in SUBSET Aggregates, Enumerate(t, wanted)
      PROVE  UNCHANGED ES!vars
  BY <1>3 DEF Enumerate, storeVars, ES!vars
<1>4. ASSUME NEW t \in Clients, Proceed(t) PROVE [ES!Next]_(ES!vars)
  <2>1. CASE StreamFor(t) \/ LockStream(t)
    BY <2>1 DEF StreamFor, LockStream, Goto, ES!vars
  <2>2. CASE EnumerateReturn(t) \/ \E a \in Aggregates : Visit(t, a)
    BY <2>2 DEF EnumerateReturn, Visit, storeVars, ES!vars
  <2>3. CASE Resolve(t) \/ CheckRevision(t) \/ MintEventIds(t) \/ AppendEvents(t)
    BY <2>3, ResolveRefines, CheckRevisionRefines, MintEventIdsRefines, AppendEventsRefines
  <2>4. CASE Return(t) \/ Get(t) \/ Read(t)
    BY <2>4, ReturnRefines, GetRefines, ReadRefines
  <2> QED
    BY <1>4, <2>1, <2>2, <2>3, <2>4 DEF Proceed
<1>5. CASE UNCHANGED vars
  BY <1>5 DEF vars, storeVars, ES!vars
<1> QED
  BY <1>1, <1>2, <1>3, <1>4, <1>5 DEF Next

\* The in-memory store implements the EventStore promise: each load, publish
\* and conflict takes effect at one instant, in full or not at all.
THEOREM Refinement == Spec => Linearizable
  BY RefinesInit, RefinesNext, Invariance, PTL DEF Spec, Linearizable, ES!Spec

=============================================================================
