---------------------------- MODULE Parts_proofs ----------------------------
(***************************************************************************)
(* What the parts promise that share no state with a store's inside:       *)
(* SchemaMigration for any openers, versions and faults; RestateClient for *)
(* any callers, intents and keys; ServiceMacro for any declarations and    *)
(* functions; PartitionNames for any ids, prefixes and hashes.             *)
(***************************************************************************)
EXTENDS SchemaMigration, RestateClient, ServiceMacro, PartitionNames,
        FiniteSetTheorems, SequenceTheorems, WellFoundedInduction, TLAPS

----------------------------------------------------------------------------
(* SchemaMigration: what openers have read, and what is done               *)

\* What an opener has read still holds when it acts on it: tables are never
\* dropped, so the migrations it leaves out have been done.
ReadIsDone ==
  \A o \in Openers :
    pc[o] \in {"begin", "record", "commit"} => 1..current[o] \subseteq tables

\* An opener about to commit has the write lock.
CommitterWrites == \A o \in Openers : pc[o] = "commit" => writer = o

IInv == TypeOK /\ CommitterWrites /\ VersionMeansTables /\ ReadIsDone /\ OpenMeansMigrated

LEMMA InitIInv == Init => IInv
<1> SUFFICES ASSUME Init PROVE IInv
  OBVIOUS
<1>1. TypeOK
  <2>1. versionTable \in BOOLEAN /\ writer = None /\ tables \subseteq 1..MaxVersion
    BY DEF Init
  <2>2. /\ version \in 0..MaxVersion /\ commits \in Nat /\ faults \in 0..MaxFaults
        /\ current \in [Openers -> 0..MaxVersion] /\ snapshot \in [Openers -> Nat]
    BY VersionAssumption DEF Init
  <2>3. pc \in [Openers -> {"start", "read", "begin", "record", "commit", "open", "failed"}]
    BY DEF Init
  <2> QED BY <2>1, <2>2, <2>3 DEF TypeOK
<1>2. VersionMeansTables
  BY DEF Init, VersionMeansTables
<1>3. CommitterWrites /\ ReadIsDone /\ OpenMeansMigrated
  BY DEF Init, CommitterWrites, ReadIsDone, OpenMeansMigrated
<1> QED BY <1>1, <1>2, <1>3 DEF IInv

\* A step that leaves the database file's contents alone and does not bring an
\* opener to a place that promises something keeps the promises.
LEMMA QuietStep ==
  ASSUME IInv, NEW o \in Openers,
         UNCHANGED <<tables, version, current>>,
         \/ /\ Goto(o, "failed")
         \/ /\ Goto(o, "record")
            /\ pc[o] = "begin"
         \/ /\ Goto(o, "commit")
            /\ pc[o] = "record"
         \/ /\ Goto(o, "read")
         \/ /\ Goto(o, "start")
  PROVE  VersionMeansTables' /\ ReadIsDone' /\ OpenMeansMigrated'
BY DEF IInv, TypeOK, Goto, VersionMeansTables, ReadIsDone, OpenMeansMigrated

\* Closing a connection keeps the invariant.
LEMMA CloseStep ==
  ASSUME IInv, NEW o \in Openers, Close(o), faults' \in 0..MaxFaults
  PROVE  IInv'
<1>1. TypeOK' /\ CommitterWrites'
  BY VersionAssumption DEF IInv, TypeOK, CommitterWrites, Close, Goto
<1>2. VersionMeansTables' /\ ReadIsDone' /\ OpenMeansMigrated'
  BY QuietStep DEF Close
<1> QED BY <1>1, <1>2 DEF IInv

LEMMA NextIInv == IInv /\ [Next]_vars => IInv'
<1> SUFFICES ASSUME IInv, [Next]_vars PROVE IInv'
  OBVIOUS
<1> USE VersionAssumption
<1>1. ASSUME NEW o \in Openers, CreateVersionTable(o) PROVE IInv'
  <2>1. TypeOK' /\ CommitterWrites'
    BY <1>1 DEF IInv, TypeOK, CommitterWrites, CreateVersionTable, Goto
  <2>2. VersionMeansTables' /\ ReadIsDone' /\ OpenMeansMigrated'
    BY <1>1, QuietStep DEF CreateVersionTable
  <2> QED BY <2>1, <2>2 DEF IInv
<1>2. ASSUME NEW o \in Openers, ReadVersion(o) PROVE IInv'
  <2>1. TypeOK' /\ CommitterWrites'
    BY <1>2 DEF IInv, TypeOK, CommitterWrites, ReadVersion, Goto, database
  <2>2. VersionMeansTables'
    BY <1>2 DEF IInv, VersionMeansTables, ReadVersion, database
  <2>3. ReadIsDone'
    BY <1>2 DEF IInv, TypeOK, ReadIsDone, VersionMeansTables, ReadVersion, Goto, database
  <2>4. OpenMeansMigrated'
    <3>1. version >= TargetOf[o] => 1..TargetOf[o] \subseteq 1..version
      BY DEF IInv, TypeOK
    <3> QED
      BY <1>2, <3>1
      DEF IInv, TypeOK, OpenMeansMigrated, VersionMeansTables, ReadVersion, Goto, database
  <2> QED BY <2>1, <2>2, <2>3, <2>4 DEF IInv
<1>3. ASSUME NEW o \in Openers, BeginWithoutChange(o) PROVE IInv'
  <2>1. TypeOK' /\ CommitterWrites'
    BY <1>3 DEF IInv, TypeOK, CommitterWrites, BeginWithoutChange, Goto, database
  <2>2. VersionMeansTables' /\ ReadIsDone' /\ OpenMeansMigrated'
    BY <1>3, QuietStep DEF BeginWithoutChange, database
  <2> QED BY <2>1, <2>2 DEF IInv
<1>4. ASSUME NEW o \in Openers, BeginAndCreate(o) PROVE IInv'
  <2>1. TypeOK' /\ CommitterWrites'
    BY <1>4 DEF IInv, TypeOK, CommitterWrites, BeginAndCreate, Goto
  <2>2. VersionMeansTables' /\ ReadIsDone' /\ OpenMeansMigrated'
    BY <1>4, QuietStep DEF BeginAndCreate
  <2> QED BY <2>1, <2>2 DEF IInv
<1>5. ASSUME NEW o \in Openers, RecordVersion(o) PROVE IInv'
  <2>1. TypeOK' /\ CommitterWrites'
    BY <1>5 DEF IInv, TypeOK, CommitterWrites, RecordVersion, Goto
  <2>2. VersionMeansTables' /\ ReadIsDone' /\ OpenMeansMigrated'
    BY <1>5, QuietStep DEF RecordVersion
  <2> QED BY <2>1, <2>2 DEF IInv
<1>6. ASSUME NEW o \in Openers, Commit(o) PROVE IInv'
  <2>1. writer = o
    BY <1>6 DEF IInv, CommitterWrites, Commit
  <2>2. TypeOK' /\ CommitterWrites'
    <3>1. TargetOf[o] \in 1..MaxVersion /\ current[o] \in 0..MaxVersion
      BY DEF IInv, TypeOK
    <3>2. Migrations(o) \subseteq 1..MaxVersion /\ TargetOf[o] \in 0..MaxVersion
      BY <3>1 DEF Migrations
    <3>3. TypeOK'
      <4>1. /\ versionTable' \in BOOLEAN
            /\ tables' \subseteq 1..MaxVersion
        BY <1>6, <3>2 DEF IInv, TypeOK, Commit
      <4>2. /\ version' \in 0..MaxVersion
            /\ commits' \in Nat
            /\ faults' \in 0..MaxFaults
        BY <1>6, <3>2 DEF IInv, TypeOK, Commit
      <4>3. /\ current' \in [Openers -> 0..MaxVersion]
            /\ snapshot' \in [Openers -> Nat]
            /\ pc' \in [Openers -> {"start", "read", "begin", "record", "commit", "open", "failed"}]
            /\ writer' = None
        BY <1>6 DEF IInv, TypeOK, Commit, Goto
      <4> QED BY <4>1, <4>2, <4>3 DEF TypeOK
    <3>4. CommitterWrites'
      <4> SUFFICES ASSUME NEW q \in Openers, pc'[q] = "commit" PROVE FALSE
        BY DEF CommitterWrites
      <4>1. q # o /\ pc[q] = "commit"
        BY <1>6 DEF IInv, TypeOK, Commit, Goto
      <4> QED BY <2>1, <4>1 DEF IInv, CommitterWrites
    <3> QED BY <3>3, <3>4
  <2>3. tables \subseteq tables'
    BY <1>6 DEF Commit
  <2>4. 1..TargetOf[o] \subseteq tables'
    <3>1. 1..current[o] \subseteq tables
      BY <1>6 DEF IInv, ReadIsDone, Commit
    <3>2. 1..TargetOf[o] \subseteq (1..current[o]) \cup ((current[o] + 1)..TargetOf[o])
      BY DEF IInv, TypeOK
    <3> QED BY <1>6, <3>1, <3>2 DEF Commit, Migrations
  <2>5. VersionMeansTables'
    BY <1>6, <2>4 DEF VersionMeansTables, Commit
  <2>6. ReadIsDone'
    BY <1>6, <2>3 DEF IInv, TypeOK, ReadIsDone, Commit, Goto
  <2>7. OpenMeansMigrated'
    BY <1>6, <2>3, <2>4 DEF IInv, TypeOK, OpenMeansMigrated, Commit, Goto
  <2> QED BY <2>2, <2>5, <2>6, <2>7 DEF IInv
<1>7. ASSUME NEW o \in Openers, Refused(o) PROVE IInv'
  BY <1>7, CloseStep DEF Refused, IInv, TypeOK
<1>8. ASSUME NEW o \in Openers, DatabaseBusy(o) PROVE IInv'
  BY <1>8, CloseStep DEF DatabaseBusy, IInv, TypeOK
<1>9. ASSUME NEW o \in Openers, Fail(o) PROVE IInv'
  BY <1>9, CloseStep DEF Fail, IInv, TypeOK
<1>10. ASSUME NEW o \in Openers, Reopen(o) PROVE IInv'
  <2>1. TypeOK' /\ CommitterWrites'
    BY <1>10 DEF IInv, TypeOK, CommitterWrites, Reopen, Goto, database
  <2>2. VersionMeansTables' /\ ReadIsDone' /\ OpenMeansMigrated'
    BY <1>10
    DEF IInv, TypeOK, VersionMeansTables, ReadIsDone, OpenMeansMigrated, Reopen, Goto, database
  <2> QED BY <2>1, <2>2 DEF IInv
<1>11. CASE UNCHANGED vars
  BY <1>11
  DEF IInv, TypeOK, CommitterWrites, VersionMeansTables, ReadIsDone, OpenMeansMigrated,
      vars, database
<1> QED
  BY <1>1, <1>2, <1>3, <1>4, <1>5, <1>6, <1>7, <1>8, <1>9, <1>10, <1>11
  DEF Next, Proceed

LEMMA Inductive == Spec => []IInv
BY InitIInv, NextIInv, PTL DEF Spec

\* An opened database has all tables of the binary that opened it, for any
\* number of openers of any versions: the value of current that
\* migrate_schema() read before BEGIN may be out of date, but is not wrong.
THEOREM Migrated == Spec => []OpenMeansMigrated
<1>1. IInv => OpenMeansMigrated
  BY DEF IInv
<1> QED BY Inductive, <1>1, PTL

\* The recorded version never promises a table there is not, so migrate_schema()
\* never skips one that is needed.
THEOREM VersionHonest == Spec => [](TypeOK /\ VersionMeansTables)
<1>1. IInv => TypeOK /\ VersionMeansTables
  BY DEF IInv
<1> QED BY Inductive, <1>1, PTL

----------------------------------------------------------------------------
(* RestateClient: who asks for a workflow, and what it came to             *)

Bodies == [ok : BOOLEAN, form : {"entity", "envelope"},
           rejection : Intents \cup {NoKey}, of : Intents]
Results == [kind : {"entity", "rejection", "backend", "transport", "decode"},
            of : Intents \cup {NoKey}]

ClientTypeOK ==
  /\ intent \in [Callers -> Intents \cup {NoKey}]
  /\ waiting \in [Callers -> Nat \cup {NoKey}]
  /\ answered \in [Callers -> Bodies \cup {NoKey}]
  /\ returned \in [Callers -> Results \cup {NoKey}]
  /\ sends \in Nat
  /\ \A r \in requests : r.intent \in Intents /\ r.n \in 1..sends
  /\ \A id \in DOMAIN runs : runs[id].intent \in Intents /\ runs[id].outcome \in Outcomes

\* The workflow that is asked for when i is wanted, in the n-th request.
WorkflowId(i, n) == IF KeyOf[i] = NoKey THEN n ELSE KeyOf[i]

\* Workflow id has run, for an intent that i shares its key with.
RanFor(id, i) ==
  /\ id \in DOMAIN runs
  /\ KeyOf[runs[id].intent] = KeyOf[i]
  /\ KeyOf[i] = NoKey => runs[id].intent = i

\* A request names its workflow, and is the only one of its number.
RequestsNamed ==
  /\ \A r \in requests : r.id = WorkflowId(r.intent, r.n)
  /\ \A r \in requests : r.id \in DOMAIN runs => RanFor(r.id, r.intent)
  /\ \A r, s \in requests : r.n = s.n => r.intent = s.intent

\* A workflow has run for an intent that names it.
RunsNamed ==
  \A id \in DOMAIN runs : \E n \in 1..sends : id = WorkflowId(runs[id].intent, n)

\* A caller that wants nothing waits for nothing; another hears of a run of its
\* own intent.
CallerOf(c) ==
  /\ intent[c] = NoKey => waiting[c] = NoKey /\ answered[c] = NoKey /\ returned[c] = NoKey
  /\ returned[c] # NoKey => waiting[c] = NoKey /\ answered[c] = NoKey
  /\ waiting[c] # NoKey => waiting[c] \in 1..sends
  /\ \A r \in requests : r.n = waiting[c] => r.intent = intent[c]
  /\ answered[c] # NoKey =>
       \E id \in DOMAIN runs : /\ RanFor(id, intent[c])
                               /\ answered[c] = Body(runs[id].outcome, runs[id].intent)
  /\ returned[c] # NoKey /\ ~TellsNothing(intent[c], returned[c]) =>
       \E id \in DOMAIN runs : RanFor(id, intent[c]) /\ returned[c] \in MayBeTold(id)

ClientIInv ==
  ClientTypeOK /\ RequestsNamed /\ RunsNamed /\ \A c \in Callers : CallerOf(c)

LEMMA ClientInitInv == ClientInit => ClientIInv
  BY KeyAssumption DEF ClientInit, ClientIInv, ClientTypeOK, RequestsNamed, RunsNamed, CallerOf

\* A caller whom a step leaves alone, though it may ask for something new.
LEMMA CallerStays ==
  ASSUME ClientIInv, NEW c \in Callers, sends' \in Nat, sends <= sends',
         runs' = runs,
         \A r \in requests' : r \in requests \/ r.n = sends + 1,
         intent'[c] = intent[c], waiting'[c] = waiting[c],
         answered'[c] = answered[c], returned'[c] = returned[c]
  PROVE  CallerOf(c)'
<1>1. CallerOf(c) /\ sends \in Nat /\ (waiting[c] # NoKey => waiting[c] \in 1..sends')
  BY DEF ClientIInv, ClientTypeOK, CallerOf
<1>2. sends + 1 # waiting[c]
  BY <1>1, KeyAssumption DEF CallerOf
<1>3. \A r \in requests' : r.n = waiting[c] => r.intent = intent[c]
  BY <1>1, <1>2 DEF CallerOf
<1>4. \A id : RanFor(id, intent[c])' <=> RanFor(id, intent[c])
  BY DEF RanFor
<1>5. \A id : MayBeTold(id)' = MayBeTold(id)
  BY DEF MayBeTold
<1>6. answered[c] # NoKey =>
        \E id \in DOMAIN runs' : /\ RanFor(id, intent[c])'
                                 /\ answered[c] = Body(runs'[id].outcome, runs'[id].intent)
  BY <1>1, <1>4 DEF CallerOf
<1>7. returned[c] # NoKey /\ ~TellsNothing(intent[c], returned[c]) =>
        \E id \in DOMAIN runs' : RanFor(id, intent[c])' /\ returned[c] \in MayBeTold(id)'
  BY <1>1, <1>4, <1>5 DEF CallerOf
<1> QED
  BY <1>1, <1>3, <1>6, <1>7 DEF CallerOf, Body, EntityBody, ErrorBody, RanFor, TellsNothing

LEMMA PostPreserves ==
  ASSUME ClientIInv, NEW c \in Callers, NEW i \in Intents,
         Post(c, i, WorkflowId(i, sends + 1))
  PROVE  ClientIInv'
<1> DEFINE asked == [n |-> sends + 1, id |-> WorkflowId(i, sends + 1), intent |-> i]
<1>1. /\ intent[c] = NoKey /\ sends' = sends + 1 /\ intent' = [intent EXCEPT ![c] = i]
      /\ waiting' = [waiting EXCEPT ![c] = sends + 1] /\ requests' = requests \cup {asked}
      /\ UNCHANGED <<answered, returned, runs>>
  BY DEF Post
<1>2. /\ asked.n = sends + 1 /\ asked.id = WorkflowId(i, sends + 1) /\ asked.intent = i
  OBVIOUS
<1> HIDE DEF asked
<1>3. sends \in Nat /\ \A r \in requests : r.n \in 1..sends /\ r.intent \in Intents
  BY DEF ClientIInv, ClientTypeOK
<1>4. ClientTypeOK'
  BY <1>1, <1>2, <1>3 DEF ClientIInv, ClientTypeOK
<1>5. RunsNamed'
  BY <1>1, <1>3 DEF ClientIInv, RunsNamed
<1>6. asked.id \in DOMAIN runs => RanFor(asked.id, i)
  <2> SUFFICES ASSUME asked.id \in DOMAIN runs PROVE RanFor(asked.id, i)
    OBVIOUS
  <2>1. PICK n \in 1..sends : asked.id = WorkflowId(runs[asked.id].intent, n)
    BY DEF ClientIInv, RunsNamed
  <2>2. runs[asked.id].intent \in Intents
    BY DEF ClientIInv, ClientTypeOK
  <2>3. KeyOf[i] # NoKey /\ KeyOf[runs[asked.id].intent] = KeyOf[i]
    BY <1>2, <1>3, <2>1, <2>2, KeyAssumption DEF WorkflowId
  <2> QED
    BY <2>3 DEF RanFor
<1>7. RequestsNamed'
  <2>1. \A r \in requests' : r.id = WorkflowId(r.intent, r.n)
    BY <1>1, <1>2 DEF ClientIInv, RequestsNamed
  <2>2. \A r \in requests' : r.id \in DOMAIN runs => RanFor(r.id, r.intent)
    BY <1>1, <1>2, <1>6 DEF ClientIInv, RequestsNamed
  <2>3. \A r, s \in requests' : r.n = s.n => r.intent = s.intent
    BY <1>1, <1>2, <1>3 DEF ClientIInv, RequestsNamed
  <2> QED
    BY <1>1, <2>1, <2>2, <2>3 DEF RequestsNamed, RanFor
<1>8. ASSUME NEW d \in Callers PROVE CallerOf(d)'
  <2>1. CASE d = c
    <3>1. intent'[c] = i /\ waiting'[c] = sends + 1 /\ answered'[c] = NoKey /\ returned'[c] = NoKey
      BY <1>1 DEF ClientIInv, ClientTypeOK, CallerOf
    <3>2. \A r \in requests' : r.n = sends + 1 => r.intent = i
      BY <1>1, <1>2, <1>3
    <3> QED
      BY <1>1, <1>3, <2>1, <3>1, <3>2, KeyAssumption DEF CallerOf
  <2>2. CASE d # c
    <3>1. /\ intent'[d] = intent[d] /\ waiting'[d] = waiting[d]
          /\ answered'[d] = answered[d] /\ returned'[d] = returned[d]
      BY <1>1, <2>2 DEF ClientIInv, ClientTypeOK
    <3>2. \A r \in requests' : r \in requests \/ r.n = sends + 1
      BY <1>1, <1>2
    <3> QED
      BY <1>1, <1>3, <3>1, <3>2, CallerStays
  <2> QED
    BY <2>1, <2>2
<1> QED
  BY <1>4, <1>5, <1>7, <1>8 DEF ClientIInv

LEMMA ServesPreserves ==
  ASSUME ClientIInv, NEW request \in requests, NEW came \in Outcomes,
         ExecutorServes(request, came)
  PROVE  ClientIInv'
<1> DEFINE ran == request.id
<1>1. /\ runs' = Run(request, came) /\ requests' = requests \ {request}
      /\ ran \in DOMAIN runs => came = runs[ran].outcome
      /\ answered' = [c \in Callers |->
           IF waiting[c] = request.n THEN Body(came, runs'[ran].intent) ELSE answered[c]]
      /\ UNCHANGED <<intent, waiting, returned, sends>>
  BY DEF ExecutorServes
<1>2. /\ request.intent \in Intents /\ request.n \in 1..sends /\ sends \in Nat
      /\ ran = WorkflowId(request.intent, request.n)
      /\ ran \in DOMAIN runs => RanFor(ran, request.intent)
  BY DEF ClientIInv, ClientTypeOK, RequestsNamed
<1>3. /\ DOMAIN runs' = DOMAIN runs \cup {ran}
      /\ \A id \in DOMAIN runs : runs'[id] = runs[id]
      /\ ran \notin DOMAIN runs =>
           runs'[ran].intent = request.intent /\ runs'[ran].outcome = came
      /\ runs'[ran].outcome = came
  BY <1>1 DEF Run
<1>4. RanFor(ran, request.intent)'
  BY <1>1, <1>2, <1>3 DEF RanFor
<1>5. runs'[ran].intent \in Intents
  BY <1>2, <1>3 DEF ClientIInv, ClientTypeOK
<1>6. \A id \in DOMAIN runs : \A i \in Intents : RanFor(id, i) => RanFor(id, i)'
  BY <1>3 DEF RanFor
<1>7. ClientTypeOK'
  <2>1. Body(came, runs'[ran].intent) \in Bodies
    BY <1>5 DEF Body, EntityBody, ErrorBody, Bodies
  <2>2. answered' \in [Callers -> Bodies \cup {NoKey}]
    BY <1>1, <2>1 DEF ClientIInv, ClientTypeOK
  <2>3. \A id \in DOMAIN runs' : runs'[id].intent \in Intents /\ runs'[id].outcome \in Outcomes
    BY <1>3, <1>5 DEF ClientIInv, ClientTypeOK
  <2> QED
    BY <1>1, <2>2, <2>3 DEF ClientIInv, ClientTypeOK
<1>8. RunsNamed'
  BY <1>1, <1>2, <1>3 DEF ClientIInv, RunsNamed
<1>9. RequestsNamed'
  <2>1. ASSUME NEW r \in requests, r.id \in DOMAIN runs' PROVE RanFor(r.id, r.intent)'
    <3>1. CASE r.id \in DOMAIN runs
      BY <1>6, <3>1 DEF ClientIInv, RequestsNamed, ClientTypeOK
    <3>2. CASE r.id \notin DOMAIN runs
      <4>1. r.id = ran /\ r.id = WorkflowId(r.intent, r.n) /\ r.intent \in Intents /\ r.n \in Nat
        BY <1>3, <2>1, <3>2 DEF ClientIInv, RequestsNamed, ClientTypeOK
      <4>2. KeyOf[r.intent] = KeyOf[request.intent]
        BY <1>2, <4>1, KeyAssumption DEF WorkflowId
      <4>3. KeyOf[r.intent] = NoKey => r.intent = request.intent
        BY <1>2, <4>1, <4>2 DEF WorkflowId, ClientIInv, RequestsNamed
      <4> QED
        BY <1>4, <4>1, <4>2, <4>3 DEF RanFor
    <3> QED
      BY <3>1, <3>2
  <2> QED
    BY <1>1, <2>1 DEF ClientIInv, RequestsNamed
<1>10. ASSUME NEW c \in Callers PROVE CallerOf(c)'
  <2>1. CallerOf(c) /\ intent[c] \in Intents \cup {NoKey}
    BY DEF ClientIInv, ClientTypeOK
  <2>2. ASSUME answered'[c] # NoKey
        PROVE  \E id \in DOMAIN runs' : /\ RanFor(id, intent[c])'
                                        /\ answered'[c] = Body(runs'[id].outcome, runs'[id].intent)
    <3>1. CASE waiting[c] = request.n
      <4>1. intent[c] = request.intent /\ answered'[c] = Body(came, runs'[ran].intent)
        BY <1>1, <2>1, <3>1 DEF CallerOf
      <4> QED
        BY <1>1, <1>3, <1>4, <4>1
    <3>2. CASE waiting[c] # request.n
      <4>1. answered'[c] = answered[c]
        BY <1>1, <3>2
      <4>2. PICK id \in DOMAIN runs : /\ RanFor(id, intent[c])
                                      /\ answered[c] = Body(runs[id].outcome, runs[id].intent)
        BY <2>1, <2>2, <4>1 DEF CallerOf
      <4>3. id \in DOMAIN runs' /\ runs'[id] = runs[id] /\ RanFor(id, intent[c])'
        BY <1>1, <1>3, <4>2 DEF RanFor
      <4> QED
        BY <4>1, <4>2, <4>3
    <3> QED
      BY <3>1, <3>2
  <2>3. ASSUME returned[c] # NoKey, ~TellsNothing(intent[c], returned[c])
        PROVE  \E id \in DOMAIN runs' : RanFor(id, intent[c])' /\ returned[c] \in MayBeTold(id)'
    <3>1. PICK id \in DOMAIN runs : RanFor(id, intent[c]) /\ returned[c] \in MayBeTold(id)
      BY <2>1, <2>3 DEF CallerOf
    <3>2. runs'[id] = runs[id] /\ RanFor(id, intent[c])'
      BY <1>1, <1>3, <3>1 DEF RanFor
    <3> QED
      BY <1>3, <3>1, <3>2 DEF MayBeTold
  <2>4. waiting[c] = NoKey /\ answered[c] = NoKey => answered'[c] = NoKey
    BY <1>1, <1>2, KeyAssumption
  <2> QED
    BY <1>1, <2>1, <2>2, <2>3, <2>4 DEF CallerOf, Body, EntityBody, ErrorBody, TellsNothing
<1> QED
  BY <1>7, <1>8, <1>9, <1>10 DEF ClientIInv

\* A caller is told something, or goes on: nothing but its own state changes.
LEMMA CallerAlone ==
  ASSUME ClientIInv, NEW c \in Callers, UNCHANGED <<requests, runs, sends>>,
         intent' \in [Callers -> Intents \cup {NoKey}],
         waiting' \in [Callers -> Nat \cup {NoKey}],
         answered' \in [Callers -> Bodies \cup {NoKey}],
         returned' \in [Callers -> Results \cup {NoKey}],
         \A d \in Callers : d # c =>
           /\ intent'[d] = intent[d] /\ waiting'[d] = waiting[d]
           /\ answered'[d] = answered[d] /\ returned'[d] = returned[d],
         CallerOf(c)'
  PROVE  ClientIInv'
<1>1. ClientTypeOK' /\ RequestsNamed' /\ RunsNamed'
  BY DEF ClientIInv, ClientTypeOK, RequestsNamed, RunsNamed, RanFor
<1>2. sends \in Nat /\ sends <= sends
  BY DEF ClientIInv, ClientTypeOK
<1>3. \A d \in Callers : d # c => CallerOf(d)'
  BY <1>2, CallerStays
<1> QED
  BY <1>1, <1>3 DEF ClientIInv

LEMMA ReturnsPreserves ==
  ASSUME ClientIInv, NEW c \in Callers, NEW answer \in Results, ReturnsTo(c, answer),
         waiting[c] # NoKey \/ answered[c] # NoKey,
         ~TellsNothing(intent[c], answer) =>
           \E id \in DOMAIN runs : RanFor(id, intent[c]) /\ answer \in MayBeTold(id)
  PROVE  ClientIInv'
<1>1. /\ UNCHANGED <<intent, requests, runs, sends>>
      /\ returned' = [returned EXCEPT ![c] = answer]
      /\ waiting' = [waiting EXCEPT ![c] = NoKey]
      /\ answered' = [answered EXCEPT ![c] = NoKey]
  BY DEF ReturnsTo
<1>2. /\ returned'[c] = answer /\ waiting'[c] = NoKey /\ answered'[c] = NoKey
      /\ intent[c] # NoKey
  BY <1>1 DEF ClientIInv, ClientTypeOK, CallerOf
<1>3. \A r \in requests : r.n # NoKey
  BY KeyAssumption DEF ClientIInv, ClientTypeOK
<1>4. CallerOf(c)'
  BY <1>1, <1>2, <1>3 DEF CallerOf, RanFor, MayBeTold, TellsNothing
<1>5. \A d \in Callers : d # c =>
        /\ waiting'[d] = waiting[d] /\ answered'[d] = answered[d] /\ returned'[d] = returned[d]
  BY <1>1 DEF ClientIInv, ClientTypeOK
<1>6. /\ waiting' \in [Callers -> Nat \cup {NoKey}]
      /\ answered' \in [Callers -> Bodies \cup {NoKey}]
      /\ returned' \in [Callers -> Results \cup {NoKey}]
      /\ intent' \in [Callers -> Intents \cup {NoKey}]
  BY <1>1 DEF ClientIInv, ClientTypeOK
<1> QED
  BY <1>1, <1>4, <1>5, <1>6, CallerAlone

\* What a run came to, in a body and out of it again.
LEMMA BodyIsRead ==
  ASSUME ClientIInv, NEW id \in DOMAIN runs, NEW body,
         body = Body(runs[id].outcome, runs[id].intent)
  PROVE  /\ body.ok => EntityResults(body) \subseteq MayBeTold(id) \cap Results
         /\ ~body.ok => ErrorOf(body) \in MayBeTold(id) \cap Results
         /\ ~body.ok => ErrorOf(NoText) \in MayBeTold(id) \cap Results
<1>1. runs[id].intent \in Intents /\ runs[id].outcome \in Outcomes
  BY DEF ClientIInv, ClientTypeOK
<1>2. ErrorOf(NoText) = [kind |-> "backend", of |-> NoKey]
  BY DEF ErrorOf, NoText
<1>3. CASE runs[id].outcome = "entity"
  BY <1>1, <1>3 DEF Body, EntityBody, EntityResults, DecodeError, MayBeTold, Results
<1>4. CASE runs[id].outcome = "rejected"
  BY <1>1, <1>2, <1>4, KeyAssumption DEF Body, ErrorBody, ErrorOf, MayBeTold, Results
<1>5. CASE runs[id].outcome = "failed"
  BY <1>1, <1>2, <1>5 DEF Body, ErrorBody, ErrorOf, MayBeTold, Results
<1> QED
  BY <1>1, <1>3, <1>4, <1>5 DEF Outcomes

\* The answer a caller hears is that of a run of its own intent.
LEMMA AnswerIsOfRun ==
  ASSUME ClientIInv, NEW c \in Callers, answered[c] # NoKey
  PROVE  \E id \in DOMAIN runs :
           /\ RanFor(id, intent[c])
           /\ answered[c].ok => EntityResults(answered[c]) \subseteq MayBeTold(id) \cap Results
           /\ ~answered[c].ok => ErrorOf(answered[c]) \in MayBeTold(id) \cap Results
           /\ ~answered[c].ok => ErrorOf(NoText) \in MayBeTold(id) \cap Results
<1>1. PICK id \in DOMAIN runs : /\ RanFor(id, intent[c])
                               /\ answered[c] = Body(runs[id].outcome, runs[id].intent)
  BY DEF ClientIInv, CallerOf
<1>2. PICK body : body = answered[c]
  OBVIOUS
<1> QED
  BY <1>1, <1>2, BodyIsRead

LEMMA ReceivePreserves ==
  ASSUME ClientIInv, NEW c \in Callers, Receive(c)
  PROVE  ClientIInv'
<1>1. answered[c] # NoKey
  BY DEF Receive
<1>2. PICK answer : /\ ReturnsTo(c, answer)
                    /\ answered[c].ok => answer \in EntityResults(answered[c])
                    /\ ~answered[c].ok => answer = ErrorOf(answered[c])
  BY DEF Receive
<1>3. PICK id \in DOMAIN runs : RanFor(id, intent[c]) /\ answer \in MayBeTold(id) \cap Results
  BY <1>1, <1>2, AnswerIsOfRun
<1> QED
  BY <1>1, <1>2, <1>3, ReturnsPreserves

LEMMA BodyBreaksOffPreserves ==
  ASSUME ClientIInv, NEW c \in Callers, BodyBreaksOff(c)
  PROVE  ClientIInv'
<1>1. answered[c] # NoKey /\ ReturnsTo(c, BrokenOff(answered[c]))
  BY DEF BodyBreaksOff
<1>2. CASE answered[c].ok
  <2>1. BrokenOff(answered[c]) = TransportError
    BY <1>2 DEF BrokenOff
  <2>2. TransportError \in Results /\ TellsNothing(intent[c], TransportError)
    BY DEF Results, TransportError, TellsNothing
  <2> QED
    BY <1>1, <2>1, <2>2, ReturnsPreserves
<1>3. CASE ~answered[c].ok
  <2>1. PICK answer : answer = ErrorOf(NoText)
    OBVIOUS
  <2>2. ReturnsTo(c, answer)
    BY <1>1, <1>3, <2>1 DEF BrokenOff
  <2>3. PICK id \in DOMAIN runs : RanFor(id, intent[c]) /\ answer \in MayBeTold(id) \cap Results
    BY <1>1, <1>3, <2>1, AnswerIsOfRun
  <2> QED
    BY <1>1, <2>2, <2>3, ReturnsPreserves
<1> QED
  BY <1>2, <1>3

LEMMA TransportFailsPreserves ==
  ASSUME ClientIInv, NEW c \in Callers, TransportFails(c)
  PROVE  ClientIInv'
<1>1. waiting[c] # NoKey /\ ReturnsTo(c, TransportError)
  BY DEF TransportFails
<1>2. TransportError \in Results /\ TellsNothing(intent[c], TransportError)
  BY DEF Results, TransportError, TellsNothing
<1> QED
  BY <1>1, <1>2, ReturnsPreserves

\* A command that does not serialize: the caller hears of no run.
LEMMA EncodingFailsPreserves ==
  ASSUME ClientIInv, NEW c \in Callers, NEW i \in Intents, EncodingFails(c, i)
  PROVE  ClientIInv'
<1>1. /\ KeyOf[i] = NoKey /\ intent[c] = NoKey
      /\ UNCHANGED <<waiting, requests, answered, runs, sends>>
      /\ intent' = [intent EXCEPT ![c] = i]
      /\ returned' = [returned EXCEPT ![c] = DecodeError]
  BY DEF EncodingFails
<1>2. DecodeError \in Results /\ TellsNothing(i, DecodeError)
  BY <1>1 DEF Results, DecodeError, TellsNothing
<1>3. /\ intent'[c] = i /\ returned'[c] = DecodeError /\ i # NoKey
      /\ waiting[c] = NoKey /\ answered[c] = NoKey
  BY <1>1, KeyAssumption DEF ClientIInv, ClientTypeOK, CallerOf
<1>4. \A r \in requests : r.n # NoKey
  BY KeyAssumption DEF ClientIInv, ClientTypeOK
<1>5. CallerOf(c)'
  BY <1>1, <1>2, <1>3, <1>4 DEF CallerOf, TellsNothing
<1>6. \A d \in Callers : d # c => intent'[d] = intent[d] /\ returned'[d] = returned[d]
  BY <1>1 DEF ClientIInv, ClientTypeOK
<1>7. /\ waiting' \in [Callers -> Nat \cup {NoKey}]
      /\ answered' \in [Callers -> Bodies \cup {NoKey}]
      /\ returned' \in [Callers -> Results \cup {NoKey}]
      /\ intent' \in [Callers -> Intents \cup {NoKey}]
  BY <1>1, <1>2 DEF ClientIInv, ClientTypeOK
<1> QED
  BY <1>1, <1>5, <1>6, <1>7, CallerAlone

LEMMA GoOnPreserves ==
  ASSUME ClientIInv, NEW c \in Callers, GoOn(c)
  PROVE  ClientIInv'
<1>1. /\ returned[c] # NoKey /\ UNCHANGED <<waiting, requests, answered, runs, sends>>
      /\ returned' = [returned EXCEPT ![c] = NoKey]
      /\ intent' = [intent EXCEPT ![c] = NoKey]
  BY DEF GoOn
<1>2. /\ returned'[c] = NoKey /\ intent'[c] = NoKey /\ waiting[c] = NoKey /\ answered[c] = NoKey
  BY <1>1 DEF ClientIInv, ClientTypeOK, CallerOf
<1>3. \A r \in requests : r.n # NoKey
  BY KeyAssumption DEF ClientIInv, ClientTypeOK
<1>4. CallerOf(c)'
  BY <1>1, <1>2, <1>3 DEF CallerOf
<1>5. \A d \in Callers : d # c => intent'[d] = intent[d] /\ returned'[d] = returned[d]
  BY <1>1 DEF ClientIInv, ClientTypeOK
<1>6. /\ waiting' \in [Callers -> Nat \cup {NoKey}]
      /\ answered' \in [Callers -> Bodies \cup {NoKey}]
      /\ returned' \in [Callers -> Results \cup {NoKey}]
      /\ intent' \in [Callers -> Intents \cup {NoKey}]
  BY <1>1 DEF ClientIInv, ClientTypeOK
<1> QED
  BY <1>1, <1>4, <1>5, <1>6, CallerAlone

LEMMA ClientNextInv == ClientIInv /\ [ClientNext]_clientVars => ClientIInv'
<1> SUFFICES ASSUME ClientIInv, [ClientNext]_clientVars PROVE ClientIInv'
  OBVIOUS
<1>1. ASSUME NEW c \in Callers, NEW i \in Intents, ClientExecute(c, i) \/ ExecuteIdempotent(c, i)
      PROVE  ClientIInv'
  <2>1. Post(c, i, WorkflowId(i, sends + 1))
    BY <1>1 DEF ClientExecute, ExecuteIdempotent, WorkflowId
  <2> QED
    BY <2>1, PostPreserves
<1>2. ASSUME NEW c \in Callers,
             Receive(c) \/ BodyBreaksOff(c) \/ TransportFails(c) \/ GoOn(c)
      PROVE  ClientIInv'
  BY <1>2, ReceivePreserves, BodyBreaksOffPreserves, TransportFailsPreserves, GoOnPreserves
<1>3. ASSUME NEW request \in requests, NEW came \in Outcomes, ExecutorServes(request, came)
      PROVE  ClientIInv'
  BY <1>3, ServesPreserves
<1>4. CASE UNCHANGED clientVars
  BY <1>4 DEF clientVars, ClientIInv, ClientTypeOK, RequestsNamed, RunsNamed, CallerOf, RanFor,
              MayBeTold, TellsNothing, Body, EntityBody, ErrorBody
<1>5. ASSUME NEW c \in Callers, NEW i \in Intents, EncodingFails(c, i) PROVE ClientIInv'
  BY <1>5, EncodingFailsPreserves
<1> QED
  BY <1>1, <1>2, <1>3, <1>4, <1>5 DEF ClientNext

THEOREM ClientInvariance == ClientSpec => []ClientIInv
  BY ClientInitInv, ClientNextInv, PTL DEF ClientSpec

\* However often a command was sent, by whomever, and wherever connections broke
\* (generated.rs execute(), client.rs execute_idempotent()): its key has been run
\* for at most once, and who was told something was told what that run came to,
\* or, if the body of an error broke off, that it ended in no entity.
THEOREM TheyAreTold == ClientSpec => []ToldWhatHappened
<1>1. ClientIInv => ToldWhatHappened
  <2> SUFFICES ASSUME ClientIInv PROVE ToldWhatHappened
    OBVIOUS
  <2>1. ASSUME NEW i \in Intents, KeyOf[i] # NoKey PROVE Cardinality(RunsOf(i)) <= 1
    <3>1. \A id \in RunsOf(i) : id = KeyOf[i]
      BY <2>1 DEF RunsOf, ClientIInv, RunsNamed, WorkflowId
    <3>2. RunsOf(i) = {} \/ RunsOf(i) = {KeyOf[i]}
      BY <3>1
    <3> QED
      BY <3>2, FS_EmptySet, FS_Singleton
  <2>2. ASSUME NEW c \in Callers, returned[c] # NoKey, ~TellsNothing(intent[c], returned[c])
        PROVE  \E id \in DOMAIN runs :
                 /\ KeyOf[runs[id].intent] = KeyOf[intent[c]]
                 /\ KeyOf[intent[c]] = NoKey => runs[id].intent = intent[c]
                 /\ returned[c] \in MayBeTold(id)
    BY <2>2 DEF ClientIInv, CallerOf, RanFor
  <2> QED
    BY <2>1, <2>2 DEF ToldWhatHappened
<1> QED
  BY <1>1, ClientInvariance, PTL

LEMMA AppendIsIn ==
  ASSUME NEW S, NEW s \in Seq(S), NEW x \in S
  PROVE  Append(s, x) \in Seq(S)
  OBVIOUS

\* A set of numbers has a least one.
LEMMA LeastNumber ==
  ASSUME NEW D \in SUBSET Nat, D # {}
  PROVE  \E i \in D : \A j \in D : i <= j
<1> DEFINE R == OpToRel(<, Nat)
<1>1. IsWellFoundedOn(R, Nat)
  BY NatLessThanWellFounded
<1>2. \A x, y \in Nat : x < y => <<x, y>> \in R
  BY DEF OpToRel
<1> HIDE DEF R
<1>3. PICK i \in D : \A j \in D : ~ (<<j, i>> \in R)
  BY <1>1, WFMin
<1>4. \A j \in D : ~ (j < i)
  BY <1>2, <1>3
<1> QED
  BY <1>4

----------------------------------------------------------------------------
(* ServiceMacro: the effects that remain                                   *)

Increases(s) == \A i, j \in DOMAIN s : i < j => s[i] < s[j]

CanBeOrdered(S) ==
  \E s \in [1..Cardinality(S) -> S] : Increases(s) /\ {s[i] : i \in DOMAIN s} = S

LEMMA NumbersAreFinite ==
  ASSUME NEW k \in Nat, NEW S \in SUBSET (1..k)
  PROVE  IsFiniteSet(S) /\ Cardinality(S) \in Nat
<1>1. IsFiniteSet(1..k)
  BY FS_Interval
<1>2. IsFiniteSet(S)
  BY <1>1, FS_Subset
<1> QED
  BY <1>2, FS_CardinalityType

\* The numbers of a finite set can be put in order.
LEMMA NumbersOrder ==
  ASSUME NEW k \in Nat, NEW S \in SUBSET (1..k)
  PROVE  CanBeOrdered(S)
<1> DEFINE Bad == {n \in 0..k : \E T \in SUBSET (1..n) : ~CanBeOrdered(T)}
<1>2. Bad = {}
  <2> SUFFICES ASSUME Bad # {} PROVE FALSE
    OBVIOUS
  <2>1. PICK n \in Bad : \A m \in Bad : n <= m
    <3>1. Bad \in SUBSET Nat
      OBVIOUS
    <3> HIDE DEF Bad
    <3> QED
      BY <3>1, LeastNumber
  <2>2. PICK T \in SUBSET (1..n) : ~CanBeOrdered(T)
    OBVIOUS
  <2>3. n \in 0..k /\ T \in SUBSET (1..k)
    OBVIOUS
  <2>4. n # 0
    <3> SUFFICES ASSUME n = 0 PROVE FALSE
      OBVIOUS
    <3>1. T = {}
      BY <2>2
    <3>2. Cardinality(T) = 0
      BY <3>1, FS_EmptySet
    <3> DEFINE e == [i \in 1..0 |-> 0]
    <3>3. e \in [1..0 -> T] /\ DOMAIN e = {} /\ {e[i] : i \in DOMAIN e} = T
      BY <3>1
    <3> HIDE DEF e
    <3>4. Increases(e)
      BY <3>3 DEF Increases
    <3> QED
      BY <2>2, <3>2, <3>3, <3>4 DEF CanBeOrdered
  <2>5. n - 1 \notin Bad /\ n - 1 \in 0..k
    <3>1. n - 1 \in 0..k /\ ~(n <= n - 1)
      BY <2>3, <2>4
    <3> HIDE DEF Bad
    <3> QED
      BY <2>1, <3>1
  <2>6. n \in T
    <3> SUFFICES ASSUME n \notin T PROVE FALSE
      OBVIOUS
    <3>1. T \in SUBSET (1..(n - 1))
      BY <2>3
    <3> QED
      BY <2>2, <2>5, <3>1
  <2>7. T \ {n} \in SUBSET (1..(n - 1)) /\ T \ {n} \in SUBSET (1..k)
    BY <2>3
  <2>8. CanBeOrdered(T \ {n})
    BY <2>5, <2>7
  <2> DEFINE c == Cardinality(T \ {n})
  <2>9. Cardinality(T) = c + 1 /\ c \in Nat
    <3>1. IsFiniteSet(T) /\ Cardinality(T) \in Nat /\ c \in Nat
      BY <2>3, <2>7, NumbersAreFinite
    <3>2. c = Cardinality(T) - 1
      BY <2>6, <3>1, FS_RemoveElement
    <3> HIDE DEF c
    <3> QED
      BY <3>1, <3>2
  <2>10. PICK s \in [1..c -> T \ {n}] : Increases(s) /\ {s[i] : i \in DOMAIN s} = T \ {n}
    BY <2>8 DEF CanBeOrdered
  <2> HIDE DEF Bad, c
  <2> DEFINE r == [i \in 1..(c + 1) |-> IF i = c + 1 THEN n ELSE s[i]]
  <2>11. r \in [1..(c + 1) -> T] /\ r[c + 1] = n /\ \A i \in 1..c : r[i] = s[i] /\ r[i] \in 1..(n - 1)
    <3>1. \A i \in 1..(c + 1) : i = c + 1 \/ i \in 1..c
      BY <2>9
    <3>2. \A i \in 1..c : i # c + 1 /\ i \in 1..(c + 1) /\ s[i] \in T /\ s[i] \in 1..(n - 1)
      BY <2>7, <2>9, <2>10
    <3>3. c + 1 \in 1..(c + 1)
      BY <2>9
    <3> QED
      BY <2>6, <3>1, <3>2, <3>3
  <2> HIDE DEF r
  <2>12. Increases(r)
    <3> SUFFICES ASSUME NEW i \in 1..(c + 1), NEW j \in 1..(c + 1), i < j PROVE r[i] < r[j]
      BY <2>11 DEF Increases
    <3>1. i \in 1..c
      BY <2>9
    <3>2. CASE j = c + 1
      BY <2>3, <2>11, <3>1, <3>2
    <3>3. CASE j # c + 1
      <4>1. j \in 1..c
        BY <2>9, <3>3
      <4> QED
        BY <2>10, <2>11, <3>1, <4>1 DEF Increases
    <3> QED
      BY <3>2, <3>3
  <2>13. {r[i] : i \in DOMAIN r} = T
    <3>1. ASSUME NEW x \in T PROVE \E i \in DOMAIN r : x = r[i]
      <4>1. CASE x = n
        BY <2>9, <2>11, <4>1
      <4>2. CASE x # n
        <5>1. PICK i \in 1..c : x = s[i]
          BY <2>10, <4>2
        <5> QED
          BY <2>9, <2>11, <5>1
      <4> QED
        BY <4>1, <4>2
    <3>2. ASSUME NEW i \in DOMAIN r PROVE r[i] \in T
      BY <2>11
    <3> QED
      BY <3>1, <3>2
  <2> QED
    BY <2>2, <2>9, <2>11, <2>12, <2>13 DEF CanBeOrdered
<1> QED
  BY <1>2

\* An increasing sequence of as many numbers of a set as it has holds them all.
LEMMA RemainingAre ==
  ASSUME NEW k \in Nat, NEW S \in SUBSET (1..k)
  PROVE  /\ ToSet(RemainingEffects(S)) = S
         /\ RemainingEffects(S) = <<>> => S = {}
<1> DEFINE c == Cardinality(S)
           rem == RemainingEffects(S)
<1>1. IsFiniteSet(S) /\ c \in Nat /\ \E s \in [1..c -> S] : Increases(s)
  BY NumbersAreFinite, NumbersOrder DEF CanBeOrdered
<1>2. rem \in [1..c -> S] /\ Increases(rem)
  BY <1>1 DEF RemainingEffects, Increases
<1> HIDE DEF rem, c
<1>3. S \subseteq Nat
  OBVIOUS
<1> DEFINE R == {rem[i] : i \in 1..c}
<1>4. rem \in Bijection(1..c, R)
  <2>1. rem \in [1..c -> R] /\ \A x \in R : \E i \in 1..c : rem[i] = x
    BY <1>2
  <2>2. \A i, j \in 1..c : rem[i] = rem[j] => i = j
    <3> SUFFICES ASSUME NEW i \in 1..c, NEW j \in 1..c, i < j PROVE rem[i] # rem[j]
      BY <1>1
    <3>1. rem[i] < rem[j] /\ rem[i] \in Nat /\ rem[j] \in Nat
      <4>1. DOMAIN rem = 1..c /\ rem[i] \in S /\ rem[j] \in S
        BY <1>2
      <4> QED
        BY <1>2, <1>3, <4>1 DEF Increases
    <3> QED
      BY <3>1
  <2> QED
    BY <2>1, <2>2 DEF Bijection, Injection, Surjection, IsInjective
<1>5. Cardinality(R) = c
  BY <1>1, <1>4, FS_CountingElements DEF ExistsBijection
<1>6. R \subseteq S
  BY <1>2
<1>7. R = S
  BY <1>1, <1>5, <1>6, FS_Subset DEF c
<1>8. ToSet(rem) = S
  BY <1>2, <1>7 DEF ToSet
<1>9. rem = <<>> => S = {}
  BY <1>8 DEF ToSet
<1> QED
  BY <1>8, <1>9 DEF rem

----------------------------------------------------------------------------
(* ServiceMacro: what has been compiled                                    *)

IsCompiled(d) ==
  /\ d \in Declarations
  /\ IsFull(d) => DeclarationParses(d) /\ WireNamesDiffer(d) /\ ExpansionCompiles(d)

LEMMA ListsAre ==
  ASSUME NEW d, IsCompiled(d), IsFull(d)
  PROVE  /\ Handlers(d) \in Seq(ToSet(Handlers(d)))
         /\ Len(Handlers(d)) \in Nat /\ DOMAIN Handlers(d) = 1..Len(Handlers(d))
         /\ Len(Effects(d)) \in Nat /\ DOMAIN Effects(d) = 1..Len(Effects(d))
<1>1. /\ d.body.handlers \in Seq(ToSet(d.body.handlers))
      /\ d.body.effects \in Seq(ToSet(d.body.effects))
  BY DeclarationAssumption DEF IsCompiled
<1>2. Len(d.body.effects) \in Nat /\ DOMAIN d.body.effects = 1..Len(d.body.effects)
  BY <1>1
<1>3. Len(d.body.handlers) \in Nat /\ DOMAIN d.body.handlers = 1..Len(d.body.handlers)
  BY <1>1
<1>4. Len(<<>>) = 0 /\ DOMAIN <<>> = 1..0
  OBVIOUS
<1> QED
  BY <1>1, <1>2, <1>3, <1>4 DEF Handlers, Effects

\* A handler's command is the last of its function's arguments.
LEMMA CommandIsArgument ==
  ASSUME NEW h, SpecCompiles(h.fn, "handler")
  PROVE  Last(Functions[h.fn].inputs) = CommandOf(h) /\ CommandOf(h) # NoService
<1> DEFINE fn == Functions[h.fn]
<1>1. h.fn \in DOMAIN Functions /\ fn.kind = "handler"
  BY DEF SpecCompiles
<1>2. PICK spec \in SpecsOf(fn) :
        fn.inputs = <<Ref(Type("Entity", <<spec.state>>)), CHOOSE c \in spec.command : TRUE>>
  BY DEF SpecCompiles
<1>3. SpecOf(h.fn) \in SpecsOf(fn)
  BY <1>2 DEF SpecOf
<1>4. \A x \in SpecsOf(fn) : x.command = LastArg(fn.args, "command")
  BY <1>1 DEF SpecsOf, HandlerSpecs
<1>5. spec.command = SpecOf(h.fn).command
  BY <1>2, <1>3, <1>4
<1>6. fn.inputs = <<Ref(Type("Entity", <<spec.state>>)), CommandOf(h)>>
  BY <1>2, <1>5 DEF CommandOf
<1> HIDE DEF fn
<1>7. Last(fn.inputs) = CommandOf(h) /\ CommandOf(h) \in ToSet(fn.inputs)
  <2>1. PICK x, y : x = Ref(Type("Entity", <<spec.state>>)) /\ y = CommandOf(h)
    OBVIOUS
  <2>2. fn.inputs = <<x, y>>
    BY <1>6, <2>1
  <2>3. Len(fn.inputs) = 2 /\ fn.inputs[2] = y /\ 2 \in DOMAIN fn.inputs
    BY <2>2
  <2> QED
    BY <2>1, <2>3 DEF Last, ToSet
<1>8. NoService \notin ToSet(fn.inputs)
  BY <1>1, FunctionAssumption DEF fn
<1> QED
  BY <1>7, <1>8 DEF fn

LEMMA HandlersCompile ==
  ASSUME NEW d, IsCompiled(d), IsFull(d), NEW i \in DOMAIN Handlers(d)
  PROVE  /\ Last(Functions[Handlers(d)[i].fn].inputs) = CommandOf(Handlers(d)[i])
         /\ CommandOf(Handlers(d)[i]) # NoService
         /\ Handlers(d)[i] \in ToSet(Handlers(d))
<1>1. SpecCompiles(Handlers(d)[i].fn, "handler")
  BY DEF IsCompiled, ExpansionCompiles
<1> QED
  BY <1>1, CommandIsArgument DEF ToSet

\* Each command is of one handler.
LEMMA OneHandler ==
  ASSUME NEW d, IsCompiled(d), IsFull(d), NEW i \in DOMAIN Handlers(d)
  PROVE  HandlerFor(d, CommandOf(Handlers(d)[i])) = {Handlers(d)[i].fn}
<1> DEFINE c == CommandOf(Handlers(d)[i])
<1>1. \A j \in DOMAIN Handlers(d) : CommandOf(Handlers(d)[j]) = c => j = i
  <2>1. IsInjective([k \in DOMAIN Handlers(d) |-> CommandOf(Handlers(d)[k])])
    BY DEF IsCompiled, ExpansionCompiles, Commands
  <2> QED
    BY <2>1 DEF IsInjective
<1>2. Handlers(d)[i] \in ToSet(Handlers(d))
      /\ Last(Functions[Handlers(d)[i].fn].inputs) = c
  BY HandlersCompile
<1>3. ASSUME NEW h \in ToSet(Handlers(d)), Last(Functions[h.fn].inputs) = c
      PROVE  h = Handlers(d)[i]
  <2>1. PICK j \in DOMAIN Handlers(d) : h = Handlers(d)[j]
    BY DEF ToSet
  <2>2. CommandOf(Handlers(d)[j]) = c
    BY <1>3, <2>1, HandlersCompile
  <2> QED
    BY <1>1, <2>1, <2>2
<1> HIDE DEF c
<1>4. HandlerFor(d, c) = {Handlers(d)[i].fn}
  BY <1>2, <1>3 DEF HandlerFor
<1> QED
  BY <1>4 DEF c

\* The methods of a binding are its loader's and its handlers', in this order.
LEMMA MethodsAre ==
  ASSUME NEW d, IsCompiled(d), IsFull(d)
  PROVE  /\ DOMAIN Methods(d) = 1..(Len(Handlers(d)) + 1)
         /\ Methods(d)[1] = LoaderMethod(d)
         /\ \A i \in 1..Len(Handlers(d)) : Methods(d)[i + 1] = HandlerMethod(d, i)
<1> DEFINE n == Len(Handlers(d))
           hs == [i \in DOMAIN Handlers(d) |-> HandlerMethod(d, i)]
           M == {HandlerMethod(d, i) : i \in 1..n} \cup {LoaderMethod(d)}
<1>1. n \in Nat /\ DOMAIN Handlers(d) = 1..n
  BY ListsAre
<1>2. hs \in Seq(M) /\ Len(hs) = n /\ \A i \in 1..n : hs[i] = HandlerMethod(d, i)
  <2>1. \A i \in 1..n : hs[i] = HandlerMethod(d, i) /\ hs[i] \in M
    BY <1>1
  <2>2. hs = [i \in 1..n |-> HandlerMethod(d, i)]
    BY <1>1
  <2> HIDE DEF hs, M
  <2>3. hs \in [1..n -> M]
    BY <2>1, <2>2
  <2> HIDE DEF n
  <2> QED
    BY <1>1, <2>1, <2>3
<1>3. Methods(d) = <<LoaderMethod(d)>> \o hs /\ LoaderMethod(d) \in M
  BY DEF Methods
<1> HIDE DEF n, hs, M
<1>4. PICK l \in M : l = LoaderMethod(d)
  BY <1>3
<1>5. <<l>> \in Seq(M) /\ Len(<<l>>) = 1 /\ <<l>>[1] = l
  OBVIOUS
<1>6. /\ Len(<<l>> \o hs) = n + 1 /\ DOMAIN (<<l>> \o hs) = 1..(n + 1)
      /\ (<<l>> \o hs)[1] = l /\ \A i \in 1..n : (<<l>> \o hs)[i + 1] = hs[i]
  BY <1>1, <1>2, <1>5
<1> QED
  BY <1>2, <1>3, <1>4, <1>6 DEF n

LEMMA MethodIs ==
  ASSUME NEW d, IsCompiled(d), IsFull(d), NEW m \in ToSet(Methods(d))
  PROVE  m = LoaderMethod(d) \/ \E i \in DOMAIN Handlers(d) : m = HandlerMethod(d, i)
<1>1. /\ Len(Handlers(d)) \in Nat /\ DOMAIN Handlers(d) = 1..Len(Handlers(d))
      /\ DOMAIN Methods(d) = 1..(Len(Handlers(d)) + 1)
      /\ Methods(d)[1] = LoaderMethod(d)
      /\ \A i \in 1..Len(Handlers(d)) : Methods(d)[i + 1] = HandlerMethod(d, i)
  BY ListsAre, MethodsAre
<1>2. PICK j \in 1..(Len(Handlers(d)) + 1) : m = Methods(d)[j]
  BY <1>1 DEF ToSet
<1>3. j = 1 \/ (j - 1 \in 1..Len(Handlers(d)) /\ j = (j - 1) + 1)
  BY <1>1, <1>2
<1> QED
  BY <1>1, <1>2, <1>3

----------------------------------------------------------------------------
(* ServiceMacro: the invariant                                             *)

WorkflowsOf(d, S) == {Effects(d)[i].workflow : i \in S}

\* The effects of a set have been registered, each once, and the rest remain.
IsRegistered(d, remaining, effects) ==
  \E S \in SUBSET DOMAIN Effects(d) :
    /\ remaining = RemainingEffects(S)
    /\ effects \in Seq(WorkflowsOf(d, DOMAIN Effects(d)))
    /\ IsInjective(effects)
    /\ ToSet(effects) = WorkflowsOf(d, DOMAIN Effects(d) \ S)

MacroInv ==
  /\ service # NoService => IsCompiled(service)
  /\ registration # NoService =>
       /\ service # NoService /\ IsFull(service)
       /\ IsRegistered(service, registration.remaining, registration.effects)
  /\ endpoint # NoService =>
       /\ service # NoService /\ IsFull(service)
       /\ endpoint.object.methods = Methods(service)
       /\ IsInjective(endpoint.workflows)
       /\ ToSet(endpoint.workflows) = WorkflowsOf(service, DOMAIN Effects(service))

LEMMA MacroBegins == ServiceInit => MacroInv
  BY DEF ServiceInit, MacroInv

LEMMA CompileKeeps ==
  ASSUME MacroInv, NEW d \in Declarations, Compile(d)
  PROVE  MacroInv'
<1>1. service = NoService /\ UNCHANGED <<registration, endpoint, outcome>>
  BY DEF Compile
<1>2. service' # NoService => IsCompiled(service')
  BY <1>1 DEF Compile, IsCompiled
<1>3. registration = NoService /\ endpoint = NoService
  BY <1>1 DEF MacroInv
<1> QED
  BY <1>1, <1>2, <1>3 DEF MacroInv

LEMMA CreateKeeps ==
  ASSUME MacroInv, CreateRegistration
  PROVE  MacroInv'
<1> DEFINE D == DOMAIN Effects(service)
<1>1. /\ service # NoService /\ IsFull(service)
      /\ registration' = [remaining |-> RemainingEffects(D), effects |-> <<>>]
      /\ UNCHANGED <<service, refused, endpoint, outcome>>
  BY DEF CreateRegistration
<1>2. IsRegistered(service, RemainingEffects(D), <<>>)
  <2>1. <<>> \in Seq(WorkflowsOf(service, D)) /\ IsInjective(<<>>) /\ ToSet(<<>>) = {}
    BY DEF IsInjective, ToSet
  <2>2. WorkflowsOf(service, D \ D) = {}
    BY DEF WorkflowsOf
  <2> QED
    BY <2>1, <2>2 DEF IsRegistered
<1> QED
  BY <1>1, <1>2 DEF MacroInv

LEMMA AppendIsInjective ==
  ASSUME NEW W, NEW s \in Seq(W), NEW w \in W, IsInjective(s), w \notin ToSet(s)
  PROVE  IsInjective(Append(s, w)) /\ ToSet(Append(s, w)) = ToSet(s) \cup {w}
<1> DEFINE r == Append(s, w)
<1>1. /\ Len(s) \in Nat /\ DOMAIN s = 1..Len(s) /\ DOMAIN r = 1..(Len(s) + 1)
      /\ r[Len(s) + 1] = w /\ \A i \in 1..Len(s) : r[i] = s[i]
  OBVIOUS
<1>2. \A i \in 1..(Len(s) + 1) : i \in 1..Len(s) \/ i = Len(s) + 1
  BY <1>1
<1>3. \A i \in 1..Len(s) : i \in 1..(Len(s) + 1) /\ s[i] # w
  BY <1>1 DEF ToSet
<1> HIDE DEF r
<1>4. IsInjective(r)
  BY <1>1, <1>2, <1>3 DEF IsInjective
<1>5. ToSet(r) = ToSet(s) \cup {w}
  <2>1. ASSUME NEW x \in ToSet(r) PROVE x \in ToSet(s) \cup {w}
    BY <1>1, <1>2 DEF ToSet
  <2>2. ASSUME NEW x \in ToSet(s) PROVE x \in ToSet(r)
    <3>1. PICK i \in 1..Len(s) : x = s[i]
      BY <1>1 DEF ToSet
    <3> QED
      BY <1>1, <1>3, <3>1 DEF ToSet
  <2>3. w \in ToSet(r)
    BY <1>1 DEF ToSet
  <2> QED
    BY <2>1, <2>2, <2>3
<1> QED
  BY <1>4, <1>5 DEF r

LEMMA WithEffectKeeps ==
  ASSUME MacroInv, NEW i, WithEffect(i)
  PROVE  MacroInv'
<1> DEFINE D == DOMAIN Effects(service)
           w == Effects(service)[i].workflow
<1>1. /\ registration # NoService /\ service # NoService /\ IsFull(service)
      /\ IsCompiled(service)
      /\ UNCHANGED <<service, refused, endpoint, outcome>>
  BY DEF WithEffect, MacroInv
<1>2. PICK T \in SUBSET D :
        /\ registration.remaining = RemainingEffects(T)
        /\ registration.effects \in Seq(WorkflowsOf(service, D))
        /\ IsInjective(registration.effects)
        /\ ToSet(registration.effects) = WorkflowsOf(service, D \ T)
  BY <1>1 DEF MacroInv, IsRegistered
<1>3. PICK S \in SUBSET D : /\ i \in S /\ RemainingEffects(S) = registration.remaining
                            /\ registration' = [remaining |-> RemainingEffects(S \ {i}),
                                                effects |-> Append(registration.effects, w)]
  <2>1. PICK impl \in WithEffectImpls(service) :
          /\ impl.input = registration.remaining /\ impl.marker = i
          /\ registration' = [remaining |-> impl.output,
                              effects |-> Append(registration.effects, w)]
    BY DEF WithEffect
  <2>2. PICK S \in SUBSET D : \E j \in S :
          impl = [input |-> RemainingEffects(S), marker |-> j,
                  output |-> RemainingEffects(S \ {j})]
    BY DEF WithEffectImpls
  <2>3. PICK j \in S : impl = [input |-> RemainingEffects(S), marker |-> j,
                             output |-> RemainingEffects(S \ {j})]
    BY <2>2
  <2>4. /\ impl.input = RemainingEffects(S) /\ impl.marker = j
        /\ impl.output = RemainingEffects(S \ {j})
    BY <2>3
  <2> QED
    BY <2>1, <2>4
<1>4. S = T
  <2>1. D = 1..Len(Effects(service)) /\ Len(Effects(service)) \in Nat
    BY <1>1, ListsAre
  <2>2. ToSet(RemainingEffects(S)) = S /\ ToSet(RemainingEffects(T)) = T
    BY <2>1, RemainingAre
  <2> QED
    BY <1>2, <1>3, <2>2
<1>5. \A j \in D : Effects(service)[j].workflow = w => j = i
  BY <1>1, <1>3 DEF IsCompiled, ExpansionCompiles
<1>6. w \in WorkflowsOf(service, D) /\ w \notin WorkflowsOf(service, D \ T)
  BY <1>3, <1>4, <1>5 DEF WorkflowsOf
<1>7. WorkflowsOf(service, D \ (S \ {i})) = WorkflowsOf(service, D \ T) \cup {w}
  <2>1. D \ (S \ {i}) = (D \ T) \cup {i}
    BY <1>3, <1>4
  <2> QED
    BY <2>1 DEF WorkflowsOf
<1>8. PICK done \in Seq(WorkflowsOf(service, D)), v \in WorkflowsOf(service, D) :
        done = registration.effects /\ v = w
  BY <1>2, <1>6
<1>9. /\ Append(done, v) \in Seq(WorkflowsOf(service, D))
      /\ IsInjective(Append(done, v)) /\ ToSet(Append(done, v)) = ToSet(done) \cup {v}
  BY <1>2, <1>6, <1>8, AppendIsInjective, AppendIsIn
<1>10. IsRegistered(service, RemainingEffects(S \ {i}), Append(done, v))
  BY <1>2, <1>7, <1>8, <1>9 DEF IsRegistered
<1> QED
  BY <1>1, <1>3, <1>8, <1>10 DEF MacroInv

LEMMA AttachKeeps ==
  ASSUME MacroInv, AttachTo
  PROVE  MacroInv'
<1> DEFINE D == DOMAIN Effects(service)
<1>1. /\ registration # NoService /\ service # NoService /\ IsFull(service)
      /\ IsCompiled(service) /\ registration.remaining = <<>>
      /\ endpoint' = [object |-> [name |-> ServiceName(service), methods |-> Methods(service)],
                      workflows |-> registration.effects]
      /\ registration' = NoService /\ UNCHANGED <<service, refused, outcome>>
  BY DEF AttachTo, MacroInv
<1>2. PICK T \in SUBSET D :
        /\ registration.remaining = RemainingEffects(T)
        /\ IsInjective(registration.effects)
        /\ ToSet(registration.effects) = WorkflowsOf(service, D \ T)
  BY <1>1 DEF MacroInv, IsRegistered
<1>3. T = {}
  <2>1. D = 1..Len(Effects(service)) /\ Len(Effects(service)) \in Nat
    BY <1>1, ListsAre
  <2> QED
    BY <1>1, <1>2, <2>1, RemainingAre
<1>4. D \ T = D
  BY <1>3
<1> QED
  BY <1>1, <1>2, <1>4 DEF MacroInv

\* A call leaves all but its outcome alone.
LEMMA CallsKeep ==
  ASSUME MacroInv,
         \/ LoadInProcess \/ CallEnds
         \/ \E command \in CommandsInUse :
              \/ CallInProcess(command)
              \/ CallClient(command)
              \/ \E wire \in WiresInUse, keyParses \in BOOLEAN :
                   CallIngress(wire, command, keyParses)
  PROVE  MacroInv'
<1>1. UNCHANGED <<service, registration, endpoint>>
  BY DEF LoadInProcess, CallEnds, CallInProcess, CallClient, CallIngress, Call
<1> QED
  BY <1>1 DEF MacroInv

LEMMA MacroInvariance == ServiceSpec => []MacroInv
<1>1. MacroInv /\ [ServiceNext]_serviceVars => MacroInv'
  <2> SUFFICES ASSUME MacroInv, [ServiceNext]_serviceVars PROVE MacroInv'
    OBVIOUS
  <2>1. CASE \E d \in Declarations : Compile(d)
    BY <2>1, CompileKeeps
  <2>2. CASE CreateRegistration
    BY <2>2, CreateKeeps
  <2>3. CASE \E i \in EffectsInUse : WithEffect(i)
    BY <2>3, WithEffectKeeps
  <2>4. CASE AttachTo
    BY <2>4, AttachKeeps
  <2>5. CASE \/ LoadInProcess \/ CallEnds
             \/ \E command \in CommandsInUse :
                  \/ CallInProcess(command)
                  \/ CallClient(command)
                  \/ \E wire \in WiresInUse, keyParses \in BOOLEAN :
                       CallIngress(wire, command, keyParses)
    BY <2>5, CallsKeep
  <2>6. CASE UNCHANGED serviceVars
    BY <2>6 DEF serviceVars, MacroInv
  <2> QED
    BY <2>1, <2>2, <2>3, <2>4, <2>5, <2>6 DEF ServiceNext
<1> QED
  BY <1>1, MacroBegins, PTL DEF ServiceSpec

\* What an endpoint serves is what was declared (service_macro.rs, generate_full
\* and the impls of WithEffect), for any declarations and functions: each wire
\* name leads to one function, each command to the one handler that takes it, and
\* effects can be registered in any order, each once.
THEOREM ServesAsDeclared == ServiceSpec => []ServedAsDeclared
<1> SUFFICES MacroInv => ServedAsDeclared
  BY MacroInvariance, PTL
<1> SUFFICES ASSUME MacroInv PROVE EndpointIsDeclared /\ AnyOrderRegisters
  BY DEF ServedAsDeclared
<1>1. AnyOrderRegisters
  <2> SUFFICES ASSUME registration # NoService
               PROVE  /\ IsInjective(registration.effects)
                      /\ ToSet(registration.effects)
                           = {Effects(service)[i].workflow :
                                i \in DOMAIN Effects(service) \ ToSet(registration.remaining)}
                      /\ \A i \in ToSet(registration.remaining) :
                           \E impl \in WithEffectImpls(service) :
                             /\ impl.input = registration.remaining /\ impl.marker = i
                             /\ ToSet(impl.output) = ToSet(registration.remaining) \ {i}
    BY DEF AnyOrderRegisters
  <2> DEFINE D == DOMAIN Effects(service)
  <2>1. D = 1..Len(Effects(service)) /\ Len(Effects(service)) \in Nat
    BY ListsAre DEF MacroInv
  <2>2. PICK S \in SUBSET D :
          /\ registration.remaining = RemainingEffects(S)
          /\ IsInjective(registration.effects)
          /\ ToSet(registration.effects) = WorkflowsOf(service, D \ S)
    BY DEF MacroInv, IsRegistered
  <2>3. ToSet(registration.remaining) = S
    BY <2>1, <2>2, RemainingAre
  <2>4. ASSUME NEW i \in S
        PROVE  \E impl \in WithEffectImpls(service) :
                 /\ impl.input = registration.remaining /\ impl.marker = i
                 /\ ToSet(impl.output) = S \ {i}
    <3> DEFINE impl == [input |-> RemainingEffects(S), marker |-> i,
                        output |-> RemainingEffects(S \ {i})]
    <3>1. impl \in WithEffectImpls(service)
      <4>1. impl \in {[input |-> RemainingEffects(S), marker |-> j,
                       output |-> RemainingEffects(S \ {j})] : j \in S}
        BY <2>4
      <4> QED
        BY <2>2, <4>1 DEF WithEffectImpls
    <3>2. ToSet(RemainingEffects(S \ {i})) = S \ {i}
      BY <2>1, RemainingAre
    <3> QED
      BY <2>2, <3>1, <3>2
  <2> QED
    BY <2>2, <2>3, <2>4 DEF WorkflowsOf
<1>2. EndpointIsDeclared
  <2> SUFFICES ASSUME endpoint # NoService
               PROVE  LET methods == endpoint.object.methods
                          declared == {service.body.loader.fn}
                                        \cup {h.fn : h \in ToSet(Handlers(service))}
                      IN /\ \A i, j \in DOMAIN methods : methods[i].wire = methods[j].wire => i = j
                         /\ {m.fn : m \in ToSet(methods)} = declared
                         /\ \A m \in ToSet(methods) :
                              m.command # NoService => HandlerFor(service, m.command) = {m.fn}
                         /\ IsInjective(endpoint.workflows)
                         /\ ToSet(endpoint.workflows)
                              = {e.workflow : e \in ToSet(Effects(service))}
    BY DEF EndpointIsDeclared
  <2> DEFINE n == Len(Handlers(service))
             methods == Methods(service)
  <2>1. /\ service # NoService /\ IsFull(service) /\ IsCompiled(service)
        /\ endpoint.object.methods = methods
        /\ IsInjective(endpoint.workflows)
        /\ ToSet(endpoint.workflows) = WorkflowsOf(service, DOMAIN Effects(service))
    BY DEF MacroInv
  <2>2. /\ n \in Nat /\ DOMAIN Handlers(service) = 1..n
        /\ DOMAIN methods = 1..(n + 1) /\ methods[1] = LoaderMethod(service)
        /\ \A i \in 1..n : methods[i + 1] = HandlerMethod(service, i)
    BY <2>1, ListsAre, MethodsAre
  <2>3. \A i \in 1..(n + 1) : i = 1 \/ (i - 1 \in 1..n /\ methods[i] = HandlerMethod(service, i - 1))
    <3> SUFFICES ASSUME NEW i \in 1..(n + 1), i # 1
                 PROVE  i - 1 \in 1..n /\ methods[i] = HandlerMethod(service, i - 1)
      OBVIOUS
    <3>1. i - 1 \in 1..n /\ (i - 1) + 1 = i
      BY <2>2
    <3> QED
      BY <2>2, <3>1
  <2> HIDE DEF n, methods
  <2>4. \A i, j \in DOMAIN methods : methods[i].wire = methods[j].wire => i = j
    <3> SUFFICES ASSUME NEW i \in 1..(n + 1), NEW j \in 1..(n + 1), i < j,
                        methods[i].wire = methods[j].wire
                 PROVE  FALSE
      BY <2>2
    <3>1. WireNamesDiffer(service)
      BY <2>1 DEF IsCompiled
    <3>2. j - 1 \in 1..n /\ methods[j].wire = HandlerWire(service, j - 1)
      BY <2>2, <2>3 DEF HandlerMethod
    <3>3. CASE i = 1
      BY <2>2, <3>1, <3>2, <3>3 DEF WireNamesDiffer, LoaderMethod
    <3>4. CASE i # 1
      <4>1. i - 1 \in 1..n /\ methods[i].wire = HandlerWire(service, i - 1)
        BY <2>2, <2>3, <3>4 DEF HandlerMethod
      <4>2. i - 1 = j - 1
        BY <2>2, <3>1, <3>2, <4>1 DEF WireNamesDiffer
      <4> QED
        BY <2>2, <4>2
    <3> QED
      BY <3>3, <3>4
  <2>5. {m.fn : m \in ToSet(methods)}
          = {service.body.loader.fn} \cup {h.fn : h \in ToSet(Handlers(service))}
    <3>1. ASSUME NEW m \in ToSet(methods)
          PROVE  m.fn = service.body.loader.fn \/ \E h \in ToSet(Handlers(service)) : m.fn = h.fn
      <4>1. PICK i \in 1..(n + 1) : m = methods[i]
        BY <2>2 DEF ToSet
      <4>2. CASE i = 1
        BY <2>2, <4>1, <4>2 DEF LoaderMethod
      <4>3. CASE i # 1
        BY <2>2, <2>3, <4>1, <4>3 DEF HandlerMethod, ToSet
      <4> QED
        BY <4>2, <4>3
    <3>2. service.body.loader.fn \in {m.fn : m \in ToSet(methods)}
      <4>1. methods[1] \in ToSet(methods) /\ methods[1].fn = service.body.loader.fn
        BY <2>2 DEF ToSet, LoaderMethod
      <4> QED
        BY <4>1
    <3>3. ASSUME NEW h \in ToSet(Handlers(service))
          PROVE  h.fn \in {m.fn : m \in ToSet(methods)}
      <4>1. PICK i \in 1..n : h = Handlers(service)[i]
        BY <2>2 DEF ToSet
      <4>2. i + 1 \in DOMAIN methods /\ methods[i + 1] = HandlerMethod(service, i)
        BY <2>2
      <4>3. methods[i + 1].fn = h.fn
        BY <4>1, <4>2 DEF HandlerMethod
      <4> QED
        BY <4>2, <4>3 DEF ToSet
    <3> QED
      BY <3>1, <3>2, <3>3
  <2>6. ASSUME NEW m \in ToSet(methods), m.command # NoService
        PROVE  HandlerFor(service, m.command) = {m.fn}
    <3>1. PICK i \in DOMAIN Handlers(service) : m = HandlerMethod(service, i)
      BY <2>1, <2>6, MethodIs DEF LoaderMethod, methods
    <3>2. m.command = CommandOf(Handlers(service)[i]) /\ m.fn = Handlers(service)[i].fn
      BY <3>1 DEF HandlerMethod
    <3> QED
      BY <2>1, <3>2, OneHandler
  <2>7. WorkflowsOf(service, DOMAIN Effects(service)) = {e.workflow : e \in ToSet(Effects(service))}
    BY DEF WorkflowsOf, ToSet
  <2> QED
    BY <2>1, <2>4, <2>5, <2>6, <2>7
<1> QED
  BY <1>1, <1>2

LEMMA Concatenation ==
  ASSUME NEW W, NEW s \in Seq(W), NEW t \in Seq(W)
  PROVE  /\ Len(s \o t) = Len(s) + Len(t) /\ s \o t \in Seq(W)
         /\ \A i \in 1..Len(s) : (s \o t)[i] = s[i]
         /\ \A i \in 1..Len(t) : (s \o t)[Len(s) + i] = t[i]
<1>1. Len(s) \in Nat /\ Len(t) \in Nat
  OBVIOUS
<1>2. Len(s \o t) = Len(s) + Len(t) /\ s \o t \in Seq(W)
  BY ConcatProperties
<1>3. \A i \in 1..(Len(s) + Len(t)) :
        (s \o t)[i] = IF i <= Len(s) THEN s[i] ELSE t[i - Len(s)]
  BY ConcatProperties
<1>4. \A i \in 1..Len(s) : (s \o t)[i] = s[i]
  BY <1>1, <1>3
<1>5. ASSUME NEW i \in 1..Len(t) PROVE (s \o t)[Len(s) + i] = t[i]
  <2>1. Len(s) + i \in 1..(Len(s) + Len(t)) /\ ~(Len(s) + i <= Len(s)) /\ (Len(s) + i) - Len(s) = i
    BY <1>1
  <2>2. PICK at \in Int : at = Len(s) + i
    BY <1>1
  <2> QED
    BY <1>3, <2>1, <2>2
<1> QED
  BY <1>2, <1>4, <1>5

----------------------------------------------------------------------------
(* PartitionNames: texts                                                   *)

LEMMA TextIs ==
  ASSUME NEW s, IsText(s)
  PROVE  Len(s) \in Nat /\ DOMAIN s = 1..Len(s)
BY DEF IsText

LEMMA TextsShare ==
  ASSUME NEW s, NEW t, NEW c, IsText(s), IsText(t)
  PROVE  \E W : s \in Seq(W) /\ t \in Seq(W) /\ c \in W
<1>1. PICK W : W = ToSet(s) \cup ToSet(t) \cup {c}
  OBVIOUS
<1>2. s \in Seq(W)
  BY <1>1 DEF IsText
<1>3. t \in Seq(W)
  BY <1>1 DEF IsText
<1> QED
  BY <1>1, <1>2, <1>3

\* What comes before and after the first separator can be read back.
LEMMA SplitsAtFirst ==
  ASSUME NEW W, NEW t \in Seq(W), NEW k \in Seq(W), NEW c \in W,
         t # <<>>, k # <<>>, \A i \in 1..Len(t) : t[i] # c, NEW s, s = t \o <<c>> \o k
  PROVE  /\ s \in Seq(W) /\ Len(s) = Len(t) + 1 + Len(k)
         /\ Len(t) \in Nat \ {0} /\ Len(k) \in Nat \ {0}
         /\ s[Len(t) + 1] = c /\ \A i \in 1..Len(t) : s[i] # c
         /\ SubSeq(s, 1, Len(t)) = t /\ SubSeq(s, Len(t) + 2, Len(s)) = k
<1>1. PICK m \in Seq(W) : m = <<c>> /\ Len(m) = 1 /\ m[1] = c
  <2>1. <<c>> \in Seq(W) /\ Len(<<c>>) = 1 /\ <<c>>[1] = c
    OBVIOUS
  <2> QED
    BY <2>1, Zenon
<1>2. PICK r \in Seq(W) : r = t \o m
  BY Concatenation
<1>3. /\ Len(r) = Len(t) + 1 /\ \A i \in 1..Len(t) : r[i] = t[i]
      /\ r[Len(t) + 1] = c
  <2>1. /\ Len(r) = Len(t) + Len(m) /\ \A i \in 1..Len(t) : r[i] = t[i]
        /\ \A i \in 1..Len(m) : r[Len(t) + i] = m[i]
    BY <1>2, Concatenation
  <2> QED
    BY <1>1, <2>1
<1>4. s = r \o k
  BY <1>1, <1>2
<1>5. s \in Seq(W) /\ Len(s) = Len(r) + Len(k) /\ \A i \in 1..Len(r) : s[i] = r[i]
  <2>1. /\ r \o k \in Seq(W) /\ Len(r \o k) = Len(r) + Len(k)
        /\ \A i \in 1..Len(r) : (r \o k)[i] = r[i]
    BY Concatenation
  <2> QED
    BY <1>4, <2>1
<1>6. Len(t) \in Nat \ {0} /\ Len(k) \in Nat \ {0}
  <2>1. Len(t) \in Nat /\ Len(k) \in Nat
    OBVIOUS
  <2>2. Len(t) # 0
    BY EmptySeq
  <2>3. Len(k) # 0
    BY EmptySeq
  <2> QED
    BY <2>1, <2>2, <2>3
<1>7. s[Len(t) + 1] = c /\ \A i \in 1..Len(t) : s[i] # c
  <2>1. Len(t) + 1 \in 1..Len(r) /\ \A i \in 1..Len(t) : i \in 1..Len(r)
    BY <1>3, <1>6
  <2> QED
    BY <1>3, <1>5, <2>1
<1>8. SubSeq(s, 1, Len(t)) = t
  <2>1. 1 \in 1..Len(r) /\ Len(t) \in 1..Len(r)
    BY <1>3, <1>6
  <2>2. SubSeq(s, 1, Len(t)) = SubSeq(r, 1, Len(t))
    BY <1>4, <2>1, SubSeqOfConcat1
  <2>3. 1 \in 1..Len(t) /\ Len(t) \in 1..Len(t)
    BY <1>6
  <2>4. SubSeq(r, 1, Len(t)) = SubSeq(t, 1, Len(t))
    BY <1>2, <2>3, SubSeqOfConcat1
  <2> QED
    BY <2>2, <2>4, SubSeqFull
<1>9. SubSeq(s, Len(t) + 2, Len(s)) = k
  <2>1. PICK m1 \in Int, n1 \in Int : m1 = Len(t) + 2 /\ n1 = Len(s)
    BY <1>3, <1>5, <1>6
  <2>2. m1 \in (Len(r) + 1)..(Len(r) + Len(k)) /\ n1 \in (Len(r) + 1)..(Len(r) + Len(k))
    BY <1>3, <1>5, <1>6, <2>1
  <2>3. SubSeq(r \o k, m1, n1) = SubSeq(k, m1 - Len(r), n1 - Len(r))
    BY <2>2, SubSeqOfConcat2
  <2>4. m1 - Len(r) = 1 /\ n1 - Len(r) = Len(k)
    BY <1>3, <1>5, <1>6, <2>1
  <2> QED
    BY <1>4, <2>1, <2>3, <2>4, SubSeqFull
<1> QED
  BY <1>3, <1>5, <1>6, <1>7, <1>8, <1>9

LEMMA FirstColonIs ==
  ASSUME NEW s, NEW n \in Nat \ {0}, NEW m \in Nat \ {0}, Len(s) = n + 1 + m,
         s[n + 1] = Colon, \A i \in 1..n : s[i] # Colon
  PROVE  FirstColon(s) = n + 1 /\ Colons(s) # {}
<1>1. n + 1 \in Colons(s)
  <2>1. n + 1 \in 1..Len(s)
    OBVIOUS
  <2> QED
    BY <2>1 DEF Colons
<1>2. \A j \in Colons(s) : j \in Nat /\ n + 1 <= j
  BY DEF Colons
<1>3. \A i \in Colons(s) : (\A j \in Colons(s) : i <= j) => i = n + 1
  BY <1>1, <1>2
<1>4. FirstColon(s) = n + 1
  BY <1>1, <1>2, <1>3 DEF FirstColon
<1> QED
  BY <1>1, <1>4

\* The text of an id is read back as that id.
LEMMA RoundTrip ==
  ASSUME NEW id \in Ids, WellFormed(id)
  PROVE  Parses(Display(id)) /\ FromStr(Display(id)) = id
<1>1. /\ id = [type |-> id.type, key |-> id.key] /\ IsText(id.type) /\ IsText(id.key)
  BY NamesAssumption
<1>a. PICK W : id.type \in Seq(W) /\ id.key \in Seq(W) /\ Colon \in W
  BY <1>1, TextsShare
<1>2. PICK t \in Seq(W), k \in Seq(W), c \in W : t = id.type /\ k = id.key /\ c = Colon
  BY <1>a, Zenon
<1>3. PICK s : s = t \o <<c>> \o k
  OBVIOUS
<1>4. s = Display(id) /\ t # <<>> /\ k # <<>> /\ \A i \in 1..Len(t) : t[i] # c
  BY <1>2, <1>3 DEF Display, WellFormed, Colons
<1>5. /\ s \in Seq(W) /\ Len(s) = Len(t) + 1 + Len(k)
      /\ Len(t) \in Nat \ {0} /\ Len(k) \in Nat \ {0}
      /\ s[Len(t) + 1] = c /\ \A i \in 1..Len(t) : s[i] # c
      /\ SubSeq(s, 1, Len(t)) = t /\ SubSeq(s, Len(t) + 2, Len(s)) = k
  BY <1>3, <1>4, SplitsAtFirst
<1>6. FirstColon(s) = Len(t) + 1 /\ Colons(s) # {}
  BY <1>2, <1>5, FirstColonIs
<1>7. Parses(s)
  BY <1>5, <1>6 DEF Parses
<1>8. FromStr(s) = [type |-> t, key |-> k]
  <2>1. FirstColon(s) - 1 = Len(t) /\ FirstColon(s) + 1 = Len(t) + 2
    BY <1>5, <1>6
  <2> QED
    BY <1>5, <2>1 DEF FromStr
<1> QED
  BY <1>1, <1>2, <1>4, <1>7, <1>8

----------------------------------------------------------------------------
(* PartitionNames: how long a sanitized name gets                          *)

Letters == {LowerOf[c] : c \in DOMAIN LowerOf} \cup {Dash}

LEMMA PushKeeps ==
  ASSUME NEW limit \in Nat, NEW f \in Seq(Letters), Len(f) <= limit, NEW c
  PROVE  /\ PushCharacter(f, c, limit) \in Seq(Letters)
         /\ Len(PushCharacter(f, c, limit)) <= limit
<1>1. ASSUME NEW l \in Letters, Len(f) < limit
      PROVE  Append(f, l) \in Seq(Letters) /\ Len(Append(f, l)) <= limit
  <2>1. Append(f, l) \in Seq(Letters) /\ Len(Append(f, l)) = Len(f) + 1
    BY AppendIsIn
  <2>2. Len(f) \in Nat
    OBVIOUS
  <2> QED
    BY <1>1, <2>1, <2>2
<1>2. Dash \in Letters /\ (c \in DOMAIN LowerOf => LowerOf[c] \in Letters)
  BY DEF Letters
<1>3. CASE Len(f) >= limit
  BY <1>3 DEF PushCharacter
<1>4. CASE ~(Len(f) >= limit)
  <2>1. Len(f) < limit
    <3>1. Len(f) \in Nat
      OBVIOUS
    <3> QED
      BY <1>4, <3>1
  <2>2. PushCharacter(f, c, limit) = f \/ \E l \in Letters : PushCharacter(f, c, limit) = Append(f, l)
    BY <1>2, <1>4 DEF PushCharacter
  <2> QED
    BY <1>1, <2>1, <2>2
<1> QED
  BY <1>3, <1>4

\* f is what has been pushed of raw up to each of its first k characters.
IsPushed(f, raw, limit, k) ==
  f = [n \in 0..k |-> IF n = 0 THEN <<>> ELSE PushCharacter(f[n - 1], raw[n], limit)]

LEMMA PushingEnds ==
  ASSUME NEW raw, NEW limit, NEW k \in Nat
  PROVE  \E f : IsPushed(f, raw, limit, k)
<1> DEFINE D == {i \in Nat : ~ \E f : IsPushed(f, raw, limit, i)}
<1> SUFFICES ASSUME D # {} PROVE FALSE
  OBVIOUS
<1>1. PICK i \in D : \A j \in D : i <= j
  BY LeastNumber
<1>2. CASE i = 0
  <2> DEFINE f == [n \in 0..0 |-> <<>>]
  <2>1. IsPushed(f, raw, limit, 0)
    BY DEF IsPushed
  <2> QED
    BY <1>1, <1>2, <2>1
<1>3. CASE i # 0
  <2>1. i - 1 \in Nat /\ i - 1 \notin D /\ i \in Nat
    BY <1>1, <1>3
  <2>2. PICK f : IsPushed(f, raw, limit, i - 1)
    BY <2>1
  <2> DEFINE g == [n \in 0..i |-> IF n = i THEN PushCharacter(f[i - 1], raw[i], limit) ELSE f[n]]
  <2>3. \A n \in 0..(i - 1) : f[n] = IF n = 0 THEN <<>> ELSE PushCharacter(f[n - 1], raw[n], limit)
    BY <2>2 DEF IsPushed
  <2>4. ASSUME NEW n \in 0..i
        PROVE  g[n] = IF n = 0 THEN <<>> ELSE PushCharacter(g[n - 1], raw[n], limit)
    <3>1. CASE n = i
      <4>1. n # 0 /\ n - 1 \in 0..i /\ n - 1 # i
        BY <1>3, <2>1, <3>1
      <4>2. g[n - 1] = f[i - 1]
        BY <3>1, <4>1
      <4> QED
        BY <3>1, <4>1, <4>2
    <3>2. CASE n # i
      <4>1. n \in 0..(i - 1) /\ (n # 0 => n - 1 \in 0..i /\ n - 1 # i)
        BY <2>1, <3>2
      <4>2. g[n] = f[n] /\ (n # 0 => g[n - 1] = f[n - 1])
        BY <3>2, <4>1
      <4> QED
        BY <2>3, <4>1, <4>2
    <3> QED
      BY <3>1, <3>2
  <2>5. g = [n \in 0..i |-> g[n]]
    OBVIOUS
  <2> HIDE DEF g
  <2>6. IsPushed(g, raw, limit, i)
    BY <2>4, <2>5 DEF IsPushed
  <2> QED
    BY <1>1, <2>6
<1> QED
  BY <1>2, <1>3

LEMMA PushedIsShort ==
  ASSUME NEW raw, NEW limit \in Nat, NEW k \in Nat, NEW f, IsPushed(f, raw, limit, k)
  PROVE  f[k] \in Seq(Letters) /\ Len(f[k]) <= limit
<1> DEFINE Short(s) == s \in Seq(Letters) /\ Len(s) <= limit
           D == {i \in 0..k : ~ Short(f[i])}
<1>1. f[0] = <<>> /\ \A n \in 1..k : f[n] = PushCharacter(f[n - 1], raw[n], limit)
  BY DEF IsPushed
<1>2. Short(<<>>)
  OBVIOUS
<1>3. \A s, c : Short(s) => Short(PushCharacter(s, c, limit))
  BY PushKeeps
<1> HIDE DEF Short
<1>4. D = {}
  <2> SUFFICES ASSUME D # {} PROVE FALSE
    OBVIOUS
  <2>0. D \in SUBSET Nat
    OBVIOUS
  <2>1. PICK i \in D : \A j \in D : i <= j
    BY <2>0, LeastNumber
  <2>2. i # 0
    BY <1>1, <1>2, <2>1
  <2>3. i - 1 \in 0..k /\ i \in 1..k /\ i - 1 \notin D
    BY <2>1, <2>2
  <2> QED
    BY <1>1, <1>3, <2>1, <2>3
<1>5. Short(f[k])
  BY <1>4
<1> QED
  BY <1>5 DEF Short

LEMMA GreatestNumber ==
  ASSUME NEW n \in Nat, NEW K \in SUBSET (0..n), K # {}
  PROVE  \E i \in K : \A j \in K : j <= i
<1>1. PICK D \in SUBSET Nat : D = {b \in 0..n : \A j \in K : j <= b}
  <2>1. {b \in 0..n : \A j \in K : j <= b} \in SUBSET Nat
    OBVIOUS
  <2> QED
    BY <2>1, Zenon
<1>2. n \in D
  BY <1>1
<1>3. PICK b \in D : \A c \in D : b <= c
  BY <1>2, LeastNumber
<1>4. b \in K
  <2> SUFFICES ASSUME b \notin K PROVE FALSE
    OBVIOUS
  <2>1. \A j \in K : j \in Nat /\ j <= b /\ j # b
    BY <1>1, <1>3
  <2>2. b # 0 /\ b \in 0..n
    <3>1. b \in 0..n
      BY <1>1
    <3>2. PICK k : k \in K
      OBVIOUS
    <3>3. k \in Nat /\ k <= b /\ k # b
      BY <2>1, <3>2
    <3> QED
      BY <3>1, <3>3
  <2>3. b - 1 \in 0..n /\ \A j \in K : j <= b - 1
    BY <2>1, <2>2
  <2>4. b - 1 \in D
    BY <1>1, <2>3
  <2> QED
    BY <1>3, <2>2, <2>4
<1> QED
  BY <1>1, <1>3, <1>4

LEMMA StripIsShorter ==
  ASSUME NEW s \in Seq(Letters)
  PROVE  Len(StripDashes(s)) \in 0..Len(s)
<1> DEFINE kept == {i \in 1..Len(s) : s[i] # Dash}
           last == IF kept = {} THEN 0 ELSE CHOOSE i \in kept : \A j \in kept : j <= i
<1>1. Len(s) \in Nat
  OBVIOUS
<1>2. kept \in SUBSET (0..Len(s))
  BY <1>1
<1>3. last \in 0..Len(s)
  <2> HIDE DEF kept
  <2>1. CASE kept = {}
    BY <1>1, <2>1
  <2>2. CASE kept # {}
    <3>1. \E i \in kept : \A j \in kept : j <= i
      BY <1>1, <1>2, <2>2, GreatestNumber
    <3>2. last \in kept
      BY <2>2, <3>1
    <3> QED
      BY <1>2, <3>2
  <2> QED
    BY <2>1, <2>2
<1> HIDE DEF last
<1>4. Len(SubSeq(s, 1, last)) = last
  <2>1. \A i \in 1..last : s[i] \in Letters
    BY <1>1, <1>3
  <2>2. Len(SubSeq(s, 1, last)) = IF 1 <= last THEN last - 1 + 1 ELSE 0
    BY <1>3, <2>1, SubSeqProperties
  <2> QED
    BY <1>3, <2>2
<1> QED
  BY <1>3, <1>4 DEF StripDashes, last

LEMMA SanitizedIsShort ==
  ASSUME NEW raw, Len(raw) \in Nat, NEW limit \in Nat
  PROVE  Len(SanitizeFragment(raw, limit)) \in 0..limit
<1> DEFINE pushed == CHOOSE f : IsPushed(f, raw, limit, Len(raw))
<1>1. IsPushed(pushed, raw, limit, Len(raw))
  BY PushingEnds
<1>2. SanitizeFragment(raw, limit) = StripDashes(pushed[Len(raw)])
  BY DEF SanitizeFragment, IsPushed
<1> HIDE DEF pushed
<1>3. pushed[Len(raw)] \in Seq(Letters) /\ Len(pushed[Len(raw)]) <= limit
  BY <1>1, PushedIsShort
<1>4. Len(StripDashes(pushed[Len(raw)])) \in 0..Len(pushed[Len(raw)])
  BY <1>3, StripIsShorter
<1>5. Len(pushed[Len(raw)]) \in Nat
  BY <1>3
<1> QED
  BY <1>2, <1>3, <1>4, <1>5

----------------------------------------------------------------------------
(* PartitionNames: partitions, their names, and where they are kept        *)

NameOf(kind, id) == RecordedName(PartitionFor(kind, id))

LEMMA AppendTells ==
  ASSUME NEW W, NEW s \in Seq(W), NEW x \in W
  PROVE  /\ Append(s, x) \in Seq(W) /\ Len(Append(s, x)) = Len(s) + 1
         /\ Append(s, x)[Len(s) + 1] = x /\ \A i \in 1..Len(s) : Append(s, x)[i] = s[i]
  OBVIOUS

LEMMA FirstOnes ==
  ASSUME NEW W, NEW r \in Seq(W), NEW n \in Nat, n <= Len(r)
  PROVE  /\ SubSeq(r, 1, n) \in Seq(W) /\ Len(SubSeq(r, 1, n)) = n
         /\ \A i \in 1..n : SubSeq(r, 1, n)[i] = r[i]
<1>1. \A i \in 1..n : r[i] \in W /\ i \in 1..Len(r)
  OBVIOUS
<1>2. PICK m \in Int : m = 1 /\ m <= n + 1
  OBVIOUS
<1>3. /\ SubSeq(r, m, n) \in Seq(W)
      /\ Len(SubSeq(r, m, n)) = IF m <= n THEN n - m + 1 ELSE 0
      /\ \A i \in 1..(n - m + 1) : SubSeq(r, m, n)[i] = r[m + i - 1]
  BY <1>1, <1>2, SubSeqProperties
<1>4. \A i \in 1..n : i \in 1..(n - m + 1) /\ m + i - 1 = i
  BY <1>2
<1>5. (IF m <= n THEN n - m + 1 ELSE 0) = n
  BY <1>2
<1> QED
  BY <1>2, <1>3, <1>4, <1>5

LEMMA BucketName ==
  ASSUME NEW b, NEW c
  PROVE  /\ Len(Append(BucketPrefix, b)) = Len(BucketPrefix) + 1
         /\ Len(BucketPrefix) \in Nat
         /\ IsBucketName(Append(BucketPrefix, b)) /\ Last(Append(BucketPrefix, b)) = b
         /\ Append(BucketPrefix, b) = Append(BucketPrefix, c) => b = c
<1>1. PICK W : W = {"b", "u", "c", "k", "e", "t", Dash, b, c}
  OBVIOUS
<1>2. BucketPrefix \in Seq(W) /\ Len(BucketPrefix) = 7 /\ b \in W /\ c \in W
  BY <1>1 DEF BucketPrefix
<1>3. PICK s \in Seq(W) : s = BucketPrefix /\ Len(s) = 7
  BY <1>2
<1>4. ASSUME NEW x \in W
      PROVE  /\ Append(s, x) \in Seq(W) /\ Len(Append(s, x)) = 8 /\ Append(s, x)[8] = x
             /\ \A i \in 1..7 : Append(s, x)[i] = s[i]
  <2>1. /\ Append(s, x) \in Seq(W) /\ Len(Append(s, x)) = Len(s) + 1
        /\ Append(s, x)[Len(s) + 1] = x /\ \A i \in 1..Len(s) : Append(s, x)[i] = s[i]
    BY <1>4, AppendTells
  <2>2. Len(s) + 1 = 8 /\ Len(s) = 7
    BY <1>3
  <2> QED
    BY <2>1, <2>2
<1>5. IsPrefix(s, Append(s, b))
  <2>1. PICK r \in Seq(W) : r = Append(s, b) /\ Len(r) = 8 /\ \A i \in 1..7 : r[i] = s[i]
    BY <1>2, <1>4
  <2>2. PICK u \in Seq(W) : u = SubSeq(r, 1, 7) /\ Len(u) = 7 /\ \A i \in 1..7 : u[i] = r[i]
    <3>1. PICK n \in Nat : n = 7
      OBVIOUS
    <3>2. SubSeq(r, 1, n) \in Seq(W) /\ Len(SubSeq(r, 1, n)) = n /\ \A i \in 1..n : SubSeq(r, 1, n)[i] = r[i]
      BY <2>1, <3>1, FirstOnes
    <3> QED
      BY <3>1, <3>2, Zenon
  <2>3. SubSeq(s, 1, 7) = s
    BY <1>3, SubSeqFull
  <2>4. u = s
    BY <1>3, <2>1, <2>2
  <2> QED
    BY <1>3, <2>1, <2>2, <2>3, <2>4 DEF IsPrefix
<1>6. Len(Append(s, b)) = 8 /\ Append(s, b)[8] = b /\ Append(s, c)[8] = c
  BY <1>2, <1>4
<1> QED
  BY <1>3, <1>5, <1>6 DEF IsBucketName, Last

\* A partition has a name, but for the one of a global strategy.
LEMMA NamesAre ==
  ASSUME NEW kind \in Strategies, NEW id \in Ids
  PROVE  /\ kind \in {"aggregate", "type", "hashed", "by", "global"}
         /\ kind = "global" => PartitionFor(kind, id) = Default /\ NameOf(kind, id) = NoName
         /\ kind # "global" => /\ PartitionFor(kind, id) # Default
                               /\ NameOf(kind, id) = PartitionFor(kind, id).name
                               /\ NameOf(kind, id) # NoName
                               /\ Len(NameOf(kind, id)) \in Nat
<1>1. /\ kind \in {"aggregate", "type", "hashed", "by", "global"}
      /\ IsText(id.type) /\ IsText(id.key) /\ IsText(Partitioner(id))
      /\ Display(id) # NoName /\ id.type # NoName /\ Partitioner(id) # NoName
      /\ Append(BucketPrefix, BucketOf(id)) # NoName
  BY NamesAssumption
<1>2. \A name, key : /\ Named(name, key) # Default
                     /\ RecordedName(Named(name, key)) = name /\ Named(name, key).name = name
  BY DEF Named, Default, RecordedName
<1>3. RecordedName(Default) = NoName
  BY DEF RecordedName
<1>4. Len(Display(id)) \in Nat
  <2>1. PICK W : id.type \in Seq(W) /\ id.key \in Seq(W) /\ Colon \in W
    BY <1>1, TextsShare
  <2>2. PICK t \in Seq(W), k \in Seq(W), c \in W : t = id.type /\ k = id.key /\ c = Colon
    BY <2>1, Zenon
  <2>3. PICK m \in Seq(W) : m = <<c>>
    <3>1. <<c>> \in Seq(W)
      OBVIOUS
    <3> QED
      BY <3>1
  <2>4. PICK r \in Seq(W) : r = t \o m
    BY Concatenation
  <2>5. PICK s \in Seq(W) : s = r \o k
    BY Concatenation
  <2>6. s = Display(id)
    BY <2>2, <2>3, <2>4, <2>5 DEF Display
  <2>7. Len(s) \in Nat
    OBVIOUS
  <2> QED
    BY <2>6, <2>7
<1>5. Len(Append(BucketPrefix, BucketOf(id))) \in Nat
  BY BucketName
<1>6. Len(id.type) \in Nat /\ Len(Partitioner(id)) \in Nat
  BY <1>1, TextIs
<1>7. CASE kind = "aggregate"
  BY <1>1, <1>2, <1>4, <1>7 DEF NameOf, PartitionFor, AggregatePartition
<1>8. CASE kind = "type"
  BY <1>1, <1>2, <1>6, <1>8 DEF NameOf, PartitionFor, TypePartition
<1>9. CASE kind = "hashed"
  BY <1>1, <1>2, <1>5, <1>9 DEF NameOf, PartitionFor, BucketPartition
<1>10. CASE kind = "by"
  BY <1>1, <1>2, <1>6, <1>10 DEF NameOf, PartitionFor, ClosurePartition
<1>11. CASE kind = "global"
  BY <1>3, <1>11 DEF NameOf, PartitionFor
<1> QED
  BY <1>1, <1>7, <1>8, <1>9, <1>10, <1>11

\* A strategy gets back from the name to the partition.
LEMMA ReadBack ==
  ASSUME NEW kind \in Strategies, kind # "global", NEW id \in Ids,
         kind = "aggregate" => WellFormed(id)
  PROVE  PartitionFromName(kind, NameOf(kind, id)) = {PartitionFor(kind, id)}
<1>1. \A name, key : RecordedName(Named(name, key)) = name
  BY DEF Named, Default, RecordedName
<1>2. CASE kind = "aggregate"
  BY <1>1, <1>2, RoundTrip
  DEF NameOf, PartitionFor, PartitionFromName, AggregatePartition, AggregateFromName
<1>3. CASE kind = "type"
  BY <1>1, <1>3 DEF NameOf, PartitionFor, PartitionFromName, TypePartition, TypeFromName
<1>4. CASE kind = "hashed"
  BY <1>1, <1>4, BucketName
  DEF NameOf, PartitionFor, PartitionFromName, BucketPartition, BucketFromName
<1>5. CASE kind = "by"
  BY <1>1, <1>5 DEF NameOf, PartitionFor, PartitionFromName, ClosurePartition, ClosureFromName
<1> QED
  BY <1>2, <1>3, <1>4, <1>5, NamesAre

LEMMA SameNameSamePartition ==
  ASSUME NEW kind \in Strategies, NEW id \in Ids, NEW other \in Ids,
         NameOf(kind, id) = NameOf(kind, other),
         kind = "aggregate" => WellFormed(id) /\ WellFormed(other)
  PROVE  PartitionFor(kind, id) = PartitionFor(kind, other)
<1>1. CASE kind = "global"
  BY <1>1, NamesAre
<1>2. CASE kind # "global"
  <2>1. {PartitionFor(kind, id)} = {PartitionFor(kind, other)}
    BY <1>2, ReadBack
  <2> QED
    BY <2>1
<1> QED
  BY <1>1, <1>2

\* What two targets that are one have in common.
LEMMA TargetTells ==
  ASSUME NEW kind \in {"local", "named", "single"}, NEW prefix, NEW app, NEW m, NEW n,
         Target(kind, prefix, m) = Target(kind, app, n)
  PROVE  \/ kind = "single" /\ prefix = app
         \/ kind = "local" /\ prefix = app /\ m = n
         \/ kind = "named" /\ prefix = app /\ m = n /\ m \notin {NoName, <<>>}
         \/ /\ kind = "named" /\ m \in {NoName, <<>>} /\ n \in {NoName, <<>>}
            /\ SanitizeFragment(prefix, NameLimit) = SanitizeFragment(app, NameLimit)
<1>1. CASE kind = "single"
  BY <1>1 DEF Target
<1>2. CASE kind = "local"
  BY <1>2 DEF Target
<1>3. CASE kind = "named"
  <2>1. /\ Target(kind, prefix, m) = DatabaseName(IF m = NoName THEN <<>> ELSE m, prefix)
        /\ Target(kind, app, n) = DatabaseName(IF n = NoName THEN <<>> ELSE n, app)
    BY <1>3 DEF Target
  <2>2. \A x, p : /\ x # <<>> => /\ DatabaseName(x, p).hash = x
                                 /\ DatabaseName(x, p).prefix.hash = p
                                 /\ DOMAIN DatabaseName(x, p) = {"prefix", "fragment", "hash"}
                  /\ DatabaseName(<<>>, p).default = SanitizeFragment(p, NameLimit)
                  /\ DOMAIN DatabaseName(<<>>, p) = {"default"}
    BY DEF DatabaseName, NamedDatabasePrefix
  <2>3. CASE m \in {NoName, <<>>} /\ n \in {NoName, <<>>}
    BY <1>3, <2>1, <2>2, <2>3
  <2>4. CASE m \notin {NoName, <<>>} /\ n \notin {NoName, <<>>}
    BY <1>3, <2>1, <2>2, <2>4
  <2>5. {"default"} # {"prefix", "fragment", "hash"}
    OBVIOUS
  <2>6. ~(m \in {NoName, <<>>} /\ n \notin {NoName, <<>>})
    <3> SUFFICES ASSUME m \in {NoName, <<>>}, n \notin {NoName, <<>>} PROVE FALSE
      OBVIOUS
    <3>1. DatabaseName(<<>>, prefix) = DatabaseName(n, app) /\ n # <<>>
      BY <2>1
    <3> QED
      BY <2>2, <2>5, <3>1
  <2>7. ~(m \notin {NoName, <<>>} /\ n \in {NoName, <<>>})
    <3> SUFFICES ASSUME m \notin {NoName, <<>>}, n \in {NoName, <<>>} PROVE FALSE
      OBVIOUS
    <3>1. DatabaseName(<<>>, app) = DatabaseName(m, prefix) /\ m # <<>>
      BY <2>1
    <3> QED
      BY <2>2, <2>5, <3>1
  <2> QED
    BY <2>3, <2>4, <2>6, <2>7
<1> QED
  BY <1>1, <1>2, <1>3

\* A remote name is as long as the platform allows at most.
LEMMA NamesFit ==
  ASSUME NEW prefix, NEW name, Len(prefix) \in Nat, name # NoName => Len(name) \in Nat
  PROVE  NameLength(Target("named", prefix, name)) <= NameLimit
<1>1. Len(<<>>) = 0 /\ Len(<<"d", "b">>) = 2
  OBVIOUS
<1> DEFINE x == IF name = NoName THEN <<>> ELSE name
           frag == SanitizeFragment(prefix, PrefixFragmentLimit)
           len == PrefixLength(prefix)
           rest == SanitizeFragment(x, NameLimit - len - HashLen - 2)
           target == Target("named", prefix, name)
<1>2. Len(x) \in Nat /\ target = DatabaseName(x, prefix)
  BY <1>1 DEF Target
<1>3. CASE x = <<>>
  <2>1. target = [default |-> SanitizeFragment(prefix, NameLimit)]
    BY <1>2, <1>3 DEF DatabaseName
  <2>2. NameLength(target) = Len(SanitizeFragment(prefix, NameLimit))
    BY <2>1 DEF NameLength
  <2>3. NameLimit \in Nat
    BY DEF NameLimit
  <2>4. Len(SanitizeFragment(prefix, NameLimit)) \in 0..NameLimit
    BY <2>3, SanitizedIsShort
  <2> QED
    BY <2>2, <2>3, <2>4
<1>4. CASE x # <<>>
  <2>1. Len(frag) \in 0..12
    <3>1. PrefixFragmentLimit = 12 /\ PrefixFragmentLimit \in Nat
      BY DEF PrefixFragmentLimit
    <3> QED
      BY <3>1, SanitizedIsShort
  <2>2. NamedDatabasePrefix(prefix).fragment = IF frag = <<>> THEN <<"d", "b">> ELSE frag
    BY DEF NamedDatabasePrefix
  <2>3. Len(NamedDatabasePrefix(prefix).fragment) \in 0..12
    BY <1>1, <2>1, <2>2
  <2>4. len = Len(NamedDatabasePrefix(prefix).fragment) + 9 /\ NameLimit = 51 /\ HashLen = 16
        /\ PrefixHashLen = 8
    BY <2>3 DEF PrefixLength, PrefixHashLen, NameLimit, HashLen
  <2>5. target = [prefix |-> NamedDatabasePrefix(prefix), fragment |-> rest, hash |-> x]
    BY <1>2, <1>4 DEF DatabaseName
  <2> HIDE DEF len
  <2>51. len \in 9..21
    <3>1. PICK f \in 0..12 : f = Len(NamedDatabasePrefix(prefix).fragment)
      BY <2>3
    <3>2. len = f + 9
      BY <2>4, <3>1
    <3> QED
      BY <3>2
  <2>6. NameLimit - len - HashLen - 2 \in Nat /\ NameLimit - len - HashLen - 2 = 33 - len
    BY <2>4, <2>51
  <2>7. Len(rest) \in 0..(33 - len)
    BY <1>2, <2>6, SanitizedIsShort
  <2> HIDE DEF rest, target
  <2>8. "default" \notin DOMAIN target /\ target.fragment = rest
        /\ target.prefix = NamedDatabasePrefix(prefix)
    BY <2>5
  <2>9. NameLength(target) = Len(NamedDatabasePrefix(prefix).fragment) + 1 + PrefixHashLen
                              + (IF rest = <<>> THEN 0 ELSE 1 + Len(rest)) + 1 + HashLen
    BY <2>8 DEF NameLength
  <2>10. NameLength(target) = len + (IF rest = <<>> THEN 0 ELSE 1 + Len(rest)) + 17
    BY <2>4, <2>9
  <2>11. NameLength(target) <= 51
    <3>1. CASE rest = <<>>
      BY <2>51, <2>10, <3>1
    <3>2. CASE rest # <<>>
      <4>1. NameLength(target) = len + (1 + Len(rest)) + 17
        BY <2>10, <3>2
      <4>2. PICK r \in 0..(33 - len) : r = Len(rest)
        BY <2>7
      <4> QED
        BY <2>51, <4>1, <4>2
    <3> QED
      BY <3>1, <3>2
  <2> QED
    BY <2>4, <2>11 DEF target
<1> QED
  BY <1>3, <1>4

----------------------------------------------------------------------------
(* PartitionNames: a database is the home of one application's partition   *)

\* Where an application, u[1], keeps the partition of an aggregate, u[2].
HomeIn(kind, c, u) == Target(c, u[1], NameOf(kind, u[2]))

LEMMA NamesTyped ==
  ASSUME NEW kind \in Strategies, NEW c \in Catalogs, NEW prefix \in Apps, NEW id \in Ids
  PROVE  /\ PartitionOf[kind][id] = PartitionFor(kind, id)
         /\ RecordedName(PartitionFor(kind, id)) = NameOf(kind, id)
         /\ NameOf(kind, id) \in NamesInUse
         /\ \A n \in NamesInUse : Targets[c][prefix][n] = Target(c, prefix, n)
         /\ c \in {"local", "named", "single"}
<1>1. NameOf(kind, id) \in NamesInUse
  BY DEF NameOf, NamesInUse
<1>2. \A n \in NamesInUse : Targets[c][prefix][n] = Target(c, prefix, n)
  BY DEF Targets
<1>3. PartitionOf[kind][id] = PartitionFor(kind, id)
  BY DEF PartitionOf
<1>4. c \in {"local", "named", "single"}
  BY NamesAssumption
<1> QED
  BY <1>1, <1>2, <1>3, <1>4 DEF NameOf

LEMMA SameHomeSameName ==
  ASSUME NEW kind \in Strategies, NEW c \in Catalogs, c = "single" => kind = "global",
         NEW u \in Apps \X Ids, NEW v \in Apps \X Ids,
         HomeIn(kind, c, u) = HomeIn(kind, c, v)
  PROVE  NameOf(kind, u[2]) = NameOf(kind, v[2])
<1>1. u[2] \in Ids /\ v[2] \in Ids /\ u[1] \in Apps /\ v[1] \in Apps
  OBVIOUS
<1>2. /\ kind = "global" => NameOf(kind, u[2]) = NoName /\ NameOf(kind, v[2]) = NoName
      /\ kind # "global" => NameOf(kind, u[2]) # NoName /\ NameOf(kind, v[2]) # NoName
  BY <1>1, NamesAre
<1>3. c \in {"local", "named", "single"}
  BY NamesAssumption
<1>4. PICK m, n : m = NameOf(kind, u[2]) /\ n = NameOf(kind, v[2])
  OBVIOUS
<1>5. Target(c, u[1], m) = Target(c, v[1], n)
  BY <1>4 DEF HomeIn
<1>6. c = "single" \/ m = n \/ (m \in {NoName, <<>>} /\ n \in {NoName, <<>>})
  BY <1>3, <1>5, TargetTells
<1> QED
  BY <1>2, <1>4, <1>6

\* What Trusted says, of names.
TrustedIn(kind, c, us, prefix) ==
  /\ kind = "aggregate" => \A u \in us : u[1] = prefix => WellFormed(u[2])
  /\ c = "named" /\ kind # "global" => \A u \in us : NameOf(kind, u[2]) # <<>>
  /\ c = "named" /\ kind = "global" =>
       \A app \in Apps \ {prefix} :
         SanitizeFragment(app, NameLimit) # SanitizeFragment(prefix, NameLimit)

\* Where names are trusted, another's database is never one's own.
LEMMA OwnTarget ==
  ASSUME NEW kind \in Strategies, NEW c \in Catalogs,
         NEW us, us \subseteq Apps \X Ids, NEW prefix \in Apps, TrustedIn(kind, c, us, prefix),
         NEW u \in us, NEW n, HomeIn(kind, c, u) = Target(c, prefix, n)
  PROVE  u[1] = prefix
<1>1. u[2] \in Ids /\ u[1] \in Apps
  OBVIOUS
<1>2. kind # "global" => NameOf(kind, u[2]) # NoName
  BY <1>1, NamesAre
<1>3. c \in {"local", "named", "single"}
  BY NamesAssumption
<1>4. PICK m : m = NameOf(kind, u[2])
  OBVIOUS
<1>5. Target(c, u[1], m) = Target(c, prefix, n)
  BY <1>4 DEF HomeIn
<1>6. \/ u[1] = prefix
      \/ /\ c = "named" /\ m \in {NoName, <<>>}
         /\ SanitizeFragment(u[1], NameLimit) = SanitizeFragment(prefix, NameLimit)
  BY <1>3, <1>5, TargetTells
<1> QED
  BY <1>1, <1>2, <1>4, <1>6 DEF TrustedIn

----------------------------------------------------------------------------
(* PartitionNames: the databases there are                                 *)

AreDatabases(dbs) == dbs \in [DOMAIN dbs -> [name : NamesInUse, rows : SUBSET Ids]]

\* One database of the next ones is another than before.
IsPut(next, dbs, t, name, rows) ==
  /\ AreDatabases(next) /\ DOMAIN next = DOMAIN dbs \cup {t}
  /\ next[t].name = name /\ next[t].rows = rows
  /\ \A x \in DOMAIN dbs : x # t => next[x] = dbs[x]

\* A database is somebody's home and is named after it, if at all; what is
\* stored is in its home, whose name is recorded; and nothing else is in there.

Recorded(kind, c, dbs, us, st) ==
  /\ AreDatabases(dbs)
  /\ \A t \in DOMAIN dbs : \E u \in us :
       t = HomeIn(kind, c, u) /\ dbs[t].name \in {NoName, NameOf(kind, u[2])}
  /\ \A u \in st : /\ HomeIn(kind, c, u) \in DOMAIN dbs
                   /\ dbs[HomeIn(kind, c, u)].name = NameOf(kind, u[2])
                   /\ u[2] \in dbs[HomeIn(kind, c, u)].rows
  /\ \A t \in DOMAIN dbs : \A id \in dbs[t].rows : \E u \in st :
       u[2] = id /\ HomeIn(kind, c, u) = t

InUse(kind, c, us, st) ==
  /\ kind \in Strategies /\ c \in Catalogs /\ (c = "single" => kind = "global")
  /\ us \subseteq Apps \X Ids /\ st \subseteq us

NamesInv ==
  /\ InUse(strategy, catalog, used, stored)
  /\ Recorded(strategy, catalog, databases, used, stored)

\* Nobody is refused at home.
LEMMA AdmittedAtHome ==
  ASSUME NEW kind, NEW c, NEW us, NEW st, NEW dbs,
         InUse(kind, c, us, st), Recorded(kind, c, dbs, us, st),
         NEW u \in Apps \X Ids, HomeIn(kind, c, u) \in DOMAIN dbs
  PROVE  dbs[HomeIn(kind, c, u)].name \in {NoName, NameOf(kind, u[2])}
<1>1. PICK v \in us : /\ HomeIn(kind, c, u) = HomeIn(kind, c, v)
                      /\ dbs[HomeIn(kind, c, u)].name \in {NoName, NameOf(kind, v[2])}
  BY DEF Recorded
<1>2. v \in Apps \X Ids
  BY DEF InUse
<1>3. NameOf(kind, u[2]) = NameOf(kind, v[2])
  BY <1>1, <1>2, SameHomeSameName DEF InUse
<1> QED
  BY <1>1, <1>3

\* Databases are named, and named only after those who are at home there.
LEMMA NamingKeeps ==
  ASSUME NEW kind, NEW c, NEW us, NEW st, NEW dbs, NEW next,
         InUse(kind, c, us, st), Recorded(kind, c, dbs, us, st),
         AreDatabases(next), DOMAIN next = DOMAIN dbs,
         \A t \in DOMAIN dbs :
           /\ next[t].rows = dbs[t].rows
           /\ \/ next[t].name = dbs[t].name
              \/ \E u \in Apps \X Ids : t = HomeIn(kind, c, u) /\ next[t].name = NameOf(kind, u[2])
  PROVE  Recorded(kind, c, next, us, st)
<1>1. DOMAIN next = DOMAIN dbs
  OBVIOUS
<1>2. ASSUME NEW t \in DOMAIN next
      PROVE  \E u \in us : t = HomeIn(kind, c, u) /\ next[t].name \in {NoName, NameOf(kind, u[2])}
  <2>1. PICK u \in us : t = HomeIn(kind, c, u) /\ dbs[t].name \in {NoName, NameOf(kind, u[2])}
    BY <1>1, <1>2 DEF Recorded
  <2>2. u \in Apps \X Ids
    BY DEF InUse
  <2>3. \A v \in Apps \X Ids : t = HomeIn(kind, c, v) => NameOf(kind, v[2]) = NameOf(kind, u[2])
    BY <2>1, <2>2, SameHomeSameName DEF InUse
  <2> QED
    BY <1>1, <1>2, <2>1, <2>3
<1>3. ASSUME NEW u \in st
      PROVE  /\ HomeIn(kind, c, u) \in DOMAIN next
             /\ next[HomeIn(kind, c, u)].name = NameOf(kind, u[2])
             /\ u[2] \in next[HomeIn(kind, c, u)].rows
  <2>1. u \in Apps \X Ids
    BY DEF InUse
  <2>2. /\ HomeIn(kind, c, u) \in DOMAIN dbs /\ u[2] \in dbs[HomeIn(kind, c, u)].rows
        /\ dbs[HomeIn(kind, c, u)].name = NameOf(kind, u[2])
    BY DEF Recorded
  <2>3. \A v \in Apps \X Ids :
          HomeIn(kind, c, u) = HomeIn(kind, c, v) => NameOf(kind, v[2]) = NameOf(kind, u[2])
    BY <2>1, SameHomeSameName DEF InUse
  <2> QED
    BY <1>1, <2>2, <2>3
<1>4. \A t \in DOMAIN next : \A id \in next[t].rows : \E u \in st :
        u[2] = id /\ HomeIn(kind, c, u) = t
  BY <1>1 DEF Recorded
<1> QED
  BY <1>1, <1>2, <1>3, <1>4 DEF Recorded

\* A database is created, and not yet named.
LEMMA CreatingKeeps ==
  ASSUME NEW kind, NEW c, NEW us, NEW st, NEW dbs, NEW next,
         InUse(kind, c, us, st), Recorded(kind, c, dbs, us, st),
         NEW u \in Apps \X Ids, NEW h, h = HomeIn(kind, c, u), h \notin DOMAIN dbs,
         IsPut(next, dbs, h, NoName, {}), NEW opened, opened = us \cup {u}
  PROVE  Recorded(kind, c, next, opened, st) /\ InUse(kind, c, opened, st)
<1>1. /\ AreDatabases(next) /\ DOMAIN next = DOMAIN dbs \cup {h}
      /\ \A t \in DOMAIN dbs : next[t] = dbs[t]
  BY DEF IsPut
<1>2. next[h].name = NoName /\ next[h].rows = {}
  BY DEF IsPut
<1>3. \A t \in DOMAIN next : \E v \in opened :
        t = HomeIn(kind, c, v) /\ next[t].name \in {NoName, NameOf(kind, v[2])}
  BY <1>1, <1>2 DEF Recorded
<1>4. \A v \in st : /\ HomeIn(kind, c, v) \in DOMAIN next
                    /\ next[HomeIn(kind, c, v)].name = NameOf(kind, v[2])
                    /\ v[2] \in next[HomeIn(kind, c, v)].rows
  BY <1>1 DEF Recorded
<1>5. \A t \in DOMAIN next : \A id \in next[t].rows : \E v \in st :
        v[2] = id /\ HomeIn(kind, c, v) = t
  BY <1>1, <1>2 DEF Recorded
<1>6. InUse(kind, c, opened, st)
  BY DEF InUse
<1> QED
  BY <1>1, <1>3, <1>4, <1>5, <1>6 DEF Recorded

\* Events are stored in a database that has the name of their partition.
LEMMA StoringKeeps ==
  ASSUME NEW kind, NEW c, NEW us, NEW st, NEW dbs, NEW next,
         InUse(kind, c, us, st), Recorded(kind, c, dbs, us, st),
         NEW u \in Apps \X Ids, NEW h, h = HomeIn(kind, c, u), NEW n, n = NameOf(kind, u[2]),
         NEW rows, NEW new,
         rows = IF h \in DOMAIN dbs THEN dbs[h].rows ELSE {},
         IsPut(next, dbs, h, n, new), new = rows \cup {u[2]},
         NEW opened, opened = us \cup {u}, NEW written, written = st \cup {u}
  PROVE  Recorded(kind, c, next, opened, written) /\ InUse(kind, c, opened, written)
<1>1. /\ AreDatabases(next) /\ DOMAIN next = DOMAIN dbs \cup {h}
      /\ \A t \in DOMAIN dbs : t # h => next[t] = dbs[t]
  BY DEF IsPut
<1>2. /\ next[h].name = NameOf(kind, u[2])
      /\ next[h].rows = rows \cup {u[2]}
  BY DEF IsPut
<1>3. \A t \in DOMAIN next : \E v \in opened :
        t = HomeIn(kind, c, v) /\ next[t].name \in {NoName, NameOf(kind, v[2])}
  BY <1>1, <1>2 DEF Recorded
<1>4. ASSUME NEW v \in written
      PROVE  /\ HomeIn(kind, c, v) \in DOMAIN next
             /\ next[HomeIn(kind, c, v)].name = NameOf(kind, v[2])
             /\ v[2] \in next[HomeIn(kind, c, v)].rows
  <2>1. CASE v = u
    BY <1>1, <1>2, <2>1
  <2>2. CASE v \in st
    <3>1. v \in Apps \X Ids
      BY <2>2 DEF InUse
    <3>2. /\ HomeIn(kind, c, v) \in DOMAIN dbs /\ v[2] \in dbs[HomeIn(kind, c, v)].rows
          /\ dbs[HomeIn(kind, c, v)].name = NameOf(kind, v[2])
      BY <2>2 DEF Recorded
    <3>3. HomeIn(kind, c, u) = HomeIn(kind, c, v) => NameOf(kind, v[2]) = NameOf(kind, u[2])
      BY <3>1, SameHomeSameName DEF InUse
    <3>4. CASE HomeIn(kind, c, u) = HomeIn(kind, c, v)
      BY <1>1, <1>2, <3>2, <3>3, <3>4
    <3>5. CASE HomeIn(kind, c, u) # HomeIn(kind, c, v)
      BY <1>1, <3>2, <3>5
    <3> QED
      BY <3>4, <3>5
  <2> QED
    BY <2>1, <2>2
<1>5. ASSUME NEW t \in DOMAIN next, NEW id \in next[t].rows
      PROVE  \E v \in written : v[2] = id /\ HomeIn(kind, c, v) = t
  <2>1. CASE t # h
    BY <1>1, <1>5, <2>1 DEF Recorded
  <2>2. CASE t = h /\ id = u[2]
    BY <2>2
  <2>3. CASE t = h /\ id # u[2]
    <3>1. t \in DOMAIN dbs /\ id \in dbs[t].rows
      BY <1>2, <1>5, <2>3
    <3> QED
      BY <3>1 DEF Recorded
  <2> QED
    BY <2>1, <2>2, <2>3
<1>6. InUse(kind, c, opened, written)
  BY DEF InUse
<1> QED
  BY <1>1, <1>3, <1>4, <1>5, <1>6 DEF Recorded

\* What a listing shows of a prefix are names of partitions used under it.
LEMMA ListedAre ==
  ASSUME NamesInv, NEW prefix \in Apps, NEW n \in NamesListed(prefix)
  PROVE  strategy # "global" /\ \E u \in used : u[1] = prefix /\ n = NameOf(strategy, u[2])
<1>1. PICK t \in DOMAIN databases :
        /\ Listable(catalog, prefix, t)
        /\ catalog = "named" => databases[t].name # NoName
        /\ n = IF catalog = "local" THEN t.name ELSE databases[t].name
  BY DEF NamesListed
<1>2. PICK u \in used : /\ t = HomeIn(strategy, catalog, u)
                        /\ databases[t].name \in {NoName, NameOf(strategy, u[2])}
  BY DEF NamesInv, Recorded
<1>3. u \in Apps \X Ids /\ u[2] \in Ids /\ strategy \in Strategies /\ catalog \in Catalogs
  BY DEF NamesInv, InUse
<1>4. strategy = "global" => NameOf(strategy, u[2]) = NoName
  BY <1>3, NamesAre
<1>5. CASE catalog = "local"
  <2>1. t = [root |-> u[1], name |-> NameOf(strategy, u[2])]
    BY <1>2, <1>5 DEF HomeIn, Target
  <2> QED
    BY <1>1, <1>4, <1>5, <2>1 DEF Listable
<1>6. CASE catalog = "single"
  <2>1. t = [root |-> u[1], name |-> NoName]
    BY <1>2, <1>6 DEF HomeIn, Target
  <2> QED
    BY <1>1, <1>6, <2>1 DEF Listable
<1>7. CASE catalog = "named"
  <2>1. PICK x : t = DatabaseName(x, u[1])
    BY <1>2, <1>7 DEF HomeIn, Target
  <2>2. "prefix" \in DOMAIN t /\ t.prefix = NamedDatabasePrefix(prefix)
    BY <1>1, <1>7 DEF Listable
  <2>3. x # <<>>
    <3> SUFFICES ASSUME x = <<>> PROVE FALSE
      OBVIOUS
    <3>1. DOMAIN t = {"default"}
      BY <2>1 DEF DatabaseName
    <3> QED
      BY <2>2, <3>1
  <2>4. t.prefix = NamedDatabasePrefix(u[1])
    BY <2>1, <2>3 DEF DatabaseName
  <2>5. u[1] = prefix
    BY <2>2, <2>4 DEF NamedDatabasePrefix
  <2> QED
    BY <1>1, <1>2, <1>4, <1>7, <2>5
<1> QED
  BY <1>3, <1>5, <1>6, <1>7, NamesAssumption

\* A partition made of a name has that name.
LEMMA FromNameIs ==
  ASSUME NEW kind \in Strategies, NEW n, NEW p \in PartitionFromName(kind, n)
  PROVE  RecordedName(p) = n
<1>1. \A name, key : RecordedName(Named(name, key)) = name
  BY DEF Named, Default, RecordedName
<1>2. kind \in {"aggregate", "type", "hashed", "by", "global"}
  BY NamesAssumption
<1>3. \E key : p = Named(n, key)
  BY <1>2 DEF PartitionFromName, AggregateFromName, TypeFromName, BucketFromName,
              ClosureFromName, GlobalFromName
<1> QED
  BY <1>1, <1>3

\* A partition that is known to be there is opened at a home of its own name.
LEMMA KnownAre ==
  ASSUME NamesInv, NEW prefix \in Apps, NEW p \in KnownPartitions(prefix),
         TargetFor(prefix, p) \in DOMAIN databases
  PROVE  /\ TargetFor(prefix, p) = Target(catalog, prefix, RecordedName(p))
         /\ \E u \in Apps \X Ids : /\ TargetFor(prefix, p) = HomeIn(strategy, catalog, u)
                                  /\ RecordedName(p) = NameOf(strategy, u[2])
<1>1. strategy \in Strategies /\ catalog \in Catalogs /\ used \subseteq Apps \X Ids
  BY DEF NamesInv, InUse
<1>2. PICK w \in used : TargetFor(prefix, p) = HomeIn(strategy, catalog, w)
  BY DEF NamesInv, Recorded
<1>3. w[2] \in Ids /\ w \in Apps \X Ids
  BY <1>1
<1>4. CASE strategy = "global"
  <2>1. p = Default
    <3>1. \A n : PartitionFromName("global", n) = {}
      BY DEF PartitionFromName, GlobalFromName
    <3>2. \A n : PartitionFromName(strategy, n) = {}
      BY <1>4, <3>1
    <3>3. Bootstrap(strategy) = {Default}
      BY <1>4 DEF Bootstrap
    <3>4. p \in Bootstrap(strategy)
            \/ \E n \in NamesListed(prefix) : p \in PartitionFromName(strategy, n)
      BY DEF KnownPartitions
    <3> QED
      BY <3>2, <3>3, <3>4
  <2>2. RecordedName(p) = NoName
    BY <2>1 DEF RecordedName
  <2>3. NameOf(strategy, w[2]) = NoName /\ NoName \in NamesInUse
    BY <1>1, <1>3, <1>4, NamesAre DEF NamesInUse
  <2>4. TargetFor(prefix, p) = Target(catalog, prefix, RecordedName(p))
    BY <1>1, <1>3, <2>2, <2>3, NamesTyped DEF TargetFor
  <2> QED
    BY <1>2, <1>3, <2>2, <2>3, <2>4
<1>5. CASE strategy # "global"
  <2>1. PICK n \in NamesListed(prefix) : p \in PartitionFromName(strategy, n)
    BY <1>5 DEF KnownPartitions, Bootstrap
  <2>2. PICK u \in used : u[1] = prefix /\ n = NameOf(strategy, u[2])
    BY <2>1, ListedAre
  <2>3. RecordedName(p) = n
    BY <1>1, <2>1, FromNameIs
  <2>4. u[2] \in Ids /\ u \in Apps \X Ids
    BY <1>1
  <2>5. n \in NamesInUse
    BY <1>1, <2>2, <2>4, NamesTyped
  <2>6. TargetFor(prefix, p) = Target(catalog, prefix, RecordedName(p))
    BY <1>1, <1>3, <2>3, <2>5, NamesTyped DEF TargetFor
  <2>7. TargetFor(prefix, p) = HomeIn(strategy, catalog, u)
    BY <2>2, <2>3, <2>6 DEF HomeIn
  <2> QED
    BY <2>2, <2>3, <2>4, <2>6, <2>7
<1> QED
  BY <1>4, <1>5

LEMMA PairIs ==
  ASSUME NEW A, NEW B, NEW a \in A, NEW b \in B
  PROVE  \E u \in A \X B : u = <<a, b>> /\ u[1] = a /\ u[2] = b
<1>1. <<a, b>> \in A \X B /\ <<a, b>>[1] = a /\ <<a, b>>[2] = b
  OBVIOUS
<1> QED
  BY <1>1, Zenon

\* The target of a call that is given an id is that id's home.
LEMMA TargetIsHome ==
  ASSUME NamesInv, NEW prefix \in Apps, NEW id \in Ids
  PROVE  /\ TargetFor(prefix, PartitionOf[strategy][id])
              = HomeIn(strategy, catalog, <<prefix, id>>)
         /\ RecordedName(PartitionOf[strategy][id]) = NameOf(strategy, id)
         /\ NameOf(strategy, id) \in NamesInUse
         /\ PartitionOf[strategy][id] = PartitionFor(strategy, id)
         /\ Admits(TargetFor(prefix, PartitionOf[strategy][id]), PartitionOf[strategy][id])
<1>1. strategy \in Strategies /\ catalog \in Catalogs
  BY DEF NamesInv, InUse
<1>2. /\ PartitionOf[strategy][id] = PartitionFor(strategy, id)
      /\ RecordedName(PartitionFor(strategy, id)) = NameOf(strategy, id)
      /\ NameOf(strategy, id) \in NamesInUse
      /\ \A n \in NamesInUse : Targets[catalog][prefix][n] = Target(catalog, prefix, n)
  BY <1>1, NamesTyped
<1>3. PICK u \in Apps \X Ids : u = <<prefix, id>> /\ u[1] = prefix /\ u[2] = id
  BY PairIs
<1>4. TargetFor(prefix, PartitionOf[strategy][id]) = HomeIn(strategy, catalog, u)
  BY <1>2, <1>3 DEF TargetFor, HomeIn
<1>5. HomeIn(strategy, catalog, u) \in DOMAIN databases =>
        databases[HomeIn(strategy, catalog, u)].name \in {NoName, NameOf(strategy, u[2])}
  BY AdmittedAtHome DEF NamesInv
<1> QED
  BY <1>2, <1>3, <1>4, <1>5 DEF Admits

----------------------------------------------------------------------------
(* PartitionNames: every call keeps the databases as recorded              *)

\* Put gives the databases a next one.
LEMMA PutTells ==
  ASSUME NamesInv, NEW t, NEW name, NEW rows, NEW next,
         next = Put(t, name, rows), name \in NamesInUse, rows \subseteq Ids
  PROVE  IsPut(next, databases, t, name, rows)
<1>1. databases \in [DOMAIN databases -> [name : NamesInUse, rows : SUBSET Ids]]
  BY DEF NamesInv, Recorded, AreDatabases
<1>2. /\ next \in [DOMAIN databases \cup {t} -> [name : NamesInUse, rows : SUBSET Ids]]
      /\ next[t] = [name |-> name, rows |-> rows]
      /\ \A x \in DOMAIN databases : x # t => next[x] = databases[x]
  BY <1>1 DEF Put
<1> QED
  BY <1>2 DEF IsPut, AreDatabases

LEMMA RowsAre ==
  ASSUME NamesInv, NEW t
  PROVE  /\ RowsOf(t) \subseteq Ids
         /\ RowsOf(t) = IF t \in DOMAIN databases THEN databases[t].rows ELSE {}
<1>1. databases \in [DOMAIN databases -> [name : NamesInUse, rows : SUBSET Ids]]
  BY DEF NamesInv, Recorded, AreDatabases
<1> QED
  BY <1>1 DEF RowsOf

LEMMA StoreKeepsNames ==
  ASSUME NamesInv, NEW prefix \in Apps, NEW id \in Ids, StoreEvents(prefix, id)
  PROVE  NamesInv'
<1>1. PICK u \in Apps \X Ids : u = <<prefix, id>> /\ u[1] = prefix /\ u[2] = id
  BY PairIs
<1>2. PICK t, n, rows, new : /\ t = HomeIn(strategy, catalog, u) /\ n = NameOf(strategy, u[2])
                             /\ rows = RowsOf(t) /\ new = rows \cup {u[2]}
  OBVIOUS
<1>3. /\ databases' = Put(t, n, new)
      /\ stored' = stored \cup {u} /\ used' = used \cup {u}
      /\ strategy' = strategy /\ catalog' = catalog
  BY <1>1, <1>2, TargetIsHome DEF StoreEvents
<1>4. n \in NamesInUse
  BY <1>1, <1>2, TargetIsHome
<1>5. rows \subseteq Ids /\ new \subseteq Ids
      /\ rows = IF t \in DOMAIN databases THEN databases[t].rows ELSE {}
  BY <1>1, <1>2, RowsAre
<1>6. IsPut(databases', databases, t, n, new)
  BY <1>3, <1>4, <1>5, PutTells
<1>7. /\ Recorded(strategy, catalog, databases', used', stored')
      /\ InUse(strategy, catalog, used', stored')
  BY <1>2, <1>3, <1>5, <1>6, StoringKeeps DEF NamesInv
<1> QED
  BY <1>3, <1>7 DEF NamesInv

LEMMA CreateKeepsNames ==
  ASSUME NamesInv, NEW prefix \in Apps, NEW id \in Ids, CreateOnly(prefix, id)
  PROVE  NamesInv'
<1>1. PICK u \in Apps \X Ids : u = <<prefix, id>> /\ u[1] = prefix /\ u[2] = id
  BY PairIs
<1>2. PICK t : t = HomeIn(strategy, catalog, u)
  OBVIOUS
<1>3. /\ databases' = Put(t, NoName, {}) /\ t \notin DOMAIN databases
      /\ stored' = stored /\ used' = used \cup {u}
      /\ strategy' = strategy /\ catalog' = catalog
  BY <1>1, <1>2, TargetIsHome DEF CreateOnly
<1>4. NoName \in NamesInUse /\ {} \subseteq Ids
  BY DEF NamesInUse
<1>5. IsPut(databases', databases, t, NoName, {})
  BY <1>3, <1>4, PutTells
<1>6. /\ Recorded(strategy, catalog, databases', used', stored)
      /\ InUse(strategy, catalog, used', stored)
  BY <1>2, <1>3, <1>5, CreatingKeeps DEF NamesInv
<1> QED
  BY <1>3, <1>6 DEF NamesInv

LEMMA LoadKeepsNames ==
  ASSUME NamesInv, NEW prefix \in Apps, NEW id \in Ids, LoadEvents(prefix, id)
  PROVE  NamesInv'
<1>1. PICK u \in Apps \X Ids : u = <<prefix, id>> /\ u[1] = prefix /\ u[2] = id
  BY PairIs
<1>2. PICK t, n, rows : /\ t = HomeIn(strategy, catalog, u) /\ n = NameOf(strategy, u[2])
                        /\ rows = RowsOf(t)
  OBVIOUS
<1>3. /\ databases' = IF t \in DOMAIN databases THEN Put(t, n, rows) ELSE databases
      /\ stored' = stored /\ used' = used /\ strategy' = strategy /\ catalog' = catalog
  BY <1>1, <1>2, TargetIsHome DEF LoadEvents
<1>4. n \in NamesInUse
  BY <1>1, <1>2, TargetIsHome
<1>5. rows \subseteq Ids /\ rows = IF t \in DOMAIN databases THEN databases[t].rows ELSE {}
  BY <1>2, RowsAre
<1>6. CASE t \notin DOMAIN databases
  BY <1>3, <1>6 DEF NamesInv
<1>7. CASE t \in DOMAIN databases
  <2>1. IsPut(databases', databases, t, n, rows)
    BY <1>3, <1>4, <1>5, <1>7, PutTells
  <2>2. AreDatabases(databases') /\ DOMAIN databases' = DOMAIN databases
    BY <1>7, <2>1 DEF IsPut
  <2>3. \A x \in DOMAIN databases :
          /\ databases'[x].rows = databases[x].rows
          /\ \/ databases'[x].name = databases[x].name
             \/ \E v \in Apps \X Ids :
                  x = HomeIn(strategy, catalog, v) /\ databases'[x].name = NameOf(strategy, v[2])
    BY <1>2, <1>5, <1>7, <2>1 DEF IsPut
  <2>4. Recorded(strategy, catalog, databases', used, stored)
    BY <2>2, <2>3, NamingKeeps DEF NamesInv
  <2> QED
    BY <1>3, <2>4 DEF NamesInv
<1> QED
  BY <1>6, <1>7

\* An enumeration: the partitions it knows of, those it opens, and how it goes.
Known(prefix) == IF ListingFails(prefix) THEN {} ELSE KnownPartitions(prefix)

OpenedOf(prefix, type) ==
  {p \in Known(prefix) : /\ ReadPlan(strategy, p, type).scan # {}
                         /\ TargetFor(prefix, p) \in DOMAIN databases}

LEMMA EnumerateIs ==
  ASSUME NEW prefix, NEW type, EnumerateIds(prefix, type)
  PROVE  /\ strategy' = strategy /\ catalog' = catalog /\ used' = used /\ stored' = stored
         /\ \E ok \in BOOLEAN :
              /\ ok <=> /\ ~ListingFails(prefix)
                        /\ \A p \in OpenedOf(prefix, type) : Admits(TargetFor(prefix, p), p)
              /\ result'.op = "enumerate" /\ result'.prefix = prefix /\ result'.ok = ok
              /\ result'.of = {id \in Ids : type \in {NoName, id.type}}
              /\ ok => result'.ids =
                   (UNION {ReadPlan(strategy, p, type).direct : p \in Known(prefix)})
                     \cup UNION {RowsOf(TargetFor(prefix, p)) \cap ReadPlan(strategy, p, type).scan :
                                   p \in OpenedOf(prefix, type)}
              /\ databases' =
                   [t \in DOMAIN databases |->
                      IF \E p \in OpenedOf(prefix, type) : TargetFor(prefix, p) = t /\ ok
                        THEN [databases[t] EXCEPT
                                !.name = RecordedName(CHOOSE p \in OpenedOf(prefix, type) :
                                                        TargetFor(prefix, p) = t)]
                        ELSE databases[t]]
<1> DEFINE partitions == Known(prefix)
           plan == [p \in partitions |-> ReadPlan(strategy, p, type)]
           opened == {p \in partitions : /\ plan[p].scan # {}
                                         /\ TargetFor(prefix, p) \in DOMAIN databases}
           ok == ~ListingFails(prefix) /\ \A p \in opened : Admits(TargetFor(prefix, p), p)
<1>1. /\ strategy' = strategy /\ catalog' = catalog /\ used' = used /\ stored' = stored
      /\ result' = [op |-> "enumerate", prefix |-> prefix, ok |-> ok,
                    of |-> {id \in Ids : type \in {NoName, id.type}},
                    ids |-> IF ~ok THEN {}
                            ELSE (UNION {plan[p].direct : p \in partitions})
                                   \cup UNION {RowsOf(TargetFor(prefix, p)) \cap plan[p].scan :
                                                 p \in opened}]
      /\ databases' =
           [t \in DOMAIN databases |->
              IF \E p \in opened : TargetFor(prefix, p) = t /\ ok
                THEN [databases[t] EXCEPT
                        !.name = RecordedName(CHOOSE p \in opened : TargetFor(prefix, p) = t)]
                ELSE databases[t]]
  BY DEF EnumerateIds, Known
<1>2. \A p \in partitions : plan[p] = ReadPlan(strategy, p, type)
  OBVIOUS
<1> HIDE DEF plan, partitions
<1>3. opened = OpenedOf(prefix, type)
  BY <1>2 DEF OpenedOf, partitions
<1>4. \A p \in opened : p \in partitions
  OBVIOUS
<1>5. {plan[p].direct : p \in partitions} = {ReadPlan(strategy, p, type).direct : p \in partitions}
  BY <1>2
<1> HIDE DEF opened
<1>6. {RowsOf(TargetFor(prefix, p)) \cap plan[p].scan : p \in opened}
        = {RowsOf(TargetFor(prefix, p)) \cap ReadPlan(strategy, p, type).scan : p \in opened}
  BY <1>2, <1>4
<1>7. ok \in BOOLEAN
  OBVIOUS
<1>8. result'.op = "enumerate" /\ result'.prefix = prefix /\ result'.ok = ok
  BY <1>1
<1> QED
  BY <1>1, <1>3, <1>5, <1>6, <1>7 DEF partitions

LEMMA EnumerateKeepsNames ==
  ASSUME NamesInv, NEW prefix \in Apps, NEW type, EnumerateIds(prefix, type)
  PROVE  NamesInv'
<1>1. PICK ok \in BOOLEAN :
        databases' =
          [t \in DOMAIN databases |->
             IF \E p \in OpenedOf(prefix, type) : TargetFor(prefix, p) = t /\ ok
               THEN [databases[t] EXCEPT
                       !.name = RecordedName(CHOOSE p \in OpenedOf(prefix, type) :
                                               TargetFor(prefix, p) = t)]
               ELSE databases[t]]
  BY EnumerateIs
<1>2. strategy' = strategy /\ catalog' = catalog /\ used' = used /\ stored' = stored
  BY EnumerateIs
<1>3. databases \in [DOMAIN databases -> [name : NamesInUse, rows : SUBSET Ids]]
  BY DEF NamesInv, Recorded, AreDatabases
<1>4. ASSUME NEW t \in DOMAIN databases, NEW q \in OpenedOf(prefix, type), TargetFor(prefix, q) = t
      PROVE  /\ RecordedName(q) \in NamesInUse
             /\ \E u \in Apps \X Ids :
                  t = HomeIn(strategy, catalog, u) /\ RecordedName(q) = NameOf(strategy, u[2])
  <2>1. q \in KnownPartitions(prefix)
    BY DEF OpenedOf, Known
  <2>2. PICK u \in Apps \X Ids :
          t = HomeIn(strategy, catalog, u) /\ RecordedName(q) = NameOf(strategy, u[2])
    BY <1>4, <2>1, KnownAre
  <2>3. u[1] \in Apps /\ u[2] \in Ids /\ strategy \in Strategies /\ catalog \in Catalogs
    BY DEF NamesInv, InUse
  <2>4. RecordedName(q) \in NamesInUse
    BY <2>2, <2>3, NamesTyped
  <2> QED
    BY <2>2, <2>4
<1>5. ASSUME NEW t \in DOMAIN databases
      PROVE  /\ databases'[t] \in [name : NamesInUse, rows : SUBSET Ids]
             /\ databases'[t].rows = databases[t].rows
             /\ \/ databases'[t].name = databases[t].name
                \/ \E u \in Apps \X Ids :
                     t = HomeIn(strategy, catalog, u) /\ databases'[t].name = NameOf(strategy, u[2])
  <2>1. CASE \E p \in OpenedOf(prefix, type) : TargetFor(prefix, p) = t /\ ok
    <3>1. PICK q : q = CHOOSE p \in OpenedOf(prefix, type) : TargetFor(prefix, p) = t
      OBVIOUS
    <3>2. q \in OpenedOf(prefix, type) /\ TargetFor(prefix, q) = t
      BY <2>1, <3>1
    <3>3. PICK n : n = RecordedName(q)
      OBVIOUS
    <3>4. /\ n \in NamesInUse
          /\ \E u \in Apps \X Ids :
               t = HomeIn(strategy, catalog, u) /\ n = NameOf(strategy, u[2])
      BY <1>4, <3>2, <3>3
    <3>5. databases'[t] = [databases[t] EXCEPT !.name = n]
      BY <1>1, <2>1, <3>1, <3>3
    <3>6. databases[t] \in [name : NamesInUse, rows : SUBSET Ids]
      BY <1>3
    <3>7. /\ databases'[t] \in [name : NamesInUse, rows : SUBSET Ids]
          /\ databases'[t].rows = databases[t].rows /\ databases'[t].name = n
      BY <3>4, <3>5, <3>6
    <3> QED
      BY <3>4, <3>7
  <2>2. CASE ~\E p \in OpenedOf(prefix, type) : TargetFor(prefix, p) = t /\ ok
    <3>1. databases'[t] = databases[t]
      BY <1>1, <2>2
    <3> QED
      BY <1>3, <3>1
  <2> QED
    BY <2>1, <2>2
<1>6. DOMAIN databases' = DOMAIN databases
  BY <1>1
<1>7. AreDatabases(databases')
  <2>1. databases' = [t \in DOMAIN databases' |-> databases'[t]]
    BY <1>1
  <2> QED
    BY <1>5, <1>6, <2>1 DEF AreDatabases
<1>8. Recorded(strategy, catalog, databases', used, stored)
  BY <1>5, <1>6, <1>7, NamingKeeps DEF NamesInv
<1> QED
  BY <1>2, <1>8 DEF NamesInv

LEMMA NamesInvariance == NamesSpec => []NamesInv
<1>1. NamesInit => NamesInv
  <2> SUFFICES ASSUME NamesInit PROVE NamesInv
    OBVIOUS
  <2>1. DOMAIN databases = {} /\ AreDatabases(databases)
    BY DEF NamesInit, AreDatabases
  <2>2. InUse(strategy, catalog, used, stored)
    BY DEF NamesInit, InUse
  <2>3. stored = {}
    BY DEF NamesInit
  <2> QED
    BY <2>1, <2>2, <2>3 DEF NamesInv, Recorded
<1>2. NamesInv /\ [NamesNext]_namesVars => NamesInv'
  <2> SUFFICES ASSUME NamesInv, [NamesNext]_namesVars PROVE NamesInv'
    OBVIOUS
  <2>1. CASE ProcessEnds \/ UNCHANGED namesVars
    BY <2>1 DEF ProcessEnds, namesVars, NamesInv
  <2>2. CASE \E prefix \in Apps, id \in Ids : StoreEvents(prefix, id)
    BY <2>2, StoreKeepsNames
  <2>3. CASE \E prefix \in Apps, id \in Ids : CreateOnly(prefix, id)
    BY <2>3, CreateKeepsNames
  <2>4. CASE \E prefix \in Apps, id \in Ids : LoadEvents(prefix, id)
    BY <2>4, LoadKeepsNames
  <2>5. CASE \E prefix \in Apps : \E type \in {id.type : id \in Ids} \cup {NoName} :
               EnumerateIds(prefix, type)
    BY <2>5, EnumerateKeepsNames
  <2> QED
    BY <2>1, <2>2, <2>3, <2>4, <2>5 DEF NamesNext
<1> QED
  BY <1>1, <1>2, PTL DEF NamesSpec

----------------------------------------------------------------------------
(* PartitionNames: databases apart                                         *)

LEMMA TrustIs ==
  ASSUME NamesInv, NEW prefix, Trusted(prefix)
  PROVE  TrustedIn(strategy, catalog, used, prefix)
<1>1. strategy \in Strategies /\ catalog \in Catalogs /\ used \subseteq Apps \X Ids
  BY DEF NamesInv, InUse
<1>2. ASSUME catalog = "named", strategy # "global", NEW u \in used
      PROVE  NameOf(strategy, u[2]) # <<>>
  <2>1. u[1] \in Apps /\ u[2] \in Ids
    BY <1>1
  <2>2. PartitionOf[strategy][u[2]] = PartitionFor(strategy, u[2])
    BY <1>1, <2>1, NamesTyped
  <2>3. /\ PartitionFor(strategy, u[2]) # Default
        /\ NameOf(strategy, u[2]) = PartitionFor(strategy, u[2]).name
    BY <1>1, <1>2, <2>1, NamesAre
  <2> QED
    BY <1>2, <2>2, <2>3 DEF Trusted
<1> QED
  BY <1>2 DEF Trusted, TrustedIn

LEMMA ApartNow ==
  ASSUME NamesInv
  PROVE  DatabasesApart
<1>1. strategy \in Strategies /\ catalog \in Catalogs /\ used \subseteq Apps \X Ids
  BY DEF NamesInv, InUse
<1>2. ASSUME NEW u \in used, NEW v \in used, NEW p, NEW q,
             p = PartitionOf[strategy][u[2]], q = PartitionOf[strategy][v[2]],
             TargetFor(u[1], p) = TargetFor(v[1], q), Trusted(u[1]), Trusted(v[1])
      PROVE  u[1] = v[1] /\ p = q
  <2>1. u[1] \in Apps /\ u[2] \in Ids /\ v[1] \in Apps /\ v[2] \in Ids
    BY <1>1
  <2>2. /\ TargetFor(u[1], p) = HomeIn(strategy, catalog, <<u[1], u[2]>>)
        /\ TargetFor(v[1], q) = HomeIn(strategy, catalog, <<v[1], v[2]>>)
        /\ p = PartitionFor(strategy, u[2]) /\ q = PartitionFor(strategy, v[2])
    BY <1>2, <2>1, TargetIsHome
  <2>3. u = <<u[1], u[2]>> /\ v = <<v[1], v[2]>>
    BY <1>1
  <2>4. HomeIn(strategy, catalog, u) = HomeIn(strategy, catalog, v)
    BY <1>2, <2>2, <2>3
  <2>5. TrustedIn(strategy, catalog, used, v[1]) /\ TrustedIn(strategy, catalog, used, u[1])
    BY <1>2, TrustIs
  <2>6. u[1] = v[1]
    <3>1. HomeIn(strategy, catalog, u) = Target(catalog, v[1], NameOf(strategy, v[2]))
      BY <2>4 DEF HomeIn
    <3> QED
      BY <1>1, <2>1, <2>5, <3>1, OwnTarget
  <2>7. NameOf(strategy, u[2]) = NameOf(strategy, v[2])
    BY <1>1, <2>4, SameHomeSameName DEF NamesInv, InUse
  <2>8. strategy = "aggregate" => WellFormed(u[2]) /\ WellFormed(v[2])
    BY <2>5 DEF TrustedIn
  <2>9. PartitionFor(strategy, u[2]) = PartitionFor(strategy, v[2])
    BY <1>1, <2>1, <2>7, <2>8, SameNameSamePartition
  <2> QED
    BY <2>2, <2>6, <2>9
<1>3. ASSUME catalog = "named", NEW t \in DOMAIN databases
      PROVE  NameLength(t) <= NameLimit
  <2>1. PICK u \in used : t = HomeIn(strategy, catalog, u)
    BY DEF NamesInv, Recorded
  <2>2. u[1] \in Apps /\ u[2] \in Ids
    BY <1>1
  <2>3. Len(u[1]) \in Nat
    BY <2>2, NamesAssumption, TextIs
  <2>4. NameOf(strategy, u[2]) # NoName => Len(NameOf(strategy, u[2])) \in Nat
    BY <1>1, <2>2, NamesAre
  <2>5. t = Target("named", u[1], NameOf(strategy, u[2]))
    BY <1>3, <2>1 DEF HomeIn
  <2> QED
    BY <2>3, <2>4, <2>5, NamesFit
<1> QED
  BY <1>2, <1>3 DEF DatabasesApart

\* Two partitions, or two applications, are never given one database by
\* sanitize_database_name(), path_for_partition() or db_name_for(), however much
\* of their names is dropped; and names fit the platform's limit.
THEOREM NamesKeepApart == NamesSpec => []DatabasesApart
BY NamesInvariance, ApartNow, PTL

----------------------------------------------------------------------------
(* PartitionNames: what a process finds that knows nothing                 *)

\* What is in one's own database is one's own.
LEMMA OwnRows ==
  ASSUME NamesInv, NEW prefix \in Apps, Trusted(prefix), NEW n, NEW t,
         t = Target(catalog, prefix, n), NEW id \in RowsOf(t)
  PROVE  <<prefix, id>> \in stored /\ <<prefix, id>> \in used /\ id \in Ids
<1>1. t \in DOMAIN databases /\ id \in databases[t].rows
  BY DEF RowsOf
<1>2. PICK v \in stored : v[2] = id /\ HomeIn(strategy, catalog, v) = t
  BY <1>1 DEF NamesInv, Recorded
<1>3. v \in used /\ v \in Apps \X Ids
  BY DEF NamesInv, InUse
<1>4. v[1] = prefix
  <2>1. TrustedIn(strategy, catalog, used, prefix)
    BY TrustIs
  <2>2. strategy \in Strategies /\ catalog \in Catalogs /\ used \subseteq Apps \X Ids
    BY DEF NamesInv, InUse
  <2> QED
    BY <1>2, <1>3, <2>1, <2>2, OwnTarget
<1>5. v = <<prefix, id>>
  BY <1>2, <1>3, <1>4
<1> QED
  BY <1>2, <1>3, <1>5

\* NamelessFails, of any databases.
NamelessIn(kind, c, dbs, prefix) ==
  /\ c = "named" /\ kind = "hashed"
  /\ \E t \in DOMAIN dbs : Listable(c, prefix, t) /\ dbs[t].name = NoName

\* It is enough that an answer says no more and no less than what is stored.
LEMMA FoundNext ==
  ASSUME strategy' = strategy, catalog' = catalog, used' = used, stored' = stored,
         NEW prefix, prefix = result'.prefix, NEW due,
         due = {id \in result'.of : <<prefix, id>> \in stored},
         Trusted(prefix)
           /\ ~(result'.op = "enumerate" /\ NamelessIn(strategy, catalog, databases', prefix)) =>
           /\ result'.ok
           /\ due \subseteq result'.ids
           /\ result'.ids \subseteq
                IF strategy = "aggregate" THEN {id \in Ids : <<prefix, id>> \in used} ELSE due
  PROVE  FreshProcessFinds'
BY DEF FreshProcessFinds, Trusted, NamelessFails, NamelessIn

LEMMA LoadFinds ==
  ASSUME NamesInv, NEW prefix \in Apps, NEW id \in Ids, LoadEvents(prefix, id)
  PROVE  FreshProcessFinds'
<1>1. PICK u \in Apps \X Ids : u = <<prefix, id>> /\ u[1] = prefix /\ u[2] = id
  BY PairIs
<1>2. PICK t, n, rows : /\ t = HomeIn(strategy, catalog, u) /\ n = NameOf(strategy, id)
                        /\ rows = RowsOf(t)
  OBVIOUS
<1>3. /\ result' = [op |-> "load", prefix |-> prefix, of |-> {id}, ok |-> TRUE,
                   ids |-> rows \cap {id}]
      /\ stored' = stored /\ used' = used /\ strategy' = strategy /\ catalog' = catalog
  BY <1>1, <1>2, TargetIsHome DEF LoadEvents
<1>4. /\ result'.op = "load" /\ result'.prefix = prefix /\ result'.of = {id} /\ result'.ok
      /\ result'.ids = rows \cap {id}
  BY <1>3
<1>5. u \in stored => id \in rows
  BY <1>1, <1>2 DEF NamesInv, Recorded, RowsOf
<1>6. ASSUME Trusted(prefix), id \in rows
      PROVE  u \in stored /\ u \in used
  BY <1>1, <1>2, <1>6, OwnRows DEF HomeIn
<1>7. PICK due : due = {x \in result'.of : <<prefix, x>> \in stored}
  OBVIOUS
<1>8. due \subseteq result'.ids
  BY <1>1, <1>4, <1>5, <1>7
<1>9. Trusted(prefix) =>
        result'.ids \subseteq
          IF strategy = "aggregate" THEN {x \in Ids : <<prefix, x>> \in used} ELSE due
  BY <1>1, <1>4, <1>6, <1>7
<1> QED
  BY <1>3, <1>4, <1>7, <1>8, <1>9, FoundNext

----------------------------------------------------------------------------
(* PartitionNames: an enumeration                                          *)

LEMMA ListedReadBack ==
  ASSUME NamesInv, NEW prefix \in Apps, Trusted(prefix), NEW n \in NamesListed(prefix)
  PROVE  \E u \in used : /\ u[1] = prefix
                         /\ PartitionFromName(strategy, n) = {PartitionFor(strategy, u[2])}
<1>1. PICK u \in used : u[1] = prefix /\ n = NameOf(strategy, u[2]) /\ strategy # "global"
  BY ListedAre
<1>2. u[2] \in Ids /\ strategy \in Strategies
  BY DEF NamesInv, InUse
<1>3. strategy = "aggregate" => WellFormed(u[2])
  BY <1>1, TrustIs DEF TrustedIn
<1> QED
  BY <1>1, <1>2, <1>3, ReadBack

\* What is known to be there are partitions of the application.
LEMMA KnownAreUsed ==
  ASSUME NamesInv, NEW prefix \in Apps, Trusted(prefix), NEW p \in KnownPartitions(prefix)
  PROVE  \/ strategy = "global" /\ p = Default
         \/ \E u \in used : u[1] = prefix /\ p = PartitionFor(strategy, u[2])
<1>1. CASE p \in Bootstrap(strategy)
  BY <1>1 DEF Bootstrap
<1>2. CASE p \notin Bootstrap(strategy)
  <2>1. PICK n \in NamesListed(prefix) : p \in PartitionFromName(strategy, n)
    BY <1>2 DEF KnownPartitions
  <2> QED
    BY <2>1, ListedReadBack
<1> QED
  BY <1>1, <1>2

\* The partition of what is stored is known to be there.
LEMMA StoredIsKnown ==
  ASSUME NamesInv, NEW prefix \in Apps, Trusted(prefix), NEW id, <<prefix, id>> \in stored
  PROVE  /\ PartitionFor(strategy, id) \in KnownPartitions(prefix)
         /\ TargetFor(prefix, PartitionFor(strategy, id)) = HomeIn(strategy, catalog, <<prefix, id>>)
         /\ HomeIn(strategy, catalog, <<prefix, id>>) \in DOMAIN databases
         /\ id \in RowsOf(HomeIn(strategy, catalog, <<prefix, id>>))
<1>1. PICK u \in stored : u = <<prefix, id>>
  OBVIOUS
<1>2. u \in used /\ u[1] = prefix /\ u[2] = id /\ id \in Ids
      /\ strategy \in Strategies /\ catalog \in Catalogs
  BY <1>1 DEF NamesInv, InUse
<1>3. PICK t, n : t = HomeIn(strategy, catalog, u) /\ n = NameOf(strategy, id)
  OBVIOUS
<1>4. t \in DOMAIN databases /\ databases[t].name = n /\ id \in databases[t].rows
  BY <1>2, <1>3 DEF NamesInv, Recorded
<1>5. PartitionFor(strategy, id) \in KnownPartitions(prefix)
  <2>1. CASE strategy = "global"
    <3>1. PartitionFor(strategy, id) = Default
      BY <1>2, <2>1, NamesAre
    <3> QED
      BY <2>1, <3>1 DEF KnownPartitions, Bootstrap
  <2>2. CASE strategy # "global"
    <3>1. n # NoName /\ t = Target(catalog, prefix, n)
      BY <1>2, <1>3, <2>2, NamesAre DEF HomeIn
    <3>2. TrustedIn(strategy, catalog, used, prefix)
      BY TrustIs
    <3>3. Listable(catalog, prefix, t) /\ (catalog = "local" => t.name = n)
      <4>1. CASE catalog = "local"
        BY <3>1, <4>1 DEF Target, Listable
      <4>2. CASE catalog = "named"
        <5>1. n # <<>>
          BY <1>2, <1>3, <2>2, <3>2, <4>2 DEF TrustedIn
        <5>2. t = DatabaseName(n, prefix)
          BY <3>1, <4>2 DEF Target
        <5>3. "prefix" \in DOMAIN t /\ t.prefix = NamedDatabasePrefix(prefix)
          BY <5>1, <5>2 DEF DatabaseName
        <5> QED
          BY <4>2, <5>3 DEF Listable
      <4> QED
        BY <1>2, <2>2, <4>1, <4>2, NamesAssumption DEF NamesInv, InUse
    <3>4. n \in NamesListed(prefix)
      BY <1>4, <3>1, <3>3 DEF NamesListed
    <3>5. strategy = "aggregate" => WellFormed(id)
      BY <1>2, <3>2 DEF TrustedIn
    <3>6. PartitionFromName(strategy, n) = {PartitionFor(strategy, id)}
      BY <1>2, <1>3, <2>2, <3>5, ReadBack
    <3> QED
      BY <3>4, <3>6 DEF KnownPartitions
  <2> QED
    BY <2>1, <2>2
<1>6. TargetFor(prefix, PartitionFor(strategy, id)) = t
  BY <1>1, <1>2, <1>3, TargetIsHome
<1> QED
  BY <1>1, <1>3, <1>4, <1>5, <1>6 DEF RowsOf

\* A plan names or scans for every aggregate of its partition, and for no other
\* type's; the strategy of a file per aggregate names, the others scan.
LEMMA PlansAre ==
  ASSUME NEW kind \in Strategies, NEW id \in Ids, NEW type, NEW p, p = PartitionFor(kind, id)
  PROVE  /\ kind = "aggregate" => /\ ReadPlan(kind, p, type).scan = {}
                                  /\ ReadPlan(kind, p, type).direct \subseteq {id}
         /\ kind # "aggregate" => /\ ReadPlan(kind, p, type).direct = {}
                                  /\ ReadPlan(kind, p, type).scan
                                       \subseteq {x \in Ids : type \in {NoName, x.type}}
         /\ type \in {NoName, id.type} =>
              IF kind = "aggregate" THEN id \in ReadPlan(kind, p, type).direct
              ELSE id \in ReadPlan(kind, p, type).scan
<1>1. kind \in {"aggregate", "type", "hashed", "by", "global"}
  BY NamesAssumption
<1>2. CASE kind = "aggregate"
  <2>1. p.key = id
    BY <1>2 DEF PartitionFor, AggregatePartition, Named
  <2>2. ReadPlan(kind, p, type) = AggregatePlan(p, type)
    BY <1>2 DEF ReadPlan
  <2>3. /\ ReadPlan(kind, p, type).scan = {}
        /\ ReadPlan(kind, p, type).direct = {x \in {p.key} : type \in {NoName, x.type}}
    BY <2>2 DEF AggregatePlan
  <2> QED
    BY <1>2, <2>1, <2>3
<1>3. CASE kind = "type"
  <2>1. p.key = id.type
    BY <1>3 DEF PartitionFor, TypePartition, Named
  <2>2. ReadPlan(kind, p, type) = TypePlan(p, type)
    BY <1>3 DEF ReadPlan
  <2>3. /\ ReadPlan(kind, p, type).direct = {}
        /\ ReadPlan(kind, p, type).scan = IF type \in {NoName, p.key}
                                            THEN {x \in Ids : x.type = p.key} ELSE {}
    BY <2>2 DEF TypePlan
  <2> QED
    BY <1>3, <2>1, <2>3
<1>4. CASE kind \in {"hashed", "by", "global"}
  <2>1. ReadPlan(kind, p, type) = ScanPlan(type)
    BY <1>4 DEF ReadPlan
  <2>2. /\ ReadPlan(kind, p, type).direct = {}
        /\ ReadPlan(kind, p, type).scan = {x \in Ids : type \in {NoName, x.type}}
    BY <2>1 DEF ScanPlan
  <2> QED
    BY <1>4, <2>2
<1> QED
  BY <1>1, <1>2, <1>3, <1>4

\* The plan of a global strategy is the same without any aggregate at hand.
LEMMA GlobalPlanIs ==
  ASSUME NEW type
  PROVE  /\ ReadPlan("global", Default, type).direct = {}
         /\ ReadPlan("global", Default, type).scan = {x \in Ids : type \in {NoName, x.type}}
BY DEF ReadPlan, ScanPlan

LEMMA EnumerateSucceeds ==
  ASSUME NamesInv, NEW prefix \in Apps, NEW type, Trusted(prefix), ~NamelessFails(prefix)
  PROVE  /\ ~ListingFails(prefix)
         /\ \A p \in OpenedOf(prefix, type) : Admits(TargetFor(prefix, p), p)
<1>1. \A n \in NamesListed(prefix) : PartitionFromName(strategy, n) # {}
  <2> TAKE n \in NamesListed(prefix)
  <2>1. PICK u \in used : PartitionFromName(strategy, n) = {PartitionFor(strategy, u[2])}
    BY ListedReadBack
  <2> QED
    BY <2>1
<1>2. ASSUME NEW p \in OpenedOf(prefix, type)
      PROVE  Admits(TargetFor(prefix, p), p)
  <2>1. p \in KnownPartitions(prefix) /\ TargetFor(prefix, p) \in DOMAIN databases
    BY DEF OpenedOf, Known
  <2>2. PICK u \in Apps \X Ids : /\ TargetFor(prefix, p) = HomeIn(strategy, catalog, u)
                                 /\ RecordedName(p) = NameOf(strategy, u[2])
    BY <2>1, KnownAre
  <2>3. databases[HomeIn(strategy, catalog, u)].name \in {NoName, NameOf(strategy, u[2])}
    BY <2>1, <2>2, AdmittedAtHome DEF NamesInv
  <2> QED
    BY <2>2, <2>3 DEF Admits
<1> QED
  BY <1>1, <1>2 DEF ListingFails

LEMMA EnumerateFinds ==
  ASSUME NamesInv, NEW prefix \in Apps, NEW type, EnumerateIds(prefix, type)
  PROVE  FreshProcessFinds'
<1>1. PICK ok \in BOOLEAN :
        /\ ok <=> /\ ~ListingFails(prefix)
                  /\ \A p \in OpenedOf(prefix, type) : Admits(TargetFor(prefix, p), p)
        /\ result'.op = "enumerate" /\ result'.prefix = prefix /\ result'.ok = ok
        /\ result'.of = {id \in Ids : type \in {NoName, id.type}}
        /\ ok => result'.ids =
             (UNION {ReadPlan(strategy, p, type).direct : p \in Known(prefix)})
               \cup UNION {RowsOf(TargetFor(prefix, p)) \cap ReadPlan(strategy, p, type).scan :
                             p \in OpenedOf(prefix, type)}
        /\ databases' =
             [t \in DOMAIN databases |->
                IF \E p \in OpenedOf(prefix, type) : TargetFor(prefix, p) = t /\ ok
                  THEN [databases[t] EXCEPT
                          !.name = RecordedName(CHOOSE p \in OpenedOf(prefix, type) :
                                                  TargetFor(prefix, p) = t)]
                  ELSE databases[t]]
  BY EnumerateIs
<1>2. strategy' = strategy /\ catalog' = catalog /\ used' = used /\ stored' = stored
  BY EnumerateIs
<1>3. PICK due : due = {id \in result'.of : <<prefix, id>> \in stored}
  OBVIOUS
<1>4. NamelessFails(prefix) => NamelessIn(strategy, catalog, databases', prefix)
  <2> SUFFICES ASSUME NamelessFails(prefix)
               PROVE  NamelessIn(strategy, catalog, databases', prefix)
    OBVIOUS
  <2>1. ~ok
    BY <1>1 DEF ListingFails
  <2>2. DOMAIN databases' = DOMAIN databases /\ \A t \in DOMAIN databases : databases'[t] = databases[t]
    BY <1>1, <2>1
  <2> QED
    BY <2>2 DEF NamelessFails, NamelessIn
<1>5. ASSUME Trusted(prefix), ~NamelessIn(strategy, catalog, databases', prefix)
      PROVE  /\ result'.ok
             /\ due \subseteq result'.ids
             /\ result'.ids \subseteq
                  IF strategy = "aggregate" THEN {id \in Ids : <<prefix, id>> \in used} ELSE due
  <2>1. /\ ~ListingFails(prefix) /\ \A p \in OpenedOf(prefix, type) : Admits(TargetFor(prefix, p), p)
        /\ ~NamelessFails(prefix)
    BY <1>4, <1>5, EnumerateSucceeds
  <2>2. ok /\ Known(prefix) = KnownPartitions(prefix)
    BY <1>1, <2>1 DEF Known
  <2>3. \A id : id \in result'.ids <=>
          \/ \E p \in KnownPartitions(prefix) : id \in ReadPlan(strategy, p, type).direct
          \/ \E p \in OpenedOf(prefix, type) :
               id \in RowsOf(TargetFor(prefix, p)) /\ id \in ReadPlan(strategy, p, type).scan
    BY <1>1, <2>2
  <2>4. strategy \in Strategies /\ used \subseteq Apps \X Ids /\ stored \subseteq used
    BY DEF NamesInv, InUse
  <2>5. ASSUME NEW id \in due PROVE id \in result'.ids
    <3>1. id \in Ids /\ type \in {NoName, id.type} /\ <<prefix, id>> \in stored
      BY <1>1, <1>3, <2>5
    <3>2. PICK p, t : p = PartitionFor(strategy, id) /\ t = HomeIn(strategy, catalog, <<prefix, id>>)
      OBVIOUS
    <3>3. /\ p \in KnownPartitions(prefix) /\ TargetFor(prefix, p) = t /\ t \in DOMAIN databases
          /\ id \in RowsOf(t)
      BY <1>5, <3>1, <3>2, StoredIsKnown
    <3>4. CASE strategy = "aggregate"
      <4>1. id \in ReadPlan(strategy, p, type).direct
        BY <2>4, <3>1, <3>2, <3>4, PlansAre
      <4> QED
        BY <2>3, <3>3, <4>1
    <3>5. CASE strategy # "aggregate"
      <4>1. id \in ReadPlan(strategy, p, type).scan
        BY <2>4, <3>1, <3>2, <3>5, PlansAre
      <4>2. p \in OpenedOf(prefix, type)
        BY <2>2, <3>3, <4>1 DEF OpenedOf
      <4> QED
        BY <2>3, <3>3, <4>1, <4>2
    <3> QED
      BY <3>4, <3>5
  <2>6. ASSUME NEW p \in KnownPartitions(prefix), NEW id \in ReadPlan(strategy, p, type).direct
        PROVE  strategy = "aggregate" /\ id \in Ids /\ <<prefix, id>> \in used
    <3>1. strategy # "global"
      <4> SUFFICES ASSUME strategy = "global" PROVE FALSE
        OBVIOUS
      <4>1. p = Default
        <5>1. \/ p = Default
              \/ \E u \in used : u[1] = prefix /\ p = PartitionFor(strategy, u[2])
          BY <1>5, KnownAreUsed
        <5> QED
          BY <2>4, <5>1, NamesAre
      <4> QED
        BY <2>6, <4>1, GlobalPlanIs
    <3>2. PICK u \in used : u[1] = prefix /\ p = PartitionFor(strategy, u[2])
      BY <1>5, <3>1, KnownAreUsed
    <3>3. u = <<prefix, u[2]>> /\ u[2] \in Ids
      BY <2>4, <3>2
    <3>4. strategy = "aggregate"
      BY <2>4, <2>6, <3>2, <3>3, PlansAre
    <3>5. id \in {u[2]}
      BY <2>4, <2>6, <3>2, <3>3, <3>4, PlansAre
    <3> QED
      BY <3>3, <3>4, <3>5
  <2>7. ASSUME NEW p \in OpenedOf(prefix, type), NEW id \in RowsOf(TargetFor(prefix, p)),
               id \in ReadPlan(strategy, p, type).scan
        PROVE  strategy # "aggregate" /\ id \in due
    <3>1. p \in KnownPartitions(prefix) /\ TargetFor(prefix, p) \in DOMAIN databases
      BY <2>2 DEF OpenedOf
    <3>2. PICK t, n : t = TargetFor(prefix, p) /\ n = RecordedName(p) /\ t = Target(catalog, prefix, n)
      BY <3>1, KnownAre
    <3>3. <<prefix, id>> \in stored /\ id \in Ids
      BY <1>5, <2>7, <3>2, OwnRows
    <3>4. strategy # "aggregate" /\ type \in {NoName, id.type}
      <4>1. CASE strategy = "global" /\ p = Default
        BY <2>7, <4>1, GlobalPlanIs
      <4>2. CASE \E u \in used : u[1] = prefix /\ p = PartitionFor(strategy, u[2])
        <5>1. PICK u \in used : p = PartitionFor(strategy, u[2])
          BY <4>2
        <5>2. u[2] \in Ids
          BY <2>4
        <5>3. strategy # "aggregate"
          BY <2>4, <2>7, <5>1, <5>2, PlansAre
        <5>4. id \in {x \in Ids : type \in {NoName, x.type}}
          BY <2>4, <2>7, <5>1, <5>2, <5>3, PlansAre
        <5> QED
          BY <5>3, <5>4
      <4> QED
        BY <1>5, <3>1, <4>1, <4>2, KnownAreUsed
    <3> QED
      BY <1>1, <1>3, <3>3, <3>4
  <2>8. ASSUME NEW id \in result'.ids
        PROVE  \/ strategy = "aggregate" /\ id \in Ids /\ <<prefix, id>> \in used
               \/ strategy # "aggregate" /\ id \in due
    BY <2>3, <2>6, <2>7, <2>8
  <2>9. result'.ids \subseteq
          IF strategy = "aggregate" THEN {id \in Ids : <<prefix, id>> \in used} ELSE due
    BY <2>8
  <2> QED
    BY <1>1, <2>2, <2>5, <2>9
<1>6. prefix = result'.prefix /\ result'.op = "enumerate"
  BY <1>1
<1>7. Trusted(prefix)
        /\ ~(result'.op = "enumerate" /\ NamelessIn(strategy, catalog, databases', prefix)) =>
        /\ result'.ok
        /\ due \subseteq result'.ids
        /\ result'.ids \subseteq
             IF strategy = "aggregate" THEN {id \in Ids : <<prefix, id>> \in used} ELSE due
  BY <1>5, <1>6
<1> QED
  BY <1>2, <1>3, <1>6, <1>7, FoundNext

\* A process that starts with nothing but the files or databases finds what its
\* application has stored, by load(), enumerate_aggregates() and
\* enumerate_aggregates_by_type(), and finds no other application's.
THEOREM FreshProcesses == NamesSpec => []FreshProcessFinds
<1>1. NamesInit => FreshProcessFinds
  BY DEF NamesInit, FreshProcessFinds
<1>2. NamesInv /\ FreshProcessFinds /\ [NamesNext]_namesVars => FreshProcessFinds'
  <2> SUFFICES ASSUME NamesInv, FreshProcessFinds, [NamesNext]_namesVars
               PROVE  FreshProcessFinds'
    OBVIOUS
  <2>1. CASE result' = NoName
    BY <2>1 DEF FreshProcessFinds
  <2>2. CASE UNCHANGED namesVars
    BY <2>2 DEF namesVars, FreshProcessFinds, Trusted, NamelessFails
  <2>3. CASE \E prefix \in Apps, id \in Ids : LoadEvents(prefix, id)
    BY <2>3, LoadFinds
  <2>4. CASE \E prefix \in Apps : \E type \in {id.type : id \in Ids} \cup {NoName} :
               EnumerateIds(prefix, type)
    BY <2>4, EnumerateFinds
  <2>5. CASE ProcessEnds \/ \E prefix \in Apps, id \in Ids :
                              StoreEvents(prefix, id) \/ CreateOnly(prefix, id)
    <3>1. result' = NoName
      BY <2>5 DEF ProcessEnds, StoreEvents, CreateOnly
    <3> QED
      BY <2>1, <3>1
  <2> QED
    BY <2>2, <2>3, <2>4, <2>5 DEF NamesNext
<1> QED
  BY <1>1, <1>2, NamesInvariance, PTL DEF NamesSpec

=============================================================================
