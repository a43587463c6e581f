--------------------------- MODULE Service_proofs ---------------------------
(***************************************************************************)
(* Services for any clients, aggregates, batch sizes and numbers of calls  *)
(* and publishes: no decision made on an outdated entity is stored, a      *)
(* handler gets one publish accepted per entity, and a reload shows it.    *)
(***************************************************************************)
EXTENDS RestateExecutor, EventModel_proofs

\* The revision and the value after the first k events of stream s, whose
\* counters are v; what an entity looks like that was loaded then.
RevisionAt(s, k) == IF k = 0 THEN Zero ELSE s[k].rev
EntityAt(s, v, k) == [rev |-> RevisionAt(s, k), value |-> IF k = 0 THEN 0 ELSE v[k]]
Shows(s, v, e) == \E k \in 0..Len(s) : e = EntityAt(s, v, k)

Target(c) == command[c].agg
Now(c) == RevisionOf(log[Target(c)])

\* Where a client's execute() is, and the entity its handler has.
StepOf(c) ==
  /\ answer[c] # None => step[c] = "return"
  /\ step[c] # "idle" => command[c] \in Calls
  /\ step[c] \in {"idle", "load"} => accepted[c] = {}
  /\ step[c] \in {"handle", "publish", "reload"} =>
       /\ command[c] \in Command
       /\ entity[c] \in Entity
       /\ Shows(log[Target(c)], counter[Target(c)], entity[c])

\* What it asks the store for; what it publishes, its rule allows.
CallOf(c) ==
  /\ step[c] \in {"idle", "handle", "return"} => call[c] = None
  /\ call[c] = None => reply[c] = None
  /\ step[c] \in {"load", "publish", "reload"} =>
       call[c] \in Request /\ call[c].agg = Target(c)
  /\ step[c] \in {"load", "reload"} => call[c].op = "load"
  /\ step[c] = "publish" =>
       /\ call[c].op = "publish"
       /\ call[c].expected = entity[c].rev
       /\ call[c].n \in {0, command[c].amount}
       /\ ~BelowZero(command[c], entity[c].value)

\* What the store answers: events that were there, and still are; and, if it
\* has stored a batch, it is the first for this entity, which is now outdated.
ReplyOf(c) ==
  /\ Answered(c, "loaded") =>
       /\ Len(reply[c].events) <= Len(log[Target(c)])
       /\ reply[c].rev = RevisionAt(log[Target(c)], Len(reply[c].events))
       /\ \A r \in accepted[c] : r <= reply[c].rev
  /\ step[c] = "publish" /\ Answered(c, "ok") /\ reply[c].events # <<>> =>
       /\ accepted[c] = {}
       /\ reply[c].rev \in Revisions /\ reply[c].rev <= Now(c)
       /\ entity[c].rev < Now(c)

\* A publish that was accepted has left the entity behind.
AcceptedOf(c) ==
  /\ \A q, r \in accepted[c] : q = r
  /\ \A r \in accepted[c] : r <= Now(c)
  /\ step[c] \in {"handle", "publish"} /\ accepted[c] # {} => entity[c].rev < Now(c)

\* The entity execute() or load() is about to return.
AnswerOf(c) ==
  answer[c] # None /\ answer[c].kind \in {"loaded", "reloaded"} =>
    /\ \A r \in accepted[c] : r <= answer[c].entity.rev
    /\ Shows(log[Target(c)], counter[Target(c)], answer[c].entity)

ClientInv(c) == StepOf(c) /\ CallOf(c) /\ ReplyOf(c) /\ AcceptedOf(c) /\ AnswerOf(c)

\* Every event has its counter.
StreamInv ==
  \A a \in Aggregates : Sorted(log[a]) /\ Len(counter[a]) = Len(log[a])

IInv == /\ TypeOK
        /\ StreamInv
        /\ NeverBelowZero
        /\ \A c \in Clients : ClientInv(c)

----------------------------------------------------------------------------
(* Streams that grow *)

Extends(s, t) == Len(s) <= Len(t) /\ \A i \in 1..Len(s) : t[i] = s[i]

\* What was loaded once stays what a prefix of the stream renders to.
LEMMA ShowsStays ==
  ASSUME NEW s \in Seq(Event), NEW t \in Seq(Event),
         NEW v \in Seq(Int), NEW w \in Seq(Int), Len(v) = Len(s),
         Extends(s, t), Extends(v, w), NEW e, Shows(s, v, e)
  PROVE  Shows(t, w, e)
<1>1. PICK k \in 0..Len(s) : e = EntityAt(s, v, k)
  BY DEF Shows
<1>2. k \in 0..Len(t)
  BY DEF Extends
<1>3. EntityAt(t, w, k) = EntityAt(s, v, k)
  BY DEF Extends, EntityAt, RevisionAt
<1> QED
  BY <1>1, <1>2, <1>3 DEF Shows

\* The revision after some events of a stream is that of the last of them.
LEMMA RevisionAtType ==
  ASSUME NEW s \in Seq(Event), NEW k \in 0..Len(s)
  PROVE  /\ RevisionAt(s, k) \in {Zero} \cup Revisions
         /\ RevisionAt(s, Len(s)) = RevisionOf(s)
         /\ k > 0 => RevisionAt(s, k) = s[k].rev /\ RevisionAt(s, k) > 0
<1>1. CASE k = 0
  BY <1>1 DEF RevisionAt, RevisionOf
<1>2. CASE k > 0
  <2>1. k \in 1..Len(s)
    BY <1>2
  <2> QED
    BY <1>2, <2>1, EventAt DEF RevisionAt, RevisionOf
<1> QED
  BY <1>1, <1>2

\* A revision of a sorted stream is below a later one.
LEMMA RevisionAtIncreases ==
  ASSUME NEW s \in Seq(Event), Sorted(s), NEW k \in 0..Len(s), NEW l \in 0..Len(s), k < l
  PROVE  RevisionAt(s, k) < RevisionAt(s, l)
<1>1. l \in 1..Len(s) /\ RevisionAt(s, l) = s[l].rev /\ RevisionAt(s, l) > 0
  BY RevisionAtType
<1>2. CASE k = 0
  BY <1>1, <1>2 DEF RevisionAt, Zero
<1>3. CASE k # 0
  <2>1. k \in 1..Len(s) /\ RevisionAt(s, k) = s[k].rev
    BY <1>3, RevisionAtType
  <2> QED
    BY <1>1, <2>1 DEF Sorted
<1> QED
  BY <1>2, <1>3

\* An entity of the current revision is the current entity.
LEMMA CurrentEntity ==
  ASSUME NEW s \in Seq(Event), Sorted(s), NEW v, NEW e,
         Shows(s, v, e), e.rev = RevisionOf(s)
  PROVE  e = EntityAt(s, v, Len(s))
<1>1. PICK k \in 0..Len(s) : e = EntityAt(s, v, k)
  BY DEF Shows
<1>2. RevisionAt(s, k) = RevisionAt(s, Len(s))
  BY <1>1, RevisionAtType DEF EntityAt
<1>3. RevisionAt(s, k) \in Nat
  BY RevisionAtType, MaxUlidAssumption DEF Zero, Revisions
<1>4. ~ (k < Len(s))
  BY <1>2, <1>3, RevisionAtIncreases
<1>5. k = Len(s)
  BY <1>4
<1> QED
  BY <1>1, <1>5

\* A sorted stream that grows never has a lower revision.
LEMMA RevisionGrows ==
  ASSUME NEW s \in Seq(Event), NEW t \in Seq(Event), Sorted(t), Extends(s, t)
  PROVE  RevisionOf(s) <= RevisionOf(t)
<1>1. RevisionOf(s) = RevisionAt(t, Len(s))
  BY DEF RevisionOf, RevisionAt, Extends
<1>2. Len(s) \in 0..Len(t)
  BY DEF Extends
<1>3. RevisionAt(t, Len(s)) \in Nat /\ RevisionAt(t, Len(t)) \in Nat
  BY <1>2, RevisionAtType, MaxUlidAssumption DEF Zero, Revisions
<1>4. RevisionOf(t) = RevisionAt(t, Len(t))
  BY RevisionAtType
<1>5. CASE Len(s) < Len(t)
  BY <1>1, <1>2, <1>3, <1>4, <1>5, RevisionAtIncreases
<1>6. CASE Len(s) = Len(t)
  BY <1>1, <1>3, <1>4, <1>6
<1> QED
  BY <1>2, <1>5, <1>6

----------------------------------------------------------------------------
(* The store's operators are those of EventModel. *)

LEMMA SameData ==
  /\ Store!Event = Event
  /\ Store!Request = Request
  /\ Store!Reply = Reply
  /\ Store!Zero = Zero
<1>1. Store!Zero = Zero /\ Store!Revisions = Revisions
  BY DEF Store!Zero, Zero, Store!Revisions, Revisions
<1>2. Store!Expected = Expected
  BY <1>1 DEF Store!Expected, Expected
<1>3. Store!Event = Event
  BY <1>1, <1>2 DEF Store!Event, Event
<1>4. Store!Request = Request
  BY <1>2 DEF Store!Request, Request, Store!PublishRequest, PublishRequest,
              Store!LoadRequest, LoadRequest
<1>5. Store!Reply = Reply
  BY <1>1, <1>3 DEF Store!Reply, Reply
<1> QED
  BY <1>1, <1>3, <1>4, <1>5

LEMMA SameOperators ==
  /\ \A s : Store!RevisionOf(s) = RevisionOf(s)
  /\ \A revs, e : Store!Batch(revs, e) = Batch(revs, e)
  /\ \A revs : Store!Increasing(revs) <=> Increasing(revs)
  /\ \A kind, rev, events : Store!Answer(kind, rev, events) = Answer(kind, rev, events)
<1>1. \A s : Store!RevisionOf(s) = RevisionOf(s)
  BY SameData DEF Store!RevisionOf, RevisionOf
<1>2. \A revs, e : Store!Batch(revs, e) = Batch(revs, e)
  BY DEF Store!Batch, Batch
<1>3. \A revs : Store!Increasing(revs) <=> Increasing(revs)
  BY DEF Store!Increasing, Increasing
<1>4. \A kind, rev, events : Store!Answer(kind, rev, events) = Answer(kind, rev, events)
  BY DEF Store!Answer, Answer
<1> QED
  BY <1>1, <1>2, <1>3, <1>4

\* The types of the store's state, in the terms of EventModel.
LEMMA StoreType ==
  Store!TypeOK <=> /\ log \in [Aggregates -> Seq(Event)]
                   /\ call \in [Clients -> Request \cup {None}]
                   /\ reply \in [Clients -> Reply \cup {None}]
  BY SameData DEF Store!TypeOK

----------------------------------------------------------------------------
(* What the EventStore promise implies for every stream, for any number of *)
(* callers, aggregates, revisions and events.                              *)

LEMMA SameOrders ==
  /\ \A s : Store!Sorted(s) <=> Sorted(s)
  /\ \A s : Store!Honoured(s) <=> Honoured(s)
<1>1. \A s : Store!Sorted(s) <=> Sorted(s)
  BY DEF Store!Sorted, Sorted
<1>2. \A s, i : Store!RevisionBefore(s, i) = RevisionBefore(s, i)
  BY SameData DEF Store!RevisionBefore, RevisionBefore
<1>3. \A s : Store!Honoured(s) <=> Honoured(s)
  BY <1>2 DEF Store!Honoured, Honoured
<1> QED
  BY <1>1, <1>3

\* The promise's inductive invariant, in the terms of EventModel.
PromiseInv == /\ Store!TypeOK
              /\ \A a \in Aggregates : Sorted(log[a]) /\ Honoured(log[a])

LEMMA PromiseTypes ==
  ASSUME PromiseInv
  PROVE  /\ log \in [Aggregates -> Seq(Event)]
         /\ call \in [Clients -> Request \cup {None}]
         /\ reply \in [Clients -> Reply \cup {None}]
  BY StoreType DEF PromiseInv

LEMMA PromiseInit == Store!Init => PromiseInv
  BY StoreType DEF Store!Init, PromiseInv, Sorted, Honoured

\* A step that leaves the streams alone keeps their invariants.
LEMMA SameLog ==
  ASSUME PromiseInv, log' = log, call' \in [Clients -> Request \cup {None}],
         reply' \in [Clients -> Reply \cup {None}]
  PROVE  PromiseInv'
<1>1. Store!TypeOK'
  BY PromiseTypes, SameData DEF Store!TypeOK
<1> QED
  BY <1>1 DEF PromiseInv

LEMMA PromiseCommit ==
  ASSUME PromiseInv, NEW c \in Clients, NEW n \in 1..MaxBatch,
         NEW revs \in [1..n -> Revisions], Store!Commit(c, revs)
  PROVE  PromiseInv'
<1> DEFINE a == call[c].agg
           e == call[c].expected
           batch == Batch(revs, e)
<1>1. call[c] \in Request
  BY PromiseTypes DEF Store!Commit, Store!Pending
<1>2. a \in Aggregates /\ e \in Expected
  BY <1>1, RequestType
<1>3. n \in Nat
  BY MaxBatchAssumption
<1>4. revs \in Seq(Revisions) /\ Len(revs) = n /\ Len(revs) \in 1..n
  BY <1>3 DEF Store!Commit
<1>5. log[a] \in Seq(Event) /\ Sorted(log[a]) /\ Honoured(log[a])
  BY <1>2, PromiseTypes DEF PromiseInv
<1>6. /\ e \in {None, RevisionOf(log[a])}
      /\ Increasing(revs)
      /\ \A i \in 1..Len(revs) : revs[i] > RevisionOf(log[a])
      /\ log' = [log EXCEPT ![a] = log[a] \o batch]
      /\ reply' = [reply EXCEPT ![c] = Answer("ok", revs[Len(revs)], batch)]
      /\ UNCHANGED call
  BY SameOperators DEF Store!Commit
<1>7. log[a] \o batch \in Seq(Event) /\ batch \in Seq(Event)
  BY <1>2, <1>4, <1>5, AppendBatch, BatchType
<1>8. Sorted(log[a] \o batch)
  BY <1>2, <1>4, <1>5, <1>6, AppendSorted
<1>9. Honoured(log[a] \o batch)
  BY <1>2, <1>4, <1>5, <1>6, AppendHonoured
<1>10. Answer("ok", revs[Len(revs)], batch) \in Reply
  BY <1>4, <1>7, AnswerType
<1>11. log' \in [Aggregates -> Seq(Event)]
  BY <1>2, <1>6, <1>7, PromiseTypes
<1>12. \A b \in Aggregates : log'[b] = IF b = a THEN log[a] \o batch ELSE log[b]
  BY <1>6, PromiseTypes
<1> HIDE DEF a, e, batch
<1>13. Store!TypeOK'
  BY <1>6, <1>10, <1>11, PromiseTypes, SameData DEF Store!TypeOK
<1>14. \A b \in Aggregates : Sorted(log'[b]) /\ Honoured(log'[b])
  BY <1>8, <1>9, <1>12 DEF PromiseInv
<1> QED
  BY <1>13, <1>14 DEF PromiseInv

LEMMA PromiseNext == PromiseInv /\ [Store!Next]_Store!vars => PromiseInv'
<1> SUFFICES ASSUME PromiseInv, [Store!Next]_Store!vars PROVE PromiseInv'
  OBVIOUS
<1>0. <<>> \in Seq(Event)
  OBVIOUS
<1>1. ASSUME NEW c \in Clients, NEW asked \in Store!Request, Store!Invoke(c, asked)
      PROVE  PromiseInv'
  BY <1>1, SameData, PromiseTypes, SameLog DEF Store!Invoke
<1>2. ASSUME NEW c \in Clients, NEW n \in 1..MaxBatch,
             NEW revs \in [1..n -> Revisions], Store!Commit(c, revs)
      PROVE  PromiseInv'
  BY <1>2, PromiseCommit
<1>3. ASSUME NEW c \in Clients, Store!Conflict(c) PROVE PromiseInv'
  <2>1. call[c] \in Request /\ log[call[c].agg] \in Seq(Event)
    BY <1>3, PromiseTypes, RequestType DEF Store!Conflict, Store!Pending
  <2>2. Answer("conflict", RevisionOf(log[call[c].agg]), <<>>) \in Reply
    BY <1>0, <2>1, RevisionOfType, AnswerType
  <2> QED
    BY <1>3, <2>2, PromiseTypes, SameOperators, SameLog DEF Store!Conflict
<1>4. ASSUME NEW c \in Clients, Store!Fail(c) PROVE PromiseInv'
  <2>1. Answer("failed", Zero, <<>>) \in Reply
    BY <1>0, AnswerType
  <2> QED
    BY <1>4, <2>1, PromiseTypes, SameData, SameOperators, SameLog DEF Store!Fail
<1>5. ASSUME NEW c \in Clients, Store!PublishNothing(c) PROVE PromiseInv'
  <2>1. call[c] \in Request /\ log[call[c].agg] \in Seq(Event)
    BY <1>5, PromiseTypes, RequestType DEF Store!PublishNothing, Store!Pending
  <2>2. Answer("ok", RevisionOf(log[call[c].agg]), <<>>) \in Reply
    BY <1>0, <2>1, RevisionOfType, AnswerType
  <2> QED
    BY <1>5, <2>2, PromiseTypes, SameOperators, SameLog DEF Store!PublishNothing
<1>6. ASSUME NEW c \in Clients, Store!Load(c) PROVE PromiseInv'
  <2>1. call[c] \in Request /\ log[call[c].agg] \in Seq(Event)
    BY <1>6, PromiseTypes, RequestType DEF Store!Load, Store!Pending
  <2>2. Answer("loaded", RevisionOf(log[call[c].agg]), log[call[c].agg]) \in Reply
    BY <1>0, <2>1, RevisionOfType, AnswerType
  <2> QED
    BY <1>6, <2>2, PromiseTypes, SameOperators, SameLog DEF Store!Load
<1>7. ASSUME NEW c \in Clients, Store!Return(c) PROVE PromiseInv'
  BY <1>7, PromiseTypes, SameLog DEF Store!Return
<1>8. CASE UNCHANGED Store!vars
  BY <1>8, PromiseTypes, SameLog DEF Store!vars
<1> QED
  BY <1>1, <1>2, <1>3, <1>4, <1>5, <1>6, <1>7, <1>8 DEF Store!Next, Store!Revisions, Revisions

LEMMA PromiseInvariance == Store!Spec => []PromiseInv
  BY PromiseInit, PromiseNext, PTL DEF Store!Spec

\* In every behaviour of an event store each stream's revisions increase, so
\* `ORDER BY revision`, append order and "the last event's revision" agree.
THEOREM StreamsIncrease == Store!Spec => []Store!StreamMonotonic
<1>1. PromiseInv => Store!StreamMonotonic
  BY SameOrders DEF PromiseInv, Store!StreamMonotonic
<1> QED
  BY <1>1, PromiseInvariance, PTL

\* Optimistic concurrency: a batch published under an expected revision
\* directly follows that revision.
THEOREM ExpectationsHonoured == Store!Spec => []Store!ExpectedRevisionHonoured
<1>1. PromiseInv => Store!ExpectedRevisionHonoured
  BY SameOrders DEF PromiseInv, Store!ExpectedRevisionHonoured
<1> QED
  BY <1>1, PromiseInvariance, PTL

\* Of the publishers that saw the same revision at most one is accepted: two
\* handlers that loaded the same state cannot both write on top of it.
THEOREM NoLostUpdate == Store!Spec => []Store!OneWinnerPerRevision
<1>1. PromiseInv => Store!OneWinnerPerRevision
  <2> SUFFICES ASSUME PromiseInv, NEW a \in Aggregates,
                      NEW i \in 1..Len(log[a]), NEW j \in 1..Len(log[a]), i # j,
                      log[a][i].after # None
               PROVE  log[a][i].after # log[a][j].after
    BY DEF Store!OneWinnerPerRevision
  <2>1. log[a] \in Seq(Event) /\ Sorted(log[a]) /\ Honoured(log[a])
    BY PromiseTypes DEF PromiseInv
  <2> QED
    BY <2>1, HonouredOnce
<1> QED
  BY <1>1, PromiseInvariance, PTL

----------------------------------------------------------------------------
(* Services *)

LEMMA StreamFacts ==
  ASSUME IInv, NEW a \in Aggregates
  PROVE  /\ log[a] \in Seq(Event) /\ counter[a] \in Seq(Int)
         /\ Sorted(log[a]) /\ Len(counter[a]) = Len(log[a])
         /\ RevisionOf(log[a]) \in Nat
<1>1. log[a] \in Seq(Event)
  BY StoreType DEF IInv, TypeOK
<1>2. RevisionOf(log[a]) \in Nat
  BY <1>1, RevisionOfType, MaxUlidAssumption DEF Zero, Revisions
<1> QED
  BY <1>1, <1>2 DEF IInv, TypeOK, StreamInv

\* Every call is for an aggregate.
LEMMA TargetType ==
  ASSUME NEW cmd \in Calls
  PROVE  /\ cmd.agg \in Aggregates
         /\ cmd.name # "load" => cmd \in Command
<1>1. CASE cmd \in Command
  BY <1>1 DEF Command
<1>2. CASE cmd \in {Loading(a) : a \in Aggregates}
  BY <1>2 DEF Loading
<1> QED
  BY <1>1, <1>2 DEF Calls

\* A client that takes no part in a step, in which streams at most grow, finds
\* everything as it was.
LEMMA OthersStay ==
  ASSUME IInv, log' \in [Aggregates -> Seq(Event)], counter' \in [Aggregates -> Seq(Int)],
         \A a \in Aggregates : /\ Sorted(log'[a])
                               /\ Extends(log[a], log'[a])
                               /\ Extends(counter[a], counter'[a]),
         NEW d \in Clients,
         step'[d] = step[d], command'[d] = command[d], entity'[d] = entity[d],
         accepted'[d] = accepted[d], answer'[d] = answer[d],
         call'[d] = call[d], reply'[d] = reply[d]
  PROVE  ClientInv(d)'
<1> DEFINE a == Target(d)
<1>0. ClientInv(d) /\ Target(d)' = a
  BY DEF IInv, Target
<1>1. CASE step[d] = "idle"
  <2>1. accepted[d] = {} /\ reply[d] = None /\ answer[d] = None /\ call[d] = None
    BY <1>0, <1>1 DEF ClientInv, StepOf, CallOf
  <2> QED
    BY <1>1, <2>1 DEF ClientInv, StepOf, CallOf, ReplyOf, AcceptedOf, AnswerOf, Answered
<1>2. CASE step[d] # "idle"
  <2>1. a \in Aggregates
    BY <1>0, <1>2, TargetType DEF ClientInv, StepOf, Target
  <2>2. /\ log[a] \in Seq(Event) /\ counter[a] \in Seq(Int) /\ Len(counter[a]) = Len(log[a])
        /\ log'[a] \in Seq(Event) /\ counter'[a] \in Seq(Int) /\ Sorted(log'[a])
        /\ Extends(log[a], log'[a]) /\ Extends(counter[a], counter'[a])
    BY <2>1, StreamFacts
  <2>3. \A e : Shows(log[a], counter[a], e) => Shows(log'[a], counter'[a], e)
    BY <2>2, ShowsStays
  <2>4. Now(d) \in Nat /\ Now(d)' \in Nat /\ Now(d) <= Now(d)'
    <3>1. RevisionOf(log[a]) <= RevisionOf(log'[a])
      BY <2>2, RevisionGrows
    <3>2. RevisionOf(log[a]) \in Nat /\ RevisionOf(log'[a]) \in Nat
      BY <2>2, RevisionOfType, MaxUlidAssumption DEF Zero, Revisions
    <3> QED
      BY <1>0, <3>1, <3>2 DEF Now
  <2>5. \A k \in 0..Len(log[a]) :
          k \in 0..Len(log'[a]) /\ RevisionAt(log'[a], k) = RevisionAt(log[a], k)
    BY <2>2 DEF Extends, RevisionAt
  <2>6. /\ \A r \in accepted[d] : r \in Nat
        /\ entity[d] \in Entity => entity[d].rev \in Nat
        /\ reply[d] # None => reply[d].rev \in Nat /\ Len(reply[d].events) \in Nat
    <3>1. accepted[d] \subseteq Revisions
      BY DEF IInv, TypeOK
    <3>2. reply[d] # None => reply[d].rev \in {Zero} \cup Revisions /\ reply[d].events \in Seq(Event)
      BY StoreType DEF IInv, TypeOK, Reply
    <3> QED
      BY <3>1, <3>2, MaxUlidAssumption DEF Revisions, Zero, Entity
  <2> HIDE DEF a
  <2>7. StepOf(d)'
    BY <1>0, <2>3 DEF ClientInv, StepOf, a
  <2>8. CallOf(d)'
    BY <1>0 DEF ClientInv, CallOf, a
  <2>9. ReplyOf(d)'
    <3>1. ASSUME Answered(d, "loaded")'
          PROVE  /\ Len(reply[d].events) <= Len(log'[a])
                 /\ reply[d].rev = RevisionAt(log'[a], Len(reply[d].events))
                 /\ \A r \in accepted[d] : r <= reply[d].rev
      <4>1. Answered(d, "loaded") /\ reply[d] # None
        BY <3>1 DEF Answered
      <4>2. /\ Len(reply[d].events) <= Len(log[a])
            /\ reply[d].rev = RevisionAt(log[a], Len(reply[d].events))
            /\ \A r \in accepted[d] : r <= reply[d].rev
        BY <1>0, <4>1 DEF ClientInv, ReplyOf, a
      <4>3. Len(reply[d].events) \in 0..Len(log[a]) /\ Len(log[a]) \in Nat /\ Len(log'[a]) \in Nat
        BY <2>2, <2>6, <4>1, <4>2
      <4> QED
        BY <2>5, <4>2, <4>3
    <3>2. ASSUME step[d] = "publish", Answered(d, "ok")', reply[d].events # <<>>
          PROVE  /\ accepted[d] = {}
                 /\ reply[d].rev \in Revisions /\ reply[d].rev <= Now(d)'
                 /\ entity[d].rev < Now(d)'
      <4>1. Answered(d, "ok") /\ reply[d] # None
        BY <3>2 DEF Answered
      <4>2. /\ accepted[d] = {}
            /\ reply[d].rev \in Revisions /\ reply[d].rev <= Now(d)
            /\ entity[d].rev < Now(d)
        BY <1>0, <3>2, <4>1 DEF ClientInv, ReplyOf
      <4>3. entity[d] \in Entity
        BY <1>0, <3>2 DEF ClientInv, StepOf
      <4> QED
        BY <2>4, <2>6, <4>1, <4>2, <4>3
    <3> QED
      BY <1>0, <3>1, <3>2 DEF ReplyOf
  <2>10. AcceptedOf(d)'
    <3>1. /\ \A q, r \in accepted[d] : q = r
          /\ \A r \in accepted[d] : r <= Now(d)
          /\ step[d] \in {"handle", "publish"} /\ accepted[d] # {} => entity[d].rev < Now(d)
      BY <1>0 DEF ClientInv, AcceptedOf
    <3>2. \A r \in accepted[d] : r <= Now(d)'
      BY <2>4, <2>6, <3>1
    <3>3. step[d] \in {"handle", "publish"} /\ accepted[d] # {} => entity[d].rev < Now(d)'
      <4>1. step[d] \in {"handle", "publish"} => entity[d] \in Entity
        BY <1>0 DEF ClientInv, StepOf
      <4> QED
        BY <2>4, <2>6, <3>1, <4>1
    <3> QED
      BY <3>1, <3>2, <3>3 DEF AcceptedOf
  <2>11. AnswerOf(d)'
    BY <1>0, <2>3 DEF ClientInv, AnswerOf, a
  <2> QED
    BY <2>7, <2>8, <2>9, <2>10, <2>11 DEF ClientInv
<1> QED
  BY <1>1, <1>2

----------------------------------------------------------------------------
(* Steps that leave the streams alone *)

\* Nothing of another client's changes.
OthersAlone(c) ==
  \A d \in Clients : d # c =>
    /\ step'[d] = step[d] /\ command'[d] = command[d] /\ entity'[d] = entity[d]
    /\ accepted'[d] = accepted[d] /\ answer'[d] = answer[d]
    /\ call'[d] = call[d] /\ reply'[d] = reply[d]

LEMMA QuietPreserves ==
  ASSUME IInv, NEW c \in Clients, log' = log, counter' = counter, TypeOK',
         OthersAlone(c), ClientInv(c)'
  PROVE  IInv'
<1>1. \A a \in Aggregates : /\ Sorted(log'[a])
                            /\ Extends(log[a], log'[a]) /\ Extends(counter[a], counter'[a])
  BY StreamFacts DEF Extends
<1>2. log \in [Aggregates -> Seq(Event)] /\ counter \in [Aggregates -> Seq(Int)]
  BY StoreType DEF IInv, TypeOK
<1>3. ASSUME NEW d \in Clients, d # c PROVE ClientInv(d)'
  BY <1>1, <1>2, <1>3, OthersStay DEF OthersAlone
<1>4. StreamInv' /\ NeverBelowZero'
  BY DEF IInv, StreamInv, NeverBelowZero
<1> QED
  BY <1>3, <1>4 DEF IInv

\* What is known of a client at work.
LEMMA AtWork ==
  ASSUME IInv, NEW c \in Clients, step[c] # "idle"
  PROVE  /\ ClientInv(c)
         /\ command[c] \in Calls /\ Target(c) \in Aggregates
         /\ accepted[c] \subseteq Revisions
  BY TargetType DEF IInv, TypeOK, ClientInv, StepOf, Target

\* An answer that is there is a reply.
LEMMA ReplyType ==
  ASSUME IInv, NEW c \in Clients, reply[c] # None
  PROVE  /\ reply[c].rev \in {Zero} \cup Revisions
         /\ reply[c].events \in Seq(Event)
         /\ call[c] # None /\ step[c] \in {"load", "publish", "reload"}
<1>1. reply[c] \in Reply
  BY StoreType DEF IInv, TypeOK
<1>2. ClientInv(c) /\ step[c] \in {"idle", "load", "handle", "publish", "reload", "return"}
  BY DEF IInv, TypeOK
<1> QED
  BY <1>1, <1>2 DEF Reply, ClientInv, CallOf

\* The entity a loader returns is what a prefix of the stream renders to.
LEMMA LoadedShows ==
  ASSUME IInv, NEW c \in Clients, Answered(c, "loaded")
  PROVE  /\ LoadedEntity(c) \in Entity
         /\ Shows(log[Target(c)], counter[Target(c)], LoadedEntity(c))
         /\ \A r \in accepted[c] : r <= LoadedEntity(c).rev
<1> DEFINE a == Target(c)
           k == Len(reply[c].events)
<1>1. /\ reply[c] # None /\ step[c] # "idle" /\ reply[c].events \in Seq(Event)
      /\ reply[c].rev \in {Zero} \cup Revisions
  BY ReplyType DEF Answered
<1>2. ClientInv(c) /\ a \in Aggregates
  BY <1>1, AtWork
<1>3. /\ log[a] \in Seq(Event) /\ counter[a] \in Seq(Int) /\ Len(counter[a]) = Len(log[a])
  BY <1>2, StreamFacts
<1>4. k \in 0..Len(log[a]) /\ reply[c].rev = RevisionAt(log[a], k)
  BY <1>1, <1>2, <1>3 DEF ClientInv, ReplyOf
<1>5. Render(a, reply[c].events) = IF k = 0 THEN 0 ELSE counter[a][k]
  BY <1>1 DEF Render
<1>6. LoadedEntity(c) = EntityAt(log[a], counter[a], k)
  BY <1>4, <1>5 DEF LoadedEntity, EntityAt, Target
<1>7. Render(a, reply[c].events) \in Int
  <2>1. k = 0 \/ k \in 1..Len(counter[a])
    BY <1>3, <1>4
  <2> QED
    BY <1>3, <1>5, <2>1
<1>8. LoadedEntity(c) \in Entity /\ LoadedEntity(c).rev = reply[c].rev
  BY <1>1, <1>7 DEF LoadedEntity, Entity, Target
<1>9. Shows(log[a], counter[a], LoadedEntity(c))
  BY <1>4, <1>6 DEF Shows
<1> QED
  BY <1>2, <1>8, <1>9 DEF ClientInv, ReplyOf

\* The store's part of a call that ends.
LEMMA StoreReturns ==
  ASSUME IInv, NEW c \in Clients, Store!Return(c)
  PROVE  /\ log' = log /\ call'[c] = None /\ reply'[c] = None
         /\ call' \in [Clients -> Request \cup {None}]
         /\ reply' \in [Clients -> Reply \cup {None}]
         /\ \A d \in Clients : d # c => call'[d] = call[d] /\ reply'[d] = reply[d]
  BY StoreType DEF Store!Return, IInv, TypeOK

\* The store is asked.
LEMMA StoreInvoked ==
  ASSUME IInv, NEW c \in Clients, NEW asked \in Request, Store!Invoke(c, asked)
  PROVE  /\ log' = log /\ call'[c] = asked /\ reply'[c] = None
         /\ call' \in [Clients -> Request \cup {None}]
         /\ reply' \in [Clients -> Reply \cup {None}]
         /\ \A d \in Clients : d # c => call'[d] = call[d] /\ reply'[d] = reply[d]
<1>1. call[c] = None /\ call' = [call EXCEPT ![c] = asked] /\ log' = log /\ reply' = reply
  BY DEF Store!Invoke
<1>2. reply[c] = None
  BY <1>1 DEF IInv, ClientInv, CallOf
<1> QED
  BY <1>1, <1>2, StoreType DEF IInv, TypeOK

\* A call of execute() or load() that has its answer: what it loaded is what a
\* prefix of the stream renders to, and shows what its handler has published.
LEMMA FinishPreserves ==
  ASSUME IInv, NEW c \in Clients, NEW cmd \in Calls,
         NEW kind \in {"rejected", "conflict", "failed", "entity", "loaded", "reloaded"},
         NEW result \in Entity \cup {None}, Finish(c, kind, result),
         log' = log, counter' = counter,
         call' \in [Clients -> Request \cup {None}], reply' \in [Clients -> Reply \cup {None}],
         call'[c] = None, reply'[c] = None,
         \A d \in Clients : d # c => call'[d] = call[d] /\ reply'[d] = reply[d],
         command' = [command EXCEPT ![c] = cmd],
         accepted[c] = {} \/ cmd = command[c],
         UNCHANGED <<entity, publishes, accepted>>, executes' \in 0..MaxExecutes,
         kind \in {"loaded", "reloaded"} =>
           /\ \A r \in accepted[c] : r <= result.rev
           /\ Shows(log[cmd.agg], counter[cmd.agg], result)
  PROVE  IInv'
<1>1. /\ step'[c] = "return" /\ answer'[c] = [kind |-> kind, entity |-> result]
      /\ command'[c] = cmd
      /\ \A d \in Clients : d # c => /\ step'[d] = step[d] /\ answer'[d] = answer[d]
                                     /\ command'[d] = command[d]
  BY DEF Finish, Goto, IInv, TypeOK
<1>2. TypeOK'
  <2>1. /\ step' \in [Clients -> {"idle", "load", "handle", "publish", "reload", "return"}]
        /\ command' \in [Clients -> Calls \cup {None}]
    BY DEF Finish, Goto, IInv, TypeOK
  <2>2. [kind |-> kind, entity |-> result] \in Result
    BY DEF Result
  <2>3. answer' \in [Clients -> Result \cup {None}]
    BY <2>2 DEF Finish, IInv, TypeOK
  <2>4. Store!TypeOK'
    BY SameData DEF Store!TypeOK, IInv, TypeOK
  <2> QED
    BY <2>1, <2>3, <2>4 DEF IInv, TypeOK
<1>3. ClientInv(c)'
  <2>1. StepOf(c)' /\ CallOf(c)' /\ ReplyOf(c)'
    BY <1>1 DEF StepOf, CallOf, ReplyOf, Answered
  <2>2. AcceptedOf(c)'
    <3>1. AcceptedOf(c) /\ (cmd = command[c] => Now(c)' = Now(c))
      BY <1>1 DEF IInv, ClientInv, Now, Target
    <3> QED
      BY <1>1, <3>1 DEF AcceptedOf
  <2>3. AnswerOf(c)'
    BY <1>1 DEF AnswerOf, Target
  <2> QED
    BY <2>1, <2>2, <2>3 DEF ClientInv
<1>4. OthersAlone(c)
  BY <1>1 DEF OthersAlone
<1> QED
  BY <1>2, <1>3, <1>4, QuietPreserves

\* An answer without an entity, the store having nothing to do with it.
LEMMA NoCall ==
  ASSUME IInv, NEW c \in Clients, step[c] \in {"idle", "handle", "return"}
  PROVE  /\ call[c] = None /\ reply[c] = None
         /\ call \in [Clients -> Request \cup {None}]
         /\ reply \in [Clients -> Reply \cup {None}]
  BY StoreType DEF IInv, TypeOK, ClientInv, CallOf

LEMMA SameCommand ==
  ASSUME IInv, NEW c \in Clients, step[c] # "idle", UNCHANGED handlerVars
  PROVE  /\ command' = [command EXCEPT ![c] = command[c]]
         /\ UNCHANGED <<entity, publishes, accepted>>
  BY DEF handlerVars, IInv, TypeOK

LEMMA BeginFacts ==
  ASSUME IInv, NEW c \in Clients, NEW cmd, Begin(c, cmd)
  PROVE  /\ step[c] = "idle" /\ accepted[c] = {}
         /\ command' = [command EXCEPT ![c] = cmd]
         /\ executes' \in 0..MaxExecutes
<1>1. accepted[c] = {}
  BY DEF Begin, IInv, ClientInv, StepOf
<1>2. executes' \in 0..MaxExecutes
  BY ExecuteAssumption DEF Begin, IInv, TypeOK
<1> QED
  BY <1>1, <1>2 DEF Begin

LEMMA FactoryFailsPreserves ==
  ASSUME IInv, NEW c \in Clients, NEW cmd \in Calls, FactoryFails(c, cmd)
  PROVE  IInv'
<1>1. /\ Begin(c, cmd) /\ Finish(c, "failed", None)
      /\ log' = log /\ call' = call /\ reply' = reply
      /\ UNCHANGED <<counter, entity, publishes, accepted>>
  BY DEF FactoryFails, storeVars
<1>2. /\ step[c] = "idle" /\ accepted[c] = {} /\ executes' \in 0..MaxExecutes
      /\ command' = [command EXCEPT ![c] = cmd]
  BY <1>1, BeginFacts
<1> QED
  BY <1>1, <1>2, NoCall, FinishPreserves

LEMMA LoadReturnsPreserves ==
  ASSUME IInv, NEW c \in Clients, LoadReturns(c)
  PROVE  IInv'
<1>1. /\ step[c] = "load" /\ Answered(c, "loaded") /\ Finish(c, "loaded", LoadedEntity(c))
      /\ Store!Return(c) /\ UNCHANGED <<counter, handlerVars, executes>>
  BY DEF LoadReturns
<1>2. command[c] \in Calls /\ executes \in 0..MaxExecutes
  BY <1>1, AtWork DEF IInv, TypeOK
<1> QED
  BY <1>1, <1>2, LoadedShows, StoreReturns, SameCommand, FinishPreserves DEF Target

LEMMA ReloadedPreserves ==
  ASSUME IInv, NEW c \in Clients, Reloaded(c)
  PROVE  IInv'
<1>1. /\ step[c] = "reload" /\ Answered(c, "loaded") /\ Finish(c, "reloaded", LoadedEntity(c))
      /\ Store!Return(c) /\ UNCHANGED <<counter, handlerVars, executes>>
  BY DEF Reloaded
<1>2. command[c] \in Calls /\ executes \in 0..MaxExecutes
  BY <1>1, AtWork DEF IInv, TypeOK
<1> QED
  BY <1>1, <1>2, LoadedShows, StoreReturns, SameCommand, FinishPreserves DEF Target

LEMMA StoreFailedPreserves ==
  ASSUME IInv, NEW c \in Clients, StoreFailed(c)
  PROVE  IInv'
<1>1. PICK kind \in {"conflict", "failed"} : Finish(c, kind, None)
  BY DEF StoreFailed
<1>2. /\ step[c] # "idle" /\ Store!Return(c) /\ UNCHANGED <<counter, handlerVars, executes>>
  BY DEF StoreFailed
<1>3. command[c] \in Calls /\ executes \in 0..MaxExecutes
  BY <1>2, AtWork DEF IInv, TypeOK
<1> QED
  BY <1>1, <1>2, <1>3, StoreReturns, SameCommand, FinishPreserves

LEMMA RejectPreserves ==
  ASSUME IInv, NEW c \in Clients, Reject(c)
  PROVE  IInv'
<1>1. /\ step[c] = "handle" /\ Finish(c, "rejected", None)
      /\ log' = log /\ call' = call /\ reply' = reply
      /\ UNCHANGED <<counter, handlerVars, executes>>
  BY DEF Reject, storeVars
<1>2. command[c] \in Calls /\ executes \in 0..MaxExecutes
  BY <1>1, AtWork DEF IInv, TypeOK
<1> QED
  BY <1>1, <1>2, NoCall, SameCommand, FinishPreserves

LEMMA HandlerEntityPreserves ==
  ASSUME IInv, NEW c \in Clients, HandlerEntity(c)
  PROVE  IInv'
<1> DEFINE own == [rev |-> entity[c].rev,
                   value |-> Reduce(entity[c].value, command[c].name, command[c].amount)]
<1>1. /\ step[c] = "handle" /\ Finish(c, "entity", own)
      /\ log' = log /\ call' = call /\ reply' = reply
      /\ UNCHANGED <<counter, handlerVars, executes>>
  BY DEF HandlerEntity, storeVars
<1>2. command[c] \in Calls /\ executes \in 0..MaxExecutes
  BY <1>1, AtWork DEF IInv, TypeOK
<1>3. own \in Entity
  <2>1. entity[c] \in Entity /\ command[c] \in Command
    BY <1>1 DEF IInv, ClientInv, StepOf
  <2>2. command[c].amount \in Int
    BY <2>1, MaxBatchAssumption DEF Command
  <2> QED
    BY <2>1, <2>2 DEF Entity, Reduce
<1> HIDE DEF own
<1> QED
  BY <1>1, <1>2, <1>3, NoCall, SameCommand, FinishPreserves

\* A client goes from one step of its call to the next; its command, its answer
\* and the streams stay.
LEMMA GoOn ==
  ASSUME IInv, NEW c \in Clients, step[c] \in {"load", "handle", "publish"},
         NEW to \in {"handle", "publish", "reload"}, Goto(c, to),
         log' = log, counter' = counter,
         UNCHANGED <<command, answer, executes>>,
         call' \in [Clients -> Request \cup {None}], reply' \in [Clients -> Reply \cup {None}],
         entity' \in [Clients -> Entity \cup {None}], publishes' \in [Clients -> 0..MaxPublishes],
         accepted' \in [Clients -> SUBSET Revisions],
         \A d \in Clients : d # c => /\ call'[d] = call[d] /\ reply'[d] = reply[d]
                                     /\ entity'[d] = entity[d] /\ accepted'[d] = accepted[d],
         command[c] \in Command, entity'[c] \in Entity,
         Shows(log[Target(c)], counter[Target(c)], entity'[c]),
         reply'[c] = None, to = "handle" => call'[c] = None, CallOf(c)', AcceptedOf(c)'
  PROVE  IInv'
<1>1. /\ step'[c] = to
      /\ \A d \in Clients : d # c => step'[d] = step[d]
      /\ step' \in [Clients -> {"idle", "load", "handle", "publish", "reload", "return"}]
  BY DEF Goto, IInv, TypeOK
<1>2. TypeOK'
  <2>1. Store!TypeOK'
    BY SameData DEF Store!TypeOK, IInv, TypeOK
  <2> QED
    BY <1>1, <2>1 DEF IInv, TypeOK
<1>3. ClientInv(c)'
  <2>1. answer[c] = None /\ command[c] \in Calls
    BY AtWork DEF ClientInv, StepOf
  <2>2. StepOf(c)'
    BY <1>1, <2>1 DEF StepOf, Target
  <2>3. ReplyOf(c)' /\ AnswerOf(c)'
    BY <2>1 DEF ReplyOf, Answered, AnswerOf
  <2> QED
    BY <2>2, <2>3 DEF ClientInv
<1>4. OthersAlone(c)
  BY <1>1 DEF OthersAlone
<1> QED
  BY <1>2, <1>3, <1>4, QuietPreserves

LEMMA LoadedPreserves ==
  ASSUME IInv, NEW c \in Clients, Loaded(c)
  PROVE  IInv'
<1>1. /\ step[c] = "load" /\ Answered(c, "loaded") /\ command[c].name # "load"
      /\ entity' = [entity EXCEPT ![c] = LoadedEntity(c)]
      /\ Store!Return(c) /\ Goto(c, "handle")
      /\ UNCHANGED <<counter, command, publishes, accepted, answer, executes>>
  BY DEF Loaded
<1>2. /\ command[c] \in Command /\ accepted[c] = {}
  BY <1>1, AtWork, TargetType DEF ClientInv, StepOf
<1>3. /\ LoadedEntity(c) \in Entity
      /\ Shows(log[Target(c)], counter[Target(c)], LoadedEntity(c))
  BY <1>1, LoadedShows
<1>4. /\ entity' \in [Clients -> Entity \cup {None}] /\ entity'[c] = LoadedEntity(c)
      /\ \A d \in Clients : d # c => entity'[d] = entity[d]
      /\ publishes \in [Clients -> 0..MaxPublishes] /\ accepted \in [Clients -> SUBSET Revisions]
  BY <1>1, <1>3 DEF IInv, TypeOK
<1>5. step'[c] = "handle" /\ call'[c] = None /\ reply'[c] = None /\ log' = log
  BY <1>1, StoreReturns DEF Goto, IInv, TypeOK
<1>6. CallOf(c)' /\ AcceptedOf(c)'
  BY <1>1, <1>2, <1>5 DEF CallOf, AcceptedOf
<1> QED
  BY <1>1, <1>2, <1>3, <1>4, <1>5, <1>6, StoreReturns, GoOn

\* What is known while a handler runs.
LEMMA HandlerFacts ==
  ASSUME IInv, NEW c \in Clients, step[c] \in {"handle", "publish"}
  PROVE  /\ command[c] \in Command /\ Target(c) \in Aggregates /\ entity[c] \in Entity
         /\ Shows(log[Target(c)], counter[Target(c)], entity[c])
         /\ AcceptedOf(c)
         /\ entity \in [Clients -> Entity \cup {None}]
         /\ publishes \in [Clients -> 0..MaxPublishes]
         /\ accepted \in [Clients -> SUBSET Revisions]
  BY AtWork DEF IInv, TypeOK, ClientInv, StepOf

LEMMA PublishPreserves ==
  ASSUME IInv, NEW c \in Clients, NEW n \in 0..MaxBatch, Publish(c, n)
  PROVE  IInv'
<1> DEFINE asked == [op |-> "publish", agg |-> command[c].agg,
                       expected |-> ExpectedRevision(c), n |-> n]
<1>1. /\ step[c] = "handle" /\ ~BelowZero(command[c], entity[c].value)
      /\ n \in {0, command[c].amount} /\ publishes[c] < MaxPublishes
      /\ publishes' = [publishes EXCEPT ![c] = @ + 1]
      /\ Store!Invoke(c, asked) /\ Goto(c, "publish")
      /\ UNCHANGED <<counter, command, entity, accepted, answer, executes>>
  BY DEF Publish
<1>2. asked \in Request
  BY <1>1, HandlerFacts DEF ExpectedRevision, Request, PublishRequest, Target, Entity, Expected
<1>3. /\ log' = log /\ call'[c] = asked /\ reply'[c] = None /\ step'[c] = "publish"
  BY <1>1, <1>2, StoreInvoked DEF Goto, IInv, TypeOK
<1>4. publishes' \in [Clients -> 0..MaxPublishes]
  BY <1>1, ExecuteAssumption DEF IInv, TypeOK
<1>5. CallOf(c)'
  <2>1. /\ asked # None /\ asked.op = "publish" /\ asked.agg = Target(c)
        /\ asked.expected = entity[c].rev /\ asked.n = n
    BY <1>2, RequestType DEF Target, ExpectedRevision
  <2> QED
    BY <1>1, <1>2, <1>3, <2>1 DEF CallOf, Target
<1>6. AcceptedOf(c)'
  BY <1>1, <1>3, HandlerFacts DEF AcceptedOf, Now, Target
<1> HIDE DEF asked
<1> QED
  BY <1>1, <1>2, <1>3, <1>4, <1>5, <1>6, StoreInvoked, HandlerFacts, GoOn

LEMMA PublishedPreserves ==
  ASSUME IInv, NEW c \in Clients, Published(c)
  PROVE  IInv'
<1>1. /\ step[c] = "publish" /\ Answered(c, "ok")
      /\ accepted' = [accepted EXCEPT ![c] =
           IF reply[c].events = <<>> THEN @ ELSE @ \cup {reply[c].rev}]
      /\ Store!Return(c) /\ Goto(c, "handle")
      /\ UNCHANGED <<counter, command, entity, publishes, answer, executes>>
  BY DEF Published
<1>2. log' = log /\ call'[c] = None /\ reply'[c] = None /\ step'[c] = "handle"
  BY <1>1, StoreReturns DEF Goto, IInv, TypeOK
<1>3. reply[c].events # <<>> =>
        /\ accepted[c] = {}
        /\ reply[c].rev \in Revisions /\ reply[c].rev <= Now(c) /\ entity[c].rev < Now(c)
  BY <1>1, AtWork DEF ClientInv, ReplyOf
<1>4. /\ accepted' \in [Clients -> SUBSET Revisions]
      /\ accepted'[c] = IF reply[c].events = <<>> THEN accepted[c] ELSE {reply[c].rev}
      /\ \A d \in Clients : d # c => accepted'[d] = accepted[d]
  BY <1>1, <1>3, HandlerFacts
<1>5. AcceptedOf(c)'
  <2>1. Now(c)' = Now(c) /\ AcceptedOf(c)
    BY <1>1, <1>2, HandlerFacts DEF Now, Target
  <2>2. CASE reply[c].events = <<>>
    BY <1>1, <1>2, <1>4, <2>1, <2>2 DEF AcceptedOf
  <2>3. CASE reply[c].events # <<>>
    BY <1>1, <1>2, <1>3, <1>4, <2>1, <2>3 DEF AcceptedOf
  <2> QED
    BY <2>2, <2>3
<1>6. CallOf(c)'
  BY <1>2 DEF CallOf
<1> QED
  BY <1>1, <1>2, <1>4, <1>5, <1>6, StoreReturns, HandlerFacts, GoOn

\* A asked to load an aggregate.
LoadOf(a) == [op |-> "load", agg |-> a, expected |-> None, n |-> 0]

LEMMA LoadOfType ==
  ASSUME NEW a \in Aggregates
  PROVE  /\ LoadOf(a) \in Request /\ LoadOf(a) # None
         /\ LoadOf(a).op = "load" /\ LoadOf(a).agg = a
<1>1. LoadOf(a) \in Request
  BY DEF LoadOf, Request, LoadRequest
<1> QED
  BY <1>1, RequestType DEF LoadOf

LEMMA HandlerReloadPreserves ==
  ASSUME IInv, NEW c \in Clients, HandlerReload(c)
  PROVE  IInv'
<1>1. /\ step[c] = "handle" /\ Store!Invoke(c, LoadOf(Target(c))) /\ Goto(c, "reload")
      /\ UNCHANGED <<counter, command, entity, publishes, accepted, answer, executes>>
  BY DEF HandlerReload, CallLoader, LoadOf, Target, handlerVars
<1>2. Target(c) \in Aggregates /\ LoadOf(Target(c)) \in Request
  BY <1>1, HandlerFacts, LoadOfType
<1>3. log' = log /\ call'[c] = LoadOf(Target(c)) /\ reply'[c] = None /\ step'[c] = "reload"
  BY <1>1, <1>2, StoreInvoked DEF Goto, IInv, TypeOK
<1>4. CallOf(c)'
  BY <1>1, <1>2, <1>3, LoadOfType DEF CallOf, Target
<1>5. AcceptedOf(c)'
  BY <1>1, <1>3, HandlerFacts DEF AcceptedOf, Now, Target
<1> QED
  BY <1>1, <1>2, <1>3, <1>4, <1>5, StoreInvoked, HandlerFacts, GoOn

LEMMA ExecutePreserves ==
  ASSUME IInv, NEW c \in Clients, NEW cmd \in Calls, Execute(c, cmd)
  PROVE  IInv'
<1>1. /\ Begin(c, cmd) /\ Store!Invoke(c, LoadOf(cmd.agg)) /\ Goto(c, "load")
      /\ UNCHANGED <<counter, entity, publishes, accepted, answer>>
  BY DEF Execute, CallLoader, LoadOf
<1>2. /\ step[c] = "idle" /\ accepted[c] = {} /\ executes' \in 0..MaxExecutes
      /\ command' = [command EXCEPT ![c] = cmd]
  BY <1>1, BeginFacts
<1>3. LoadOf(cmd.agg) \in Request /\ LoadOf(cmd.agg) # None
      /\ LoadOf(cmd.agg).op = "load" /\ LoadOf(cmd.agg).agg = cmd.agg
  BY TargetType, LoadOfType
<1>4. /\ log' = log /\ call'[c] = LoadOf(cmd.agg) /\ reply'[c] = None
      /\ call' \in [Clients -> Request \cup {None}] /\ reply' \in [Clients -> Reply \cup {None}]
      /\ \A d \in Clients : d # c => call'[d] = call[d] /\ reply'[d] = reply[d]
  BY <1>1, <1>3, StoreInvoked
<1>5. /\ step'[c] = "load" /\ command'[c] = cmd
      /\ step' \in [Clients -> {"idle", "load", "handle", "publish", "reload", "return"}]
      /\ command' \in [Clients -> Calls \cup {None}]
      /\ \A d \in Clients : d # c => step'[d] = step[d] /\ command'[d] = command[d]
  BY <1>1, <1>2 DEF Goto, IInv, TypeOK
<1>6. TypeOK'
  <2>1. Store!TypeOK'
    BY <1>4, SameData DEF Store!TypeOK, IInv, TypeOK
  <2> QED
    BY <1>1, <1>2, <1>5, <2>1 DEF IInv, TypeOK
<1>7. ClientInv(c)'
  <2>1. answer[c] = None
    BY <1>2 DEF IInv, ClientInv, StepOf
  <2>2. StepOf(c)' /\ AcceptedOf(c)' /\ ReplyOf(c)' /\ AnswerOf(c)'
    BY <1>1, <1>2, <1>4, <1>5, <2>1 DEF StepOf, AcceptedOf, ReplyOf, Answered, AnswerOf
  <2>3. CallOf(c)'
    BY <1>3, <1>4, <1>5 DEF CallOf, Target
  <2> QED
    BY <2>2, <2>3 DEF ClientInv
<1>8. OthersAlone(c)
  BY <1>1, <1>4, <1>5 DEF OthersAlone
<1> QED
  BY <1>1, <1>4, <1>6, <1>7, <1>8, QuietPreserves

\* However a call ends, what it has stored stays.
LEMMA EndPreserves ==
  ASSUME IInv, NEW c \in Clients, End(c),
         log' = log, call'[c] = None, reply'[c] = None,
         call' \in [Clients -> Request \cup {None}], reply' \in [Clients -> Reply \cup {None}],
         \A d \in Clients : d # c => call'[d] = call[d] /\ reply'[d] = reply[d]
  PROVE  IInv'
<1>1. /\ step'[c] = "idle" /\ accepted'[c] = {} /\ answer'[c] = None
      /\ UNCHANGED <<counter, executes>>
      /\ \A d \in Clients : d # c => /\ step'[d] = step[d] /\ command'[d] = command[d]
                                     /\ entity'[d] = entity[d] /\ answer'[d] = answer[d]
                                     /\ accepted'[d] = accepted[d]
  BY DEF End, Goto, IInv, TypeOK
<1>2. TypeOK'
  <2>1. Store!TypeOK'
    BY SameData DEF Store!TypeOK, IInv, TypeOK
  <2>2. /\ step' \in [Clients -> {"idle", "load", "handle", "publish", "reload", "return"}]
        /\ command' \in [Clients -> Calls \cup {None}]
        /\ entity' \in [Clients -> Entity \cup {None}]
        /\ accepted' \in [Clients -> SUBSET Revisions]
        /\ answer' \in [Clients -> Result \cup {None}]
    BY DEF End, Goto, IInv, TypeOK
  <2>3. publishes' \in [Clients -> 0..MaxPublishes]
    BY ExecuteAssumption DEF End, IInv, TypeOK
  <2> QED
    BY <1>1, <2>1, <2>2, <2>3 DEF IInv, TypeOK
<1>3. ClientInv(c)'
  BY <1>1 DEF ClientInv, StepOf, CallOf, ReplyOf, AcceptedOf, AnswerOf, Answered
<1>4. OthersAlone(c)
  BY <1>1 DEF OthersAlone
<1> QED
  BY <1>1, <1>2, <1>3, <1>4, QuietPreserves

LEMMA ReturnPreserves ==
  ASSUME IInv, NEW c \in Clients, Return(c)
  PROVE  IInv'
<1>1. step[c] = "return" /\ End(c) /\ log' = log /\ call' = call /\ reply' = reply
  BY DEF Return, storeVars
<1> QED
  BY <1>1, NoCall, EndPreserves

\* A caller that goes away takes its call with it.
LEMMA DroppedPreserves ==
  ASSUME IInv, NEW c \in Clients, Dropped(c)
  PROVE  IInv'
<1>1. CASE call[c] = None
  <2>1. End(c) /\ log' = log /\ call' = call /\ reply' = reply
    BY <1>1 DEF Dropped, storeVars
  <2>2. reply[c] = None
    BY <1>1 DEF IInv, ClientInv, CallOf
  <2>3. call \in [Clients -> Request \cup {None}] /\ reply \in [Clients -> Reply \cup {None}]
    BY StoreType DEF IInv, TypeOK
  <2> QED
    BY <1>1, <2>1, <2>2, <2>3, EndPreserves
<1>2. CASE call[c] # None
  <2>1. End(c) /\ Store!Return(c)
    BY <1>2 DEF Dropped
  <2> QED
    BY <2>1, StoreReturns, EndPreserves
<1> QED
  BY <1>1, <1>2

----------------------------------------------------------------------------
(* The store answers *)

\* A call that is under way in the store.
LEMMA PendingFacts ==
  ASSUME IInv, NEW c \in Clients, call[c] # None
  PROVE  /\ call[c] \in Request /\ step[c] \in {"load", "publish", "reload"}
         /\ call[c].agg = Target(c) /\ Target(c) \in Aggregates
         /\ call[c].op = "publish" => step[c] = "publish"
         /\ call[c].op = "load" => step[c] # "publish"
<1>1. step[c] \in {"idle", "load", "handle", "publish", "reload", "return"} /\ ClientInv(c)
  BY DEF IInv, TypeOK
<1>2. step[c] \in {"load", "publish", "reload"}
  BY <1>1 DEF ClientInv, CallOf
<1> QED
  BY <1>1, <1>2, AtWork DEF ClientInv, CallOf

\* An answer other than to a batch that is stored.
LEMMA AnsweredPreserves ==
  ASSUME IInv, NEW c \in Clients, call[c] # None, NEW answered \in Reply,
         reply' = [reply EXCEPT ![c] = answered], log' = log, call' = call,
         UNCHANGED <<counter, step, handlerVars, answer, executes>>,
         answered.kind = "ok" => answered.events = <<>>,
         answered.kind = "loaded" => /\ answered.events = log[Target(c)]
                                     /\ answered.rev = RevisionOf(log[Target(c)])
  PROVE  IInv'
<1>1. /\ reply'[c] = answered /\ \A d \in Clients : d # c => reply'[d] = reply[d]
      /\ reply' \in [Clients -> Reply \cup {None}]
      /\ UNCHANGED <<command, entity, publishes, accepted>>
  BY StoreType DEF IInv, TypeOK, handlerVars
<1>2. TypeOK'
  <2>1. Store!TypeOK'
    BY <1>1, SameData DEF Store!TypeOK, IInv, TypeOK
  <2> QED
    BY <1>1, <2>1 DEF IInv, TypeOK
<1>3. ClientInv(c)'
  <2>1. ClientInv(c) /\ Target(c) \in Aggregates /\ step[c] \in {"load", "publish", "reload"}
    BY PendingFacts, AtWork
  <2>2. StepOf(c)' /\ CallOf(c)' /\ AcceptedOf(c)' /\ AnswerOf(c)'
    BY <1>1, <2>1 DEF ClientInv, StepOf, CallOf, AcceptedOf, AnswerOf, Target, Now
  <2>3. ReplyOf(c)'
    <3>1. log[Target(c)] \in Seq(Event) /\ Len(log[Target(c)]) \in 0..Len(log[Target(c)])
      BY <2>1, StreamFacts
    <3>2. RevisionAt(log[Target(c)], Len(log[Target(c)])) = RevisionOf(log[Target(c)])
      BY <3>1, RevisionAtType
    <3>3. \A r \in accepted[c] : r <= RevisionOf(log[Target(c)])
      BY <2>1 DEF ClientInv, AcceptedOf, Now
    <3> QED
      BY <1>1, <3>1, <3>2, <3>3 DEF ReplyOf, Answered, Target
  <2> QED
    BY <2>2, <2>3 DEF ClientInv
<1>4. OthersAlone(c)
  BY <1>1 DEF OthersAlone
<1> QED
  BY <1>2, <1>3, <1>4, QuietPreserves

LEMMA AnswerOnlyPreserves ==
  ASSUME IInv, NEW c \in Clients, AnswerOnly(c)
  PROVE  IInv'
<1> DEFINE s == log[Target(c)]
<1>0. UNCHANGED <<counter, step, handlerVars, answer, executes>>
  BY DEF AnswerOnly
<1>1. call[c] # None
  BY DEF AnswerOnly, Store!Conflict, Store!PublishNothing, Store!Load, Store!Fail, Store!Pending
<1>2. call[c].agg = Target(c) /\ Target(c) \in Aggregates
  BY <1>1, PendingFacts
<1>3. s \in Seq(Event) /\ <<>> \in Seq(Event) /\ Zero \in {Zero} \cup Revisions
  BY <1>2, StreamFacts
<1>4. RevisionOf(s) \in {Zero} \cup Revisions
  BY <1>3, RevisionOfType
<1>5. CASE Store!Conflict(c)
  <2>1. /\ reply' = [reply EXCEPT ![c] = Answer("conflict", RevisionOf(s), <<>>)]
        /\ log' = log /\ call' = call
    BY <1>2, <1>5, SameOperators DEF Store!Conflict
  <2>2. Answer("conflict", RevisionOf(s), <<>>) \in Reply
    BY <1>3, <1>4, AnswerType
  <2> QED
    BY <1>0, <1>1, <2>1, <2>2, AnsweredPreserves DEF Answer
<1>6. CASE Store!PublishNothing(c)
  <2>1. /\ reply' = [reply EXCEPT ![c] = Answer("ok", RevisionOf(s), <<>>)]
        /\ log' = log /\ call' = call
    BY <1>2, <1>6, SameOperators DEF Store!PublishNothing
  <2>2. Answer("ok", RevisionOf(s), <<>>) \in Reply
    BY <1>3, <1>4, AnswerType
  <2> QED
    BY <1>0, <1>1, <2>1, <2>2, AnsweredPreserves DEF Answer
<1>7. CASE Store!Load(c)
  <2>1. /\ reply' = [reply EXCEPT ![c] = Answer("loaded", RevisionOf(s), s)]
        /\ log' = log /\ call' = call
    BY <1>2, <1>7, SameOperators DEF Store!Load
  <2>2. Answer("loaded", RevisionOf(s), s) \in Reply
    BY <1>3, <1>4, AnswerType
  <2> QED
    BY <1>0, <1>1, <2>1, <2>2, AnsweredPreserves DEF Answer
<1>8. CASE Store!Fail(c)
  <2>1. /\ reply' = [reply EXCEPT ![c] = Answer("failed", Zero, <<>>)]
        /\ log' = log /\ call' = call
    BY <1>8, SameData, SameOperators DEF Store!Fail
  <2>2. Answer("failed", Zero, <<>>) \in Reply
    BY <1>3, AnswerType
  <2> QED
    BY <1>0, <1>1, <2>1, <2>2, AnsweredPreserves DEF Answer
<1> QED
  BY <1>5, <1>6, <1>7, <1>8 DEF AnswerOnly

----------------------------------------------------------------------------
(* A batch is stored *)

\* A command that the business rule allows keeps the counter where it belongs,
\* event by event.
LEMMA AllowedReduces ==
  ASSUME NEW cmd \in Command, NEW value \in Int, value >= 0, ~BelowZero(cmd, value),
         NEW i \in 1..cmd.amount
  PROVE  Reduce(value, cmd.name, i) \in Int /\ Reduce(value, cmd.name, i) >= 0
<1>1. cmd.amount \in Nat /\ i \in Nat /\ i <= cmd.amount
      /\ cmd.name \in {"increment", "decrement"}
  BY MaxBatchAssumption DEF Command
<1>2. CASE cmd.name = "increment"
  BY <1>1, <1>2 DEF Reduce
<1>3. CASE cmd.name = "decrement"
  <2>1. ~ (value < cmd.amount)
    BY <1>3 DEF BelowZero
  <2> QED
    BY <1>1, <1>3, <2>1 DEF Reduce
<1> QED
  BY <1>1, <1>2, <1>3

\* A batch is only stored for an entity that is current: its handler has
\* published nothing before, and decided on what the stream renders to now.
LEMMA CommittedEntity ==
  ASSUME IInv, NEW c \in Clients, call[c] # None, call[c].op = "publish", call[c].n > 0,
         call[c].expected \in {None, Now(c)}
  PROVE  /\ step[c] = "publish" /\ accepted[c] = {} /\ entity[c].rev = Now(c)
         /\ command[c] \in Command /\ call[c].n = command[c].amount
         /\ entity[c].value = Render(Target(c), log[Target(c)])
         /\ entity[c].value \in Int /\ entity[c].value >= 0
         /\ ~BelowZero(command[c], entity[c].value)
<1> DEFINE a == Target(c)
<1>1. step[c] = "publish" /\ ClientInv(c)
  BY PendingFacts DEF IInv
<1>2. /\ a \in Aggregates /\ command[c] \in Command /\ entity[c] \in Entity
      /\ Shows(log[a], counter[a], entity[c])
  BY <1>1, HandlerFacts
<1>3. /\ call[c].expected = entity[c].rev /\ call[c].n = command[c].amount
      /\ ~BelowZero(command[c], entity[c].value)
  <2>1. call[c].n \in {0, command[c].amount}
    BY <1>1 DEF ClientInv, CallOf
  <2> QED
    BY <1>1, <2>1 DEF ClientInv, CallOf
<1>4. /\ log[a] \in Seq(Event) /\ counter[a] \in Seq(Int)
      /\ Sorted(log[a]) /\ Len(counter[a]) = Len(log[a]) /\ RevisionOf(log[a]) \in Nat
  BY <1>2, StreamFacts
<1>5. entity[c].rev \in Nat /\ entity[c].value \in Int
  BY <1>2, MaxUlidAssumption DEF Entity, Zero, Revisions
<1>6. entity[c].rev = RevisionOf(log[a]) /\ entity[c].rev = Now(c)
  BY <1>3, <1>5, NoneAssumption DEF Now
<1>7. accepted[c] = {}
  BY <1>1, <1>5, <1>6 DEF ClientInv, AcceptedOf
<1>8. entity[c] = EntityAt(log[a], counter[a], Len(log[a]))
  BY <1>2, <1>4, <1>6, CurrentEntity
<1>9. entity[c].value = IF Len(log[a]) = 0 THEN 0 ELSE counter[a][Len(log[a])]
  BY <1>8 DEF EntityAt
<1>10. entity[c].value = Render(a, log[a])
  BY <1>4, <1>9 DEF Render
<1>11. entity[c].value >= 0
  <2>1. CASE Len(log[a]) = 0
    BY <1>9, <2>1
  <2>2. CASE Len(log[a]) # 0
    <3>1. Len(log[a]) \in 1..Len(counter[a])
      BY <1>4, <2>2
    <3> QED
      BY <1>2, <1>9, <2>2, <3>1 DEF IInv, NeverBelowZero
  <2> QED
    BY <2>1, <2>2
<1> QED
  BY <1>1, <1>2, <1>3, <1>5, <1>6, <1>7, <1>10, <1>11

\* Numbers put after numbers.
LEMMA AppendNumbers ==
  ASSUME NEW v \in Seq(Int), NEW w \in Seq(Int)
  PROVE  /\ v \o w \in Seq(Int)
         /\ Len(v \o w) = Len(v) + Len(w)
         /\ \A i \in 1..Len(v) : (v \o w)[i] = v[i]
         /\ \A i \in (Len(v) + 1)..Len(v \o w) :
              i - Len(v) \in 1..Len(w) /\ (v \o w)[i] = w[i - Len(v)]
  OBVIOUS

LEMMA CommitPreserves ==
  ASSUME IInv, NEW c \in Clients, NEW n \in 1..MaxBatch,
         NEW revs \in [1..n -> Revisions], Commit(c, revs)
  PROVE  IInv'
<1> DEFINE a == Target(c)
           expected == call[c].expected
           batch == Batch(revs, expected)
           before == entity[c].value
           more == [i \in 1..Len(revs) |-> Reduce(before, command[c].name, i)]
           answered == Answer("ok", revs[Len(revs)], batch)
<1>1. n \in Nat /\ revs \in Seq(Revisions) /\ Len(revs) = n /\ Len(revs) > 0
      /\ Len(revs) \in 1..Len(revs)
  BY MaxBatchAssumption
<1>2. call[c] # None /\ call[c].op = "publish" /\ call[c].n > 0
  BY DEF Commit, Store!Commit, Store!Pending
<1>3. call[c] \in Request /\ call[c].agg = a /\ a \in Aggregates /\ expected \in Expected
  BY <1>2, PendingFacts, RequestType
<1>4. /\ expected \in {None, Now(c)} /\ Len(revs) = call[c].n
      /\ Increasing(revs) /\ \A i \in 1..Len(revs) : revs[i] > RevisionOf(log[a])
      /\ log' = [log EXCEPT ![a] = log[a] \o batch]
      /\ reply' = [reply EXCEPT ![c] = answered]
      /\ call' = call
  BY <1>3, SameOperators DEF Commit, Store!Commit, Now
<1>5. /\ step[c] = "publish" /\ accepted[c] = {} /\ entity[c].rev = Now(c)
      /\ command[c] \in Command /\ call[c].n = command[c].amount
      /\ before = Render(a, log[a]) /\ before \in Int /\ before >= 0
      /\ ~BelowZero(command[c], before)
  BY <1>2, <1>4, CommittedEntity
<1>6. counter' = [counter EXCEPT ![a] = counter[a] \o more]
  BY <1>5 DEF Commit, Target
<1>7. UNCHANGED <<step, command, entity, publishes, accepted, answer, executes>>
  BY DEF Commit, handlerVars
<1>8. /\ log[a] \in Seq(Event) /\ counter[a] \in Seq(Int) /\ Sorted(log[a])
      /\ Len(counter[a]) = Len(log[a]) /\ RevisionOf(log[a]) \in Nat
  BY <1>3, StreamFacts
<1>9. \A i \in 1..Len(revs) :
        Reduce(before, command[c].name, i) \in Int /\ Reduce(before, command[c].name, i) >= 0
  BY <1>4, <1>5, AllowedReduces
<1>10. /\ more \in Seq(Int) /\ Len(more) = Len(revs)
       /\ \A i \in 1..Len(more) : more[i] >= 0
  BY <1>1, <1>9
<1>11. batch \in Seq(Event) /\ Len(batch) = Len(revs) /\ batch # <<>>
  <2>1. batch \in Seq(Event) /\ Len(batch) = Len(revs)
    BY <1>1, <1>3, BatchType
  <2> HIDE DEF batch
  <2> QED
    BY <1>1, <2>1
<1>12. /\ log[a] \o batch \in Seq(Event) /\ Len(log[a] \o batch) = Len(log[a]) + Len(revs)
       /\ Sorted(log[a] \o batch) /\ RevisionOf(log[a] \o batch) = revs[Len(revs)]
       /\ Extends(log[a], log[a] \o batch)
  <2>1. /\ log[a] \o batch \in Seq(Event) /\ Len(log[a] \o batch) = Len(log[a]) + Len(revs)
        /\ \A i \in 1..Len(log[a]) : (log[a] \o batch)[i] = log[a][i]
    BY <1>1, <1>3, <1>8, AppendBatch
  <2>2. Sorted(log[a] \o batch)
    BY <1>1, <1>3, <1>4, <1>8, AppendSorted
  <2>3. RevisionOf(log[a] \o batch) = revs[Len(revs)]
    BY <1>1, <1>3, <1>8, AppendRevision
  <2>4. Extends(log[a], log[a] \o batch)
    <3> HIDE DEF batch
    <3> QED
      BY <1>1, <1>8, <2>1 DEF Extends
  <2> QED
    BY <2>1, <2>2, <2>3, <2>4
<1> HIDE DEF batch, more
<1>13. /\ counter[a] \o more \in Seq(Int)
       /\ Len(counter[a] \o more) = Len(log[a]) + Len(revs)
       /\ Extends(counter[a], counter[a] \o more)
       /\ \A i \in 1..Len(counter[a] \o more) : (counter[a] \o more)[i] >= 0
  <2>1. /\ counter[a] \o more \in Seq(Int)
        /\ Len(counter[a] \o more) = Len(counter[a]) + Len(more)
        /\ \A i \in 1..Len(counter[a]) : (counter[a] \o more)[i] = counter[a][i]
        /\ \A i \in (Len(counter[a]) + 1)..Len(counter[a] \o more) :
             /\ i - Len(counter[a]) \in 1..Len(more)
             /\ (counter[a] \o more)[i] = more[i - Len(counter[a])]
    BY <1>8, <1>10, AppendNumbers
  <2>2. \A i \in 1..Len(counter[a]) : counter[a][i] >= 0
    BY <1>3 DEF IInv, NeverBelowZero
  <2>3. Extends(counter[a], counter[a] \o more)
    BY <1>8, <1>10, <2>1 DEF Extends
  <2>4. ASSUME NEW i \in 1..Len(counter[a] \o more) PROVE (counter[a] \o more)[i] >= 0
    <3>1. i \in 1..Len(counter[a]) \/ i \in (Len(counter[a]) + 1)..Len(counter[a] \o more)
      BY <1>8
    <3> QED
      BY <1>10, <2>1, <2>2, <3>1
  <2> QED
    BY <1>8, <1>10, <2>1, <2>3, <2>4
<1>14. /\ log' \in [Aggregates -> Seq(Event)] /\ log'[a] = log[a] \o batch
       /\ \A b \in Aggregates : b # a => log'[b] = log[b]
  BY <1>3, <1>4, <1>12, StoreType DEF IInv, TypeOK
<1>15. /\ counter' \in [Aggregates -> Seq(Int)] /\ counter'[a] = counter[a] \o more
       /\ \A b \in Aggregates : b # a => counter'[b] = counter[b]
  BY <1>3, <1>6, <1>13 DEF IInv, TypeOK
<1>16. \A b \in Aggregates :
         /\ Sorted(log'[b]) /\ Len(counter'[b]) = Len(log'[b])
         /\ Extends(log[b], log'[b]) /\ Extends(counter[b], counter'[b])
         /\ \A i \in 1..Len(counter'[b]) : counter'[b][i] >= 0
  <2> SUFFICES ASSUME NEW b \in Aggregates
               PROVE  /\ Sorted(log'[b]) /\ Len(counter'[b]) = Len(log'[b])
                      /\ Extends(log[b], log'[b]) /\ Extends(counter[b], counter'[b])
                      /\ \A i \in 1..Len(counter'[b]) : counter'[b][i] >= 0
    OBVIOUS
  <2>1. CASE b = a
    BY <1>12, <1>13, <1>14, <1>15, <2>1
  <2>2. CASE b # a
    <3>1. log'[b] = log[b] /\ counter'[b] = counter[b]
      BY <1>14, <1>15, <2>2
    <3>2. /\ log[b] \in Seq(Event) /\ counter[b] \in Seq(Int)
          /\ Sorted(log[b]) /\ Len(counter[b]) = Len(log[b])
          /\ \A i \in 1..Len(counter[b]) : counter[b][i] >= 0
      BY StreamFacts DEF IInv, NeverBelowZero
    <3> QED
      BY <3>1, <3>2 DEF Extends
  <2> QED
    BY <2>1, <2>2
<1>17. answered \in Reply /\ answered.kind = "ok" /\ answered.events = batch
       /\ answered.rev = revs[Len(revs)] /\ answered.rev \in Revisions
  BY <1>1, <1>11, AnswerType DEF Answer
<1> HIDE DEF answered
<1>18. /\ reply' \in [Clients -> Reply \cup {None}] /\ reply'[c] = answered
       /\ \A d \in Clients : d # c => reply'[d] = reply[d]
  BY <1>4, <1>17, StoreType DEF IInv, TypeOK
<1>19. TypeOK'
  <2>1. Store!TypeOK'
    BY <1>4, <1>14, <1>18, SameData DEF Store!TypeOK, IInv, TypeOK
  <2> QED
    BY <1>7, <1>15, <2>1 DEF IInv, TypeOK
<1>20. ASSUME NEW d \in Clients, d # c PROVE ClientInv(d)'
  BY <1>4, <1>7, <1>14, <1>15, <1>16, <1>18, <1>20, OthersStay
<1>21. ClientInv(c)'
  <2>1. /\ ClientInv(c) /\ answer[c] = None /\ entity[c] \in Entity
        /\ Shows(log[a], counter[a], entity[c])
    BY <1>5, AtWork, HandlerFacts DEF ClientInv, StepOf
  <2>2. Shows(log'[a], counter'[a], entity[c])
    BY <1>3, <1>8, <1>14, <1>15, <1>16, <2>1, ShowsStays
  <2>3. StepOf(c)'
    BY <1>5, <1>7, <2>1, <2>2 DEF ClientInv, StepOf, Target
  <2>4. CallOf(c)'
    BY <1>2, <1>4, <1>7, <2>1 DEF ClientInv, CallOf, Target
  <2>5. Now(c)' = revs[Len(revs)] /\ Now(c) < revs[Len(revs)] /\ revs[Len(revs)] \in Nat
    <3>1. Now(c)' = RevisionOf(log'[a])
      BY <1>7 DEF Now, Target
    <3>2. revs[Len(revs)] > RevisionOf(log[a]) /\ revs[Len(revs)] \in Nat
      BY <1>1, <1>4, <1>17, MaxUlidAssumption DEF Revisions
    <3> QED
      BY <1>8, <1>12, <1>14, <3>1, <3>2 DEF Now
  <2>6. ReplyOf(c)'
    BY <1>5, <1>7, <1>17, <1>18, <2>5 DEF ReplyOf, Answered
  <2>7. AcceptedOf(c)' /\ AnswerOf(c)'
    BY <1>5, <1>7, <2>1 DEF AcceptedOf, AnswerOf
  <2> QED
    BY <2>3, <2>4, <2>6, <2>7 DEF ClientInv
<1>22. StreamInv' /\ NeverBelowZero'
  BY <1>16 DEF StreamInv, NeverBelowZero
<1> QED
  BY <1>19, <1>20, <1>21, <1>22 DEF IInv

----------------------------------------------------------------------------

LEMMA InitIInv == Init => IInv
<1> SUFFICES ASSUME Init PROVE IInv
  OBVIOUS
<1>1. /\ log = [a \in Aggregates |-> <<>>] /\ counter = [a \in Aggregates |-> <<>>]
      /\ call = [c \in Clients |-> None] /\ reply = [c \in Clients |-> None]
  BY DEF Init, Store!Init
<1>2. TypeOK
  <2>1. Store!TypeOK
    BY <1>1, StoreType
  <2> QED
    BY <1>1, <2>1, ExecuteAssumption DEF Init, TypeOK
<1>3. StreamInv /\ NeverBelowZero
  BY <1>1 DEF StreamInv, NeverBelowZero, Sorted
<1>4. ASSUME NEW c \in Clients PROVE ClientInv(c)
  BY <1>1 DEF Init, ClientInv, StepOf, CallOf, ReplyOf, AcceptedOf, AnswerOf, Answered
<1> QED
  BY <1>2, <1>3, <1>4 DEF IInv

LEMMA ProceedPreserves ==
  ASSUME IInv, NEW c \in Clients, Proceed(c)
  PROVE  IInv'
<1>1. CASE LoadReturns(c) \/ Loaded(c) \/ Reject(c) \/ Published(c)
  BY <1>1, LoadReturnsPreserves, LoadedPreserves, RejectPreserves, PublishedPreserves
<1>2. CASE \E n \in 0..MaxBatch : Publish(c, n)
  BY <1>2, PublishPreserves
<1>3. CASE StoreFailed(c) \/ HandlerEntity(c) \/ HandlerReload(c)
  BY <1>3, StoreFailedPreserves, HandlerEntityPreserves, HandlerReloadPreserves
<1>4. CASE Reloaded(c) \/ Return(c)
  BY <1>4, ReloadedPreserves, ReturnPreserves
<1>5. CASE StoreStep(c)
  <2>1. CASE \E n \in 1..MaxBatch : \E revs \in [1..n -> Revisions] : Commit(c, revs)
    BY <2>1, CommitPreserves
  <2>2. CASE AnswerOnly(c)
    BY <2>2, AnswerOnlyPreserves
  <2> QED
    BY <1>5, <2>1, <2>2 DEF StoreStep
<1> QED
  BY <1>1, <1>2, <1>3, <1>4, <1>5 DEF Proceed

LEMMA NextIInv == IInv /\ [Next]_vars => IInv'
<1> SUFFICES ASSUME IInv, [Next]_vars PROVE IInv'
  OBVIOUS
<1>1. ASSUME NEW c \in Clients, NEW cmd \in Calls, Execute(c, cmd) \/ FactoryFails(c, cmd)
      PROVE  IInv'
  BY <1>1, ExecutePreserves, FactoryFailsPreserves
<1>2. ASSUME NEW c \in Clients, Proceed(c) PROVE IInv'
  BY <1>2, ProceedPreserves
<1>3. ASSUME NEW c \in Clients, Dropped(c) PROVE IInv'
  BY <1>3, DroppedPreserves
<1>4. CASE UNCHANGED vars
  <2>1. /\ UNCHANGED <<log, call, reply, counter, step, command, entity, publishes>>
        /\ UNCHANGED <<accepted, answer, executes>>
    BY <1>4 DEF vars, storeVars, handlerVars
  <2>2. TypeOK' /\ StreamInv' /\ NeverBelowZero'
    BY <2>1 DEF IInv, TypeOK, Store!TypeOK, StreamInv, NeverBelowZero
  <2>3. ASSUME NEW c \in Clients PROVE ClientInv(c)'
    <3>1. ClientInv(c)
      BY DEF IInv
    <3> QED
      BY <2>1, <3>1 DEF ClientInv, StepOf, CallOf, ReplyOf, AcceptedOf, AnswerOf, Answered,
                        Target, Now
  <2> QED
    BY <2>2, <2>3 DEF IInv
<1> QED
  BY <1>1, <1>2, <1>3, <1>4 DEF Next

\* Every reachable state meets the inductive invariant.
THEOREM Invariance == Spec => []IInv
  BY InitIInv, NextIInv, PTL DEF Spec

\* Type correctness of services and of the store under them.
THEOREM TypeCorrect == Spec => []TypeOK
<1>1. IInv => TypeOK
  BY DEF IInv
<1> QED
  BY <1>1, Invariance, PTL

\* The handlers' business rule holds of the stored events, whatever store it is
\* and however commands, failures and dropped callers interleave: publishing
\* against the loaded revision stores no decision made on an outdated entity.
THEOREM BusinessRule == Spec => []NeverBelowZero
<1>1. IInv => NeverBelowZero
  BY DEF IInv
<1> QED
  BY <1>1, Invariance, PTL

\* A handler has at most one publish accepted for the entity it was given.
THEOREM OneAccepted == Spec => []OnePublishPerEntity
<1>1. IInv => OnePublishPerEntity
  BY DEF IInv, ClientInv, AcceptedOf, OnePublishPerEntity
<1> QED
  BY <1>1, Invariance, PTL

\* What execute() reloads, or load() returns, is what a prefix of the stream
\* renders to, and a reload shows what the handler has published.
THEOREM ReloadsShow == Spec => []ReloadShowsOwnWrites
<1>1. IInv => ReloadShowsOwnWrites
  <2> SUFFICES ASSUME IInv, NEW c \in Clients,
                      answer[c] # None, answer[c].kind \in {"loaded", "reloaded"}
               PROVE  /\ \A r \in accepted[c] : r <= answer[c].entity.rev
                      /\ \E k \in 0..Len(log[Target(c)]) :
                           LET s == SubSeq(log[Target(c)], 1, k)
                           IN answer[c].entity = [rev |-> RevisionOf(s),
                                                  value |-> Render(Target(c), s)]
    BY DEF ReloadShowsOwnWrites, Target
  <2>1. step[c] = "return"
    BY DEF IInv, ClientInv, StepOf
  <2>2. /\ \A r \in accepted[c] : r <= answer[c].entity.rev
        /\ Shows(log[Target(c)], counter[Target(c)], answer[c].entity)
    BY DEF IInv, ClientInv, AnswerOf
  <2>3. Target(c) \in Aggregates /\ log[Target(c)] \in Seq(Event)
    BY <2>1, AtWork, StreamFacts
  <2>4. PICK k \in 0..Len(log[Target(c)]) :
          answer[c].entity = EntityAt(log[Target(c)], counter[Target(c)], k)
    BY <2>2 DEF Shows
  <2> DEFINE s == SubSeq(log[Target(c)], 1, k)
  <2>5. s \in Seq(Event) /\ Len(s) = k /\ \A i \in 1..k : s[i] = log[Target(c)][i]
    BY <2>3, <2>4
  <2> HIDE DEF s
  <2>6. RevisionOf(s) = RevisionAt(log[Target(c)], k)
    BY <2>4, <2>5 DEF RevisionOf, RevisionAt
  <2>7. Render(Target(c), s) = IF k = 0 THEN 0 ELSE counter[Target(c)][k]
    BY <2>5 DEF Render
  <2>8. answer[c].entity = [rev |-> RevisionOf(s), value |-> Render(Target(c), s)]
    BY <2>4, <2>6, <2>7 DEF EntityAt
  <2> QED
    BY <2>2, <2>8 DEF s
<1> QED
  BY <1>1, Invariance, PTL

----------------------------------------------------------------------------
(* The store under a service sees its calls and nothing else. *)

LEMMA CallsTheStore ==
  ASSUME IInv, NEW c \in Clients, Proceed(c)
  PROVE  [Store!Next]_Store!vars
<1>1. CASE LoadReturns(c) \/ Loaded(c) \/ Published(c) \/ StoreFailed(c) \/ Reloaded(c)
  <2>1. Store!Return(c)
    BY <1>1 DEF LoadReturns, Loaded, Published, StoreFailed, Reloaded
  <2> QED
    BY <2>1 DEF Store!Next
<1>2. CASE Reject(c) \/ HandlerEntity(c) \/ Return(c)
  BY <1>2 DEF Reject, HandlerEntity, Return, storeVars, Store!vars
<1>3. ASSUME NEW n \in 0..MaxBatch, Publish(c, n) PROVE Store!Next
  <2> DEFINE asked == [op |-> "publish", agg |-> command[c].agg,
                       expected |-> ExpectedRevision(c), n |-> n]
  <2>1. Store!Invoke(c, asked) /\ step[c] = "handle"
    BY <1>3 DEF Publish
  <2>2. asked \in Request
    BY <2>1, HandlerFacts DEF ExpectedRevision, Request, PublishRequest, Target, Entity, Expected
  <2> QED
    BY <2>1, <2>2, SameData DEF Store!Next
<1>4. CASE HandlerReload(c)
  <2>1. step[c] = "handle" /\ Store!Invoke(c, LoadOf(Target(c)))
    BY <1>4 DEF HandlerReload, CallLoader, LoadOf, Target
  <2>2. LoadOf(Target(c)) \in Request
    BY <2>1, HandlerFacts, LoadOfType
  <2> QED
    BY <2>1, <2>2, SameData DEF Store!Next
<1>5. CASE StoreStep(c)
  <2>1. ASSUME NEW n \in 1..MaxBatch, NEW revs \in [1..n -> Revisions], Commit(c, revs)
        PROVE  Store!Next
    BY <2>1 DEF Commit, Store!Next, Store!Revisions, Revisions
  <2>2. CASE AnswerOnly(c)
    BY <2>2 DEF AnswerOnly, Store!Next
  <2> QED
    BY <1>5, <2>1, <2>2 DEF StoreStep
<1> QED
  BY <1>1, <1>2, <1>3, <1>4, <1>5 DEF Proceed

LEMMA StepOfTheStore == IInv /\ [Next]_vars => [Store!Next]_Store!vars
<1> SUFFICES ASSUME IInv, [Next]_vars PROVE [Store!Next]_Store!vars
  OBVIOUS
<1>1. ASSUME NEW c \in Clients, NEW cmd \in Calls, Execute(c, cmd) PROVE Store!Next
  <2>1. Store!Invoke(c, LoadOf(cmd.agg))
    BY <1>1 DEF Execute, CallLoader, LoadOf
  <2>2. LoadOf(cmd.agg) \in Request
    BY TargetType, LoadOfType
  <2> QED
    BY <2>1, <2>2, SameData DEF Store!Next
<1>2. ASSUME NEW c \in Clients, NEW cmd \in Calls, FactoryFails(c, cmd)
      PROVE  UNCHANGED Store!vars
  BY <1>2 DEF FactoryFails, storeVars, Store!vars
<1>3. ASSUME NEW c \in Clients, Proceed(c) PROVE [Store!Next]_Store!vars
  BY <1>3, CallsTheStore
<1>4. ASSUME NEW c \in Clients, Dropped(c) PROVE [Store!Next]_Store!vars
  BY <1>4 DEF Dropped, storeVars, Store!vars, Store!Next
<1>5. CASE UNCHANGED vars
  BY <1>5 DEF vars, storeVars, Store!vars
<1> QED
  BY <1>1, <1>2, <1>3, <1>4, <1>5 DEF Next

\* However handlers publish, reload, fail and are dropped, the store they run on
\* makes steps of EventStream only: every invocation is a request of its
\* interface, one at a time per caller.
THEOREM UsesAStream == Spec => Store!Spec
<1>1. Init => Store!Init
  BY DEF Init
<1> QED
  BY <1>1, StepOfTheStore, Invariance, PTL DEF Spec, Store!Spec

\* Two executions that loaded the same revision cannot both write on top of it.
THEOREM OneWinner == Spec => []Store!OneWinnerPerRevision
  BY UsesAStream, NoLostUpdate, PTL

----------------------------------------------------------------------------
(* The Restate binding: invocations, their workers, and what they start.    *)

\* An invocation carries its command, and the worker it waits for is at it.
InvocationOf(i) ==
  /\ status[i] # "new" => request[i] \in Command
  /\ status[i] \in {"new", "queued"} =>
       attempt[i] = None /\ journal[i] = None /\ writes[i] = 0
  /\ attempt[i] # None =>
       status[i] = "running" /\ journal[i] = None /\ running[attempt[i]] = i
  /\ status[i] = "done" => journal[i] # None

\* An entity tells a revision the stream of its aggregate has reached.
Reached(result, a) ==
  Succeeded(result) =>
    result.entity \in Entity /\ result.entity.rev <= RevisionOf(log[a])

\* What was journalled and what was sent from it.
JournalOf(i) ==
  /\ journal[i] # None => Reached(journal[i].result, request[i].agg)
  /\ \A e \in sent[i] : journal[i] # None /\ Succeeded(journal[i].result) /\ Matches(e, i)
  /\ status[i] = "done" /\ Succeeded(journal[i].result) =>
       \A e \in Effects : Matches(e, i) => e \in sent[i]

\* The workflows started are those that were sent, each under the journalled id.
Started(e, i) == Workflow(e, i, journal[i].id, journal[i].result)
WorkflowInv ==
  /\ \A i \in Invocations : \A e \in sent[i] : Started(e, i) \in workflows
  /\ \A x \in workflows : /\ x.inv \in Invocations /\ x.effect \in sent[x.inv]
                          /\ x = Started(x.effect, x.inv)

\* No two invocations run on one key.
KeysApart ==
  \A i, j \in Invocations :
    status[i] = "running" /\ status[j] = "running" /\ i # j => request[i].agg # request[j].agg

\* A worker at an invocation executes its command.
WorkerOf(w) ==
  /\ running[w] = None <=> step[w] = "idle"
  /\ running[w] # None => /\ status[running[w]] \in {"running", "done"}
                          /\ command[w] = request[running[w]]
  /\ step[w] = "return" => answer[w] \in Result /\ Reached(answer[w], Target(w))

\* The handler of worker w has stored a batch.
Committed(w) ==
  \/ accepted[w] # {}
  \/ step[w] = "publish" /\ Answered(w, "ok") /\ reply[w].events # <<>>

\* As long as no worker was lost, the one at an invocation is its only one, and
\* what an invocation has stored its worker knows of.
OneAttempt ==
  /\ \A w \in Clients : running[w] # None => attempt[running[w]] = w
  /\ \A i \in Invocations : status[i] = "running" /\ attempt[i] = None => journal[i] # None
  /\ \A i \in Invocations : writes[i] <= 1
  /\ \A w \in Clients : running[w] # None /\ writes[running[w]] # 0 => Committed(w)

RestateInv ==
  /\ RestateTypeOK
  /\ \A i \in Invocations : InvocationOf(i) /\ JournalOf(i)
  /\ \A w \in Clients : WorkerOf(w)
  /\ WorkflowInv
  /\ KeysApart
  /\ lost = 0 => OneAttempt

\* A handler that publishes once: until it has, it has the current entity.
UpToDate(w) ==
  /\ step[w] = "load" /\ Answered(w, "loaded") => reply[w].rev = Now(w)
  /\ step[w] = "handle" /\ publishes[w] = 0 => entity[w].rev = Now(w)
  /\ step[w] = "publish" /\ reply[w] = None => entity[w].rev = Now(w)
  /\ ~Answered(w, "conflict")
  /\ step[w] = "return" => answer[w].kind # "conflict"

PublishesOf(w) ==
  /\ step[w] \in {"idle", "load"} => publishes[w] = 0
  /\ step[w] = "publish" => publishes[w] # 0

ConflictInv ==
  /\ \A w \in Clients : PublishesOf(w)
  /\ lost = 0 => \A w \in Clients : UpToDate(w)
  /\ NoConflictUnlessLost

RestateIInv == IInv /\ RestateInv

----------------------------------------------------------------------------
(* A turn of the closure, seen from the invocation it serves *)

TurnOf(w) ==
  /\ OthersAlone(w) /\ command' = command
  /\ step'[w] # "idle"
  /\ Committed(w) => Committed(w)'
  /\ step'[w] = "return" => answer'[w] \in Result /\ Reached(answer[w], Target(w))'
  /\ \/ log' = log
     \/ /\ ~Committed(w) /\ Committed(w)'
        /\ \A a \in Aggregates : RevisionOf(log[a]) <= RevisionOf(log'[a])
        /\ \A a \in Aggregates : a # Target(w) => log'[a] = log[a]

\* What an entity shows has been reached.
LEMMA ShownIsReached ==
  ASSUME IInv, NEW a \in Aggregates, NEW e, Shows(log[a], counter[a], e)
  PROVE  e.rev <= RevisionOf(log[a])
<1>1. PICK k \in 0..Len(log[a]) : e = EntityAt(log[a], counter[a], k)
  BY DEF Shows
<1>2. log[a] \in Seq(Event) /\ Sorted(log[a]) /\ RevisionOf(log[a]) \in Nat
  BY StreamFacts
<1>3. e.rev = RevisionAt(log[a], k)
  BY <1>1 DEF EntityAt
<1>4. RevisionOf(log[a]) = RevisionAt(log[a], Len(log[a]))
  BY <1>2, RevisionAtType
<1>5. CASE k = Len(log[a])
  BY <1>2, <1>3, <1>4, <1>5
<1>6. CASE k # Len(log[a])
  <2>1. RevisionAt(log[a], k) < RevisionAt(log[a], Len(log[a]))
    BY <1>2, <1>6, RevisionAtIncreases
  <2>2. RevisionAt(log[a], k) \in Nat
    BY <1>2, RevisionAtType, MaxUlidAssumption DEF Zero, Revisions
  <2> QED
    BY <1>2, <1>3, <1>4, <2>1, <2>2
<1> QED
  BY <1>5, <1>6

\* An execution that has its answer.
LEMMA FinishTurn ==
  ASSUME IInv, NEW w \in Clients, step[w] \in {"load", "handle", "publish", "reload"},
         NEW kind \in {"rejected", "conflict", "failed", "entity", "loaded", "reloaded"},
         NEW result \in Entity \cup {None}, Finish(w, kind, result),
         kind \in {"entity", "reloaded"} => result \in Entity /\ result.rev <= Now(w),
         log' = log, UNCHANGED handlerVars,
         (call' = call /\ reply' = reply) \/ Store!Return(w),
         step[w] = "publish" => ~Answered(w, "ok")
  PROVE  TurnOf(w)
<1>1. /\ step'[w] = "return" /\ answer'[w] = [kind |-> kind, entity |-> result]
      /\ \A d \in Clients : d # w => step'[d] = step[d] /\ answer'[d] = answer[d]
  BY DEF Finish, Goto, IInv, TypeOK
<1>2. \A d \in Clients : d # w => call'[d] = call[d] /\ reply'[d] = reply[d]
  BY StoreReturns
<1>3. OthersAlone(w) /\ command' = command /\ accepted' = accepted
  BY <1>1, <1>2 DEF OthersAlone, handlerVars
<1>4. Committed(w) => Committed(w)'
  BY <1>3 DEF Committed
<1>5. answer'[w] \in Result
  BY <1>1 DEF Result
<1>6. Reached(answer[w], Target(w))'
  BY <1>1, <1>3 DEF Reached, Succeeded, Target, Now
<1> QED
  BY <1>1, <1>3, <1>4, <1>5, <1>6 DEF TurnOf

\* An execution that goes on.
LEMMA GoTurn ==
  ASSUME IInv, NEW w \in Clients, NEW to \in {"handle", "publish", "reload"}, Goto(w, to),
         log' = log, UNCHANGED <<command, answer>>,
         \A d \in Clients : d # w => /\ call'[d] = call[d] /\ reply'[d] = reply[d]
                                     /\ entity'[d] = entity[d] /\ accepted'[d] = accepted[d],
         Committed(w) => accepted'[w] # {}
  PROVE  TurnOf(w)
<1>1. step'[w] = to /\ \A d \in Clients : d # w => step'[d] = step[d]
  BY DEF Goto, IInv, TypeOK
<1> QED
  BY <1>1 DEF TurnOf, OthersAlone, Committed

LEMMA CommitTurn ==
  ASSUME IInv, IInv', NEW w \in Clients, NEW n \in 1..MaxBatch,
         NEW revs \in [1..n -> Revisions], Commit(w, revs)
  PROVE  TurnOf(w)
<1> DEFINE a == Target(w)
           batch == Batch(revs, call[w].expected)
<1>1. n \in Nat /\ revs \in Seq(Revisions) /\ Len(revs) = n /\ Len(revs) > 0
      /\ Len(revs) \in 1..Len(revs)
  BY MaxBatchAssumption
<1>2. /\ call[w] # None /\ call[w].op = "publish" /\ call[w].n > 0 /\ reply[w] = None
  BY DEF Commit, Store!Commit, Store!Pending
<1>3. call[w] \in Request /\ call[w].agg = a /\ a \in Aggregates /\ call[w].expected \in Expected
  BY <1>2, PendingFacts, RequestType
<1>4. /\ call[w].expected \in {None, Now(w)}
      /\ \A i \in 1..Len(revs) : revs[i] > RevisionOf(log[a])
      /\ log' = [log EXCEPT ![a] = log[a] \o batch]
      /\ reply' = [reply EXCEPT ![w] = Answer("ok", revs[Len(revs)], batch)]
      /\ call' = call
      /\ UNCHANGED <<step, command, entity, publishes, accepted, answer>>
  BY <1>3, SameOperators DEF Commit, Store!Commit, Now, handlerVars
<1>5. step[w] = "publish" /\ accepted[w] = {}
  BY <1>2, <1>4, CommittedEntity
<1>6. ~Committed(w)
  BY <1>2, <1>5 DEF Committed, Answered
<1>7. log[a] \in Seq(Event) /\ RevisionOf(log[a]) \in Nat
  BY <1>3, StreamFacts
<1>8. RevisionOf(log[a] \o batch) = revs[Len(revs)]
  BY <1>1, <1>3, <1>7, AppendRevision
<1>9. batch \in Seq(Event) /\ batch # <<>>
  <2>1. batch \in Seq(Event) /\ Len(batch) = Len(revs)
    BY <1>1, <1>3, BatchType
  <2> HIDE DEF batch
  <2> QED
    BY <1>1, <2>1
<1>10. Committed(w)'
  <2>1. Answer("ok", revs[Len(revs)], batch) \in Reply
    BY <1>1, <1>9, AnswerType
  <2>2. reply'[w] = Answer("ok", revs[Len(revs)], batch) /\ reply'[w] # None
    BY <1>4, <2>1, StoreType, NoneAssumption DEF IInv, TypeOK
  <2> QED
    BY <1>4, <1>5, <1>9, <2>2 DEF Committed, Answered, Answer
<1>11. /\ log'[a] = log[a] \o batch
       /\ \A b \in Aggregates : b # a => log'[b] = log[b]
  BY <1>3, <1>4, StoreType DEF IInv, TypeOK
<1> HIDE DEF batch, a
<1>12. \A b \in Aggregates : RevisionOf(log[b]) <= RevisionOf(log'[b])
  <2>1. RevisionOf(log[a]) <= RevisionOf(log'[a])
    <3>1. revs[Len(revs)] > RevisionOf(log[a]) /\ revs[Len(revs)] \in Nat
      BY <1>1, <1>4, MaxUlidAssumption DEF Revisions
    <3> QED
      BY <1>7, <1>8, <1>11, <3>1
  <2>2. ASSUME NEW b \in Aggregates, b # a PROVE RevisionOf(log[b]) <= RevisionOf(log'[b])
    BY <1>11, <2>2, StreamFacts
  <2> QED
    BY <2>1, <2>2
<1>13. OthersAlone(w)
  BY <1>4, StoreType DEF OthersAlone, IInv, TypeOK
<1> QED
  BY <1>4, <1>5, <1>6, <1>10, <1>11, <1>12, <1>13 DEF TurnOf, a

\* Every other answer of the store changes its caller's reply, and no stream.
LEMMA AnswerOnlyFacts ==
  ASSUME IInv, NEW w \in Clients, AnswerOnly(w)
  PROVE  /\ call[w] # None /\ reply[w] = None /\ log' = log /\ call' = call
         /\ UNCHANGED <<counter, step, command, entity, publishes, accepted, answer>>
         /\ \A d \in Clients : d # w => reply'[d] = reply[d]
         /\ step[w] \in {"load", "publish", "reload"}
<1>1. /\ call[w] # None /\ reply[w] = None /\ log' = log /\ call' = call
  BY DEF AnswerOnly, Store!Conflict, Store!PublishNothing, Store!Load, Store!Fail, Store!Pending
<1>2. \A d \in Clients : d # w => reply'[d] = reply[d]
  BY StoreType DEF AnswerOnly, Store!Conflict, Store!PublishNothing, Store!Load, Store!Fail,
                   IInv, TypeOK
<1> QED
  BY <1>1, <1>2, PendingFacts DEF AnswerOnly, handlerVars

LEMMA AnswerOnlyTurn ==
  ASSUME IInv, NEW w \in Clients, AnswerOnly(w)
  PROVE  TurnOf(w)
<1>1. /\ reply[w] = None /\ log' = log /\ call' = call /\ step[w] \in {"load", "publish", "reload"}
      /\ UNCHANGED <<step, command, entity, accepted, answer>>
      /\ \A d \in Clients : d # w => reply'[d] = reply[d]
  BY AnswerOnlyFacts
<1> QED
  BY <1>1 DEF TurnOf, OthersAlone, Committed, Answered

LEMMA Turn ==
  ASSUME IInv, IInv', NEW w \in Clients, Proceed(w), step[w] # "return"
  PROVE  TurnOf(w)
<1>1. CASE LoadReturns(w) \/ Reloaded(w)
  <2>1. /\ step[w] \in {"load", "reload"} /\ Answered(w, "loaded") /\ Store!Return(w)
        /\ UNCHANGED handlerVars
        /\ \E kind \in {"loaded", "reloaded"} : Finish(w, kind, LoadedEntity(w))
    BY <1>1 DEF LoadReturns, Reloaded
  <2>2. Target(w) \in Aggregates
    BY <2>1, AtWork
  <2>3. LoadedEntity(w) \in Entity /\ LoadedEntity(w).rev <= Now(w)
    BY <2>1, <2>2, LoadedShows, ShownIsReached DEF Now
  <2> QED
    BY <2>1, <2>3, StoreReturns, FinishTurn
<1>2. CASE Reject(w)
  BY <1>2, FinishTurn DEF Reject, storeVars
<1>3. CASE StoreFailed(w)
  <2>1. PICK kind \in {"conflict", "failed"} : Answered(w, kind) /\ Finish(w, kind, None)
    BY <1>3 DEF StoreFailed
  <2> QED
    BY <1>3, <2>1, StoreReturns, FinishTurn DEF StoreFailed, Answered
<1>4. CASE HandlerEntity(w)
  <2> DEFINE own == [rev |-> entity[w].rev,
                     value |-> Reduce(entity[w].value, command[w].name, command[w].amount)]
  <2>1. /\ step[w] = "handle" /\ Finish(w, "entity", own)
        /\ log' = log /\ call' = call /\ reply' = reply /\ UNCHANGED handlerVars
    BY <1>4 DEF HandlerEntity, storeVars
  <2>2. /\ command[w] \in Command /\ entity[w] \in Entity /\ Target(w) \in Aggregates
        /\ Shows(log[Target(w)], counter[Target(w)], entity[w])
    BY <2>1, HandlerFacts
  <2>3. own \in Entity
    BY <2>2, MaxBatchAssumption DEF Entity, Reduce, Command
  <2>4. own.rev <= Now(w)
    BY <2>2, ShownIsReached DEF Now
  <2> QED
    BY <2>1, <2>3, <2>4, FinishTurn
<1>5. CASE Loaded(w)
  <2>1. /\ step[w] = "load" /\ Store!Return(w) /\ Goto(w, "handle")
        /\ UNCHANGED <<command, accepted, answer>>
        /\ \A d \in Clients : d # w => entity'[d] = entity[d]
    BY <1>5 DEF Loaded, IInv, TypeOK
  <2> QED
    BY <2>1, StoreReturns, GoTurn DEF Committed
<1>6. ASSUME NEW n \in 0..MaxBatch, Publish(w, n) PROVE TurnOf(w)
  <2>1. /\ step[w] = "handle" /\ Goto(w, "publish") /\ log' = log /\ reply' = reply
        /\ UNCHANGED <<command, entity, accepted, answer>>
        /\ \A d \in Clients : d # w => call'[d] = call[d]
    BY <1>6, StoreType DEF Publish, Store!Invoke, IInv, TypeOK
  <2> QED
    BY <2>1, GoTurn DEF Committed
<1>7. CASE Published(w)
  <2>1. /\ step[w] = "publish" /\ Store!Return(w) /\ Goto(w, "handle")
        /\ UNCHANGED <<command, entity, answer>>
        /\ accepted' = [accepted EXCEPT ![w] =
             IF reply[w].events = <<>> THEN @ ELSE @ \cup {reply[w].rev}]
    BY <1>7 DEF Published
  <2>2. /\ accepted'[w] = IF reply[w].events = <<>> THEN accepted[w]
                                                   ELSE accepted[w] \cup {reply[w].rev}
        /\ \A d \in Clients : d # w => accepted'[d] = accepted[d]
    BY <2>1 DEF IInv, TypeOK
  <2>3. Committed(w) => accepted'[w] # {}
    <3>1. accepted[w] \subseteq accepted'[w]
      BY <2>2
    <3>2. reply[w].events # <<>> => reply[w].rev \in accepted'[w]
      BY <2>2
    <3> QED
      BY <3>1, <3>2 DEF Committed
  <2>4. \A d \in Clients : d # w => entity'[d] = entity[d]
    BY <2>1
  <2>5. \A d \in Clients : d # w => call'[d] = call[d] /\ reply'[d] = reply[d]
    BY <2>1, StoreReturns
  <2>6. log' = log
    BY <2>1, StoreReturns
  <2> QED
    BY <2>1, <2>2, <2>3, <2>4, <2>5, <2>6, GoTurn
<1>8. CASE HandlerReload(w)
  <2>1. /\ step[w] = "handle" /\ Goto(w, "reload") /\ log' = log /\ reply' = reply
        /\ UNCHANGED <<command, entity, accepted, answer>>
        /\ \A d \in Clients : d # w => call'[d] = call[d]
    BY <1>8, StoreType DEF HandlerReload, CallLoader, Store!Invoke, handlerVars, IInv, TypeOK
  <2> QED
    BY <2>1, GoTurn DEF Committed
<1>9. CASE StoreStep(w)
  BY <1>9, CommitTurn, AnswerOnlyTurn DEF StoreStep
<1>10. ~Return(w)
  BY DEF Return
<1> QED
  BY <1>1, <1>2, <1>3, <1>4, <1>5, <1>6, <1>7, <1>8, <1>9, <1>10 DEF Proceed

----------------------------------------------------------------------------
(* What a step leaves alone stays as it should be. *)

Grown ==
  \A a \in Aggregates : /\ RevisionOf(log[a]) \in Nat /\ RevisionOf(log'[a]) \in Nat
                        /\ RevisionOf(log[a]) <= RevisionOf(log'[a])

LEMMA SameIsGrown ==
  ASSUME IInv, log' = log
  PROVE  Grown
<1>1. \A a \in Aggregates : RevisionOf(log[a]) \in Nat
  BY StreamFacts
<1> QED
  BY <1>1 DEF Grown

LEMMA TurnGrows ==
  ASSUME IInv, IInv', NEW w \in Clients, TurnOf(w)
  PROVE  Grown
<1>1. CASE log' = log
  BY <1>1, SameIsGrown
<1>2. CASE log' # log
  <2>1. log' \in [Aggregates -> Seq(Event)]
    BY SameData DEF IInv, TypeOK, Store!TypeOK
  <2>2. ASSUME NEW a \in Aggregates PROVE RevisionOf(log'[a]) \in Nat
    <3>1. RevisionOf(log'[a]) \in {Zero} \cup Revisions
      BY <2>1, RevisionOfType
    <3> QED
      BY <3>1, MaxUlidAssumption DEF Zero, Revisions
  <2> QED
    BY <1>2, <2>2, StreamFacts DEF Grown, TurnOf
<1> QED
  BY <1>1, <1>2

LEMMA ReachedStays ==
  ASSUME Grown, NEW result, NEW a \in Aggregates, Reached(result, a)
  PROVE  Reached(result, a)'
<1>1. \A e \in Entity : e.rev \in Nat
  BY MaxUlidAssumption DEF Entity, Zero, Revisions
<1>2. Succeeded(result) => result.entity.rev <= RevisionOf(log'[a])
  BY <1>1 DEF Grown, Reached
<1> QED
  BY <1>2 DEF Reached

SameInvocation(i) ==
  /\ status'[i] = status[i] /\ request'[i] = request[i] /\ attempt'[i] = attempt[i]
  /\ journal'[i] = journal[i] /\ sent'[i] = sent[i] /\ writes'[i] = writes[i]

SameWorker(w) ==
  /\ step'[w] = step[w] /\ command'[w] = command[w] /\ accepted'[w] = accepted[w]
  /\ answer'[w] = answer[w] /\ reply'[w] = reply[w] /\ running'[w] = running[w]

\* An invocation that was begun has a command, for an aggregate.
LEMMA RequestFacts ==
  ASSUME RestateInv, NEW i \in Invocations, status[i] # "new"
  PROVE  request[i] \in Command /\ request[i] \in Calls /\ request[i].agg \in Aggregates
  BY DEF RestateInv, InvocationOf, Command, Calls

\* A journalled one was.
LEMMA JournalledFacts ==
  ASSUME RestateInv, NEW i \in Invocations, journal[i] # None
  PROVE  /\ status[i] \in {"running", "done"} /\ attempt[i] = None
         /\ request[i].agg \in Aggregates
         /\ journal[i] \in JournalEntry
<1>1. status[i] \in {"new", "queued", "running", "done"} /\ journal[i] \in JournalEntry
  BY DEF RestateInv, RestateTypeOK
<1>2. status[i] \in {"running", "done"} /\ attempt[i] = None
  BY <1>1 DEF RestateInv, InvocationOf
<1> QED
  BY <1>1, <1>2, RequestFacts

LEMMA InvocationStays ==
  ASSUME RestateIInv, Grown, NEW i \in Invocations, SameInvocation(i),
         attempt[i] # None => running'[attempt[i]] = i
  PROVE  InvocationOf(i)' /\ JournalOf(i)'
<1>1. InvocationOf(i) /\ JournalOf(i) /\ RestateInv
  BY DEF RestateIInv, RestateInv
<1>2. InvocationOf(i)'
  BY <1>1 DEF InvocationOf, SameInvocation
<1>3. journal[i] # None => Reached(journal[i].result, request[i].agg)'
  <2> SUFFICES ASSUME journal[i] # None PROVE Reached(journal[i].result, request[i].agg)'
    OBVIOUS
  <2> DEFINE result == journal[i].result
             a == request[i].agg
  <2>1. a \in Aggregates /\ Reached(result, a)
    BY <1>1, JournalledFacts DEF JournalOf
  <2>2. result' = result /\ a' = a
    BY DEF SameInvocation
  <2> HIDE DEF result, a
  <2>3. \A r : \A b \in Aggregates : Reached(r, b) => Reached(r, b)'
    BY ReachedStays
  <2>4. Reached(result, a)'
    BY <2>1, <2>2, <2>3 DEF Reached
  <2> QED
    BY <2>4 DEF result, a
<1>4. JournalOf(i)'
  BY <1>1, <1>3 DEF JournalOf, SameInvocation, Matches
<1> QED
  BY <1>2, <1>4

LEMMA WorkerStays ==
  ASSUME RestateIInv, Grown, NEW w \in Clients, SameWorker(w),
         running[w] # None => /\ request'[running[w]] = request[running[w]]
                              /\ status'[running[w]] \in {"running", "done"}
  PROVE  WorkerOf(w)'
<1>1. WorkerOf(w) /\ RestateInv /\ IInv
  BY DEF RestateIInv, RestateInv
<1>2. step[w] = "return" => Reached(answer[w], Target(w))'
  <2> SUFFICES ASSUME step[w] = "return" PROVE Reached(answer[w], Target(w))'
    OBVIOUS
  <2>1. Target(w) \in Aggregates /\ Reached(answer[w], Target(w))
    BY <1>1, AtWork DEF WorkerOf
  <2>2. \A r : \A b \in Aggregates : Reached(r, b) => Reached(r, b)'
    BY ReachedStays
  <2>3. answer'[w] = answer[w] /\ Target(w)' = Target(w)
    BY DEF SameWorker, Target
  <2> QED
    BY <2>1, <2>2, <2>3 DEF Reached
<1> QED
  BY <1>1, <1>2 DEF WorkerOf, SameWorker

LEMMA WorkflowsStay ==
  ASSUME RestateInv, workflows' = workflows, sent' = sent,
         \A i \in Invocations :
           journal[i] # None => journal'[i] = journal[i] /\ request'[i] = request[i]
  PROVE  WorkflowInv'
<1>1. \A i \in Invocations : \A e \in sent[i] : journal[i] # None
  BY DEF RestateInv, JournalOf
<1>2. \A i \in Invocations : \A e \in sent[i] : Started(e, i)' = Started(e, i)
  BY <1>1 DEF Started, Workflow
<1> QED
  BY <1>2 DEF RestateInv, WorkflowInv

LEMMA KeysStay ==
  ASSUME RestateInv,
         \A i \in Invocations :
           status'[i] = "running" => status[i] = "running" /\ request'[i] = request[i]
  PROVE  KeysApart'
  BY DEF RestateInv, KeysApart

\* What a batch stored by another worker means to nobody else.
LEMMA SameCommitted ==
  ASSUME NEW w \in Clients, SameWorker(w)
  PROVE  Committed(w)' <=> Committed(w)
  BY DEF SameWorker, Committed, Answered

----------------------------------------------------------------------------
(* Every step of the binding is one of the services it drives. *)

LEMMA AttemptIsExecute ==
  ASSUME RestateInv, NEW i \in Invocations, NEW w \in Clients, status[i] # "new",
         Attempt(i, w)
  PROVE  Next
  BY RequestFacts DEF Attempt, Next

LEMMA StepOfServices == RestateInv /\ [RestateNext]_restateVars => [Next]_vars
<1> SUFFICES ASSUME RestateInv, [RestateNext]_restateVars PROVE [Next]_vars
  OBVIOUS
<1>1. ASSUME NEW i \in Invocations, NEW cmd \in Command, Submit(i, cmd) PROVE UNCHANGED vars
  BY <1>1 DEF Submit
<1>2. ASSUME NEW i \in Invocations, Drive(i) PROVE [Next]_vars
  <2>1. ASSUME NEW w \in Clients, Start(i, w) \/ Retry(i, w) PROVE Next
    BY <2>1, AttemptIsExecute DEF Start, Retry
  <2>2. CASE JournalResult(i)
    <3>1. attempt[i] \in Clients /\ Return(attempt[i])
      BY <2>2 DEF JournalResult, RestateInv, RestateTypeOK
    <3> QED
      BY <3>1 DEF Next, Proceed
  <2>3. ASSUME NEW e \in Effects, Dispatch(i, e) PROVE UNCHANGED vars
    BY <2>3 DEF Dispatch
  <2>4. CASE AnswerClient(i)
    BY <2>4 DEF AnswerClient
  <2> QED
    BY <1>2, <2>1, <2>2, <2>3, <2>4 DEF Drive
<1>3. ASSUME NEW i \in Invocations, Disconnected(i) PROVE UNCHANGED vars
  BY <1>3 DEF Disconnected
<1>4. ASSUME NEW w \in Clients, Work(w) \/ Crashed(w) PROVE Next
  BY <1>4 DEF Work, Closure, Abandon, Crashed, Next, Proceed
<1>5. CASE UNCHANGED restateVars
  BY <1>5 DEF restateVars
<1> QED
  BY <1>1, <1>2, <1>3, <1>4, <1>5 DEF RestateNext

----------------------------------------------------------------------------
(* Steps between Restate and its clients *)

\* The services stand still.
LEMMA IdleServices ==
  ASSUME RestateIInv, UNCHANGED vars, running' = running,
         \A i \in Invocations : status[i] \in {"running", "done"} =>
           request'[i] = request[i] /\ status'[i] \in {"running", "done"}
  PROVE  /\ Grown
         /\ \A w \in Clients : SameWorker(w) /\ WorkerOf(w)'
<1>1. /\ UNCHANGED <<log, call, reply, counter, step, command, entity, publishes>>
      /\ UNCHANGED <<accepted, answer, executes>>
  BY DEF vars, storeVars, handlerVars
<1>2. Grown
  BY <1>1, SameIsGrown DEF RestateIInv
<1>3. ASSUME NEW w \in Clients PROVE SameWorker(w) /\ WorkerOf(w)'
  <2>1. SameWorker(w)
    BY <1>1 DEF SameWorker
  <2>2. running[w] # None => running[w] \in Invocations /\ status[running[w]] \in {"running", "done"}
    BY DEF RestateIInv, RestateInv, RestateTypeOK, WorkerOf
  <2> QED
    BY <1>2, <2>1, <2>2, WorkerStays
<1> QED
  BY <1>2, <1>3

LEMMA SubmitPreserves ==
  ASSUME RestateIInv, IInv', NEW i \in Invocations, NEW cmd \in Command, Submit(i, cmd)
  PROVE  RestateInv'
<1>1. /\ RestateInv /\ IInv /\ status[i] = "new"
      /\ UNCHANGED vars /\ UNCHANGED <<attempt, running, journal, sent, workflows, minted, lost, writes>>
  BY DEF Submit, RestateIInv
<1>2. /\ status' = [status EXCEPT ![i] = "queued"] /\ request' = [request EXCEPT ![i] = cmd]
  BY DEF Submit
<1>3. /\ status'[i] = "queued" /\ request'[i] = cmd
      /\ \A j \in Invocations : j # i => status'[j] = status[j] /\ request'[j] = request[j]
  BY <1>1, <1>2 DEF RestateInv, RestateTypeOK
<1>4. RestateTypeOK'
  BY <1>1, <1>2 DEF IInv, RestateInv, RestateTypeOK
<1>5. Grown /\ \A w \in Clients : SameWorker(w) /\ WorkerOf(w)'
  BY <1>1, <1>3, IdleServices
<1>6. attempt[i] = None /\ journal[i] = None /\ writes[i] = 0 /\ sent[i] = {}
  BY <1>1 DEF RestateInv, InvocationOf, JournalOf
<1>7. ASSUME NEW j \in Invocations PROVE InvocationOf(j)' /\ JournalOf(j)'
  <2>1. CASE j = i
    BY <1>1, <1>3, <1>6, <2>1 DEF InvocationOf, JournalOf
  <2>2. CASE j # i
    <3>1. SameInvocation(j)
      BY <1>1, <1>3, <2>2 DEF SameInvocation
    <3>2. attempt[j] # None => running'[attempt[j]] = j
      BY <1>1 DEF RestateInv, InvocationOf
    <3> QED
      BY <1>5, <3>1, <3>2, InvocationStays
  <2> QED
    BY <2>1, <2>2
<1>8. WorkflowInv'
  BY <1>1, <1>3, <1>6, WorkflowsStay
<1>9. KeysApart'
  BY <1>1, <1>3, KeysStay
<1>10. lost' = 0 => OneAttempt'
  BY <1>1, <1>3, <1>5, SameCommitted DEF RestateInv, OneAttempt
<1> QED
  BY <1>4, <1>5, <1>7, <1>8, <1>9, <1>10 DEF RestateInv

LEMMA DispatchPreserves ==
  ASSUME RestateIInv, IInv', NEW i \in Invocations, NEW e \in Effects, Dispatch(i, e)
  PROVE  RestateInv'
<1> DEFINE started == Started(e, i)
<1>1. /\ RestateInv /\ IInv /\ status[i] = "running" /\ journal[i] # None
      /\ Succeeded(journal[i].result) /\ Matches(e, i)
      /\ UNCHANGED vars /\ UNCHANGED <<status, request, attempt, journal, running, minted, lost, writes>>
  BY DEF Dispatch, RestateIInv
<1>2. /\ workflows' = workflows \cup {started} /\ sent' = [sent EXCEPT ![i] = @ \cup {e}]
  BY DEF Dispatch, Started
<1>3. /\ sent'[i] = sent[i] \cup {e} /\ sent' \in [Invocations -> SUBSET Effects]
      /\ \A j \in Invocations : j # i => sent'[j] = sent[j]
  BY <1>1, <1>2 DEF RestateInv, RestateTypeOK
<1>4. /\ request[i].agg \in Aggregates /\ journal[i] \in JournalEntry /\ attempt[i] = None
  BY <1>1, JournalledFacts
<1>5. RestateTypeOK'
  <2>1. journal[i].result.entity \in Entity
    BY <1>1 DEF RestateInv, JournalOf, Reached
  <2>2. started \in [effect : Effects, inv : Invocations, id : Nat,
                     agg : Aggregates, rev : {Zero} \cup Revisions]
    BY <1>4, <2>1 DEF Started, Workflow, JournalEntry, Entity
  <2> HIDE DEF started
  <2> QED
    BY <1>1, <1>2, <1>3, <2>2 DEF IInv, RestateInv, RestateTypeOK
<1>6. Grown /\ \A w \in Clients : SameWorker(w) /\ WorkerOf(w)'
  BY <1>1, IdleServices
<1>7. ASSUME NEW j \in Invocations PROVE InvocationOf(j)' /\ JournalOf(j)'
  <2>1. CASE j = i
    <3>1. InvocationOf(i)'
      BY <1>1 DEF RestateInv, InvocationOf
    <3>2. Reached(journal[i].result, request[i].agg)'
      BY <1>1 DEF RestateInv, JournalOf, Reached, vars, storeVars
    <3>3. JournalOf(i)'
      BY <1>1, <1>3, <3>2 DEF RestateInv, JournalOf, Matches
    <3> QED
      BY <2>1, <3>1, <3>3
  <2>2. CASE j # i
    <3>1. SameInvocation(j)
      BY <1>1, <1>3, <2>2 DEF SameInvocation
    <3>2. attempt[j] # None => running'[attempt[j]] = j
      BY <1>1 DEF RestateInv, InvocationOf
    <3> QED
      BY <1>6, <3>1, <3>2, InvocationStays
  <2> QED
    BY <2>1, <2>2
<1>8. WorkflowInv'
  <2>1. \A j \in Invocations : \A f : Started(f, j)' = Started(f, j)
    BY <1>1 DEF Started, Workflow
  <2>2. started.inv = i /\ started.effect = e
    BY DEF Started, Workflow
  <2>3. ASSUME NEW j \in Invocations, NEW f \in sent'[j] PROVE Started(f, j) \in workflows'
    <3>1. CASE f \in sent[j]
      BY <1>1, <1>2, <3>1 DEF RestateInv, WorkflowInv
    <3>2. CASE f \notin sent[j]
      BY <1>2, <1>3, <3>2
    <3> QED
      BY <3>1, <3>2
  <2>4. ASSUME NEW x \in workflows'
        PROVE  /\ x.inv \in Invocations /\ x.effect \in sent'[x.inv]
               /\ x = Started(x.effect, x.inv)
    <3>1. CASE x \in workflows
      BY <1>1, <1>3, <3>1 DEF RestateInv, WorkflowInv
    <3>2. CASE x = started
      BY <1>3, <2>2, <3>2
    <3> QED
      BY <1>2, <3>1, <3>2
  <2> QED
    BY <2>1, <2>3, <2>4 DEF WorkflowInv
<1>9. KeysApart'
  BY <1>1, KeysStay
<1>10. lost' = 0 => OneAttempt'
  BY <1>1, <1>6, SameCommitted DEF RestateInv, OneAttempt
<1> QED
  BY <1>5, <1>6, <1>7, <1>8, <1>9, <1>10 DEF RestateInv

LEMMA AnswerClientPreserves ==
  ASSUME RestateIInv, IInv', NEW i \in Invocations, AnswerClient(i)
  PROVE  RestateInv'
<1>1. /\ RestateInv /\ IInv /\ status[i] = "running" /\ journal[i] # None
      /\ Succeeded(journal[i].result) => \A e \in Effects : Matches(e, i) => e \in sent[i]
      /\ UNCHANGED vars
      /\ UNCHANGED <<request, attempt, journal, sent, running, workflows, minted, lost, writes>>
  BY DEF AnswerClient, RestateIInv
<1>2. /\ status' = [status EXCEPT ![i] = "done"] /\ status'[i] = "done"
      /\ \A j \in Invocations : j # i => status'[j] = status[j]
  BY DEF AnswerClient, RestateIInv, RestateInv, RestateTypeOK
<1>3. RestateTypeOK'
  BY <1>1, <1>2 DEF IInv, RestateInv, RestateTypeOK
<1>4. Grown /\ \A w \in Clients : SameWorker(w) /\ WorkerOf(w)'
  BY <1>1, <1>2, IdleServices
<1>5. ASSUME NEW j \in Invocations PROVE InvocationOf(j)' /\ JournalOf(j)'
  <2>1. CASE j = i
    <3>1. attempt[i] = None
      BY <1>1, JournalledFacts
    <3>2. Reached(journal[i].result, request[i].agg)'
      BY <1>1 DEF RestateInv, JournalOf, Reached, vars, storeVars
    <3>3. InvocationOf(i)'
      BY <1>1, <1>2, <3>1 DEF RestateInv, InvocationOf
    <3>4. JournalOf(i)'
      BY <1>1, <1>2, <3>2 DEF RestateInv, JournalOf, Matches
    <3> QED
      BY <2>1, <3>3, <3>4
  <2>2. CASE j # i
    <3>1. SameInvocation(j)
      BY <1>1, <1>2, <2>2 DEF SameInvocation
    <3>2. attempt[j] # None => running'[attempt[j]] = j
      BY <1>1 DEF RestateInv, InvocationOf
    <3> QED
      BY <1>4, <3>1, <3>2, InvocationStays
  <2> QED
    BY <2>1, <2>2
<1>6. WorkflowInv'
  BY <1>1, WorkflowsStay
<1>7. KeysApart'
  BY <1>1, <1>2, KeysStay
<1>8. lost' = 0 => OneAttempt'
  BY <1>1, <1>2, <1>4, SameCommitted DEF RestateInv, OneAttempt
<1> QED
  BY <1>3, <1>4, <1>5, <1>6, <1>7, <1>8 DEF RestateInv

\* After a loss nothing is said of attempts.
LEMMA Loss ==
  ASSUME RestateInv, Lose
  PROVE  lost' \in 0..MaxLost /\ lost' # 0
  BY LostAssumption DEF Lose, RestateInv, RestateTypeOK

LEMMA DisconnectedPreserves ==
  ASSUME RestateIInv, IInv', NEW i \in Invocations, Disconnected(i)
  PROVE  RestateInv'
<1>1. /\ RestateInv /\ IInv /\ UNCHANGED vars /\ lost' \in 0..MaxLost /\ lost' # 0
      /\ UNCHANGED <<status, request, journal, sent, running, workflows, minted, writes>>
  BY Loss DEF Disconnected, RestateIInv
<1>2. /\ attempt' = [attempt EXCEPT ![i] = None] /\ attempt'[i] = None
      /\ \A j \in Invocations : j # i => attempt'[j] = attempt[j]
  BY DEF Disconnected, RestateIInv, RestateInv, RestateTypeOK
<1>3. RestateTypeOK'
  BY <1>1, <1>2 DEF IInv, RestateInv, RestateTypeOK
<1>4. Grown /\ \A w \in Clients : SameWorker(w) /\ WorkerOf(w)'
  BY <1>1, IdleServices
<1>5. ASSUME NEW j \in Invocations PROVE InvocationOf(j)' /\ JournalOf(j)'
  <2>1. CASE j = i
    <3>1. journal[i] # None => Reached(journal[i].result, request[i].agg)'
      BY <1>1 DEF RestateInv, JournalOf, Reached, vars, storeVars
    <3>2. InvocationOf(i)'
      BY <1>1, <1>2 DEF RestateInv, InvocationOf
    <3>3. JournalOf(i)'
      BY <1>1, <3>1 DEF RestateInv, JournalOf, Matches
    <3> QED
      BY <2>1, <3>2, <3>3
  <2>2. CASE j # i
    <3>1. SameInvocation(j)
      BY <1>1, <1>2, <2>2 DEF SameInvocation
    <3>2. attempt[j] # None => running'[attempt[j]] = j
      BY <1>1 DEF RestateInv, InvocationOf
    <3> QED
      BY <1>4, <3>1, <3>2, InvocationStays
  <2> QED
    BY <2>1, <2>2
<1>6. WorkflowInv'
  BY <1>1, WorkflowsStay
<1>7. KeysApart'
  BY <1>1, KeysStay
<1> QED
  BY <1>1, <1>3, <1>4, <1>5, <1>6, <1>7 DEF RestateInv

----------------------------------------------------------------------------
(* Steps of workers *)

\* A worker begins to execute a command.
LEMMA ExecuteFacts ==
  ASSUME IInv, NEW w \in Clients, NEW cmd \in Calls, Execute(w, cmd)
  PROVE  /\ step[w] = "idle" /\ step'[w] = "load" /\ command'[w] = cmd
         /\ log' = log /\ reply'[w] = None
         /\ OthersAlone(w)
<1>1. /\ Begin(w, cmd) /\ Store!Invoke(w, LoadOf(cmd.agg)) /\ Goto(w, "load")
      /\ UNCHANGED <<counter, entity, publishes, accepted, answer>>
  BY DEF Execute, CallLoader, LoadOf
<1>2. step[w] = "idle" /\ command' = [command EXCEPT ![w] = cmd]
  BY <1>1, BeginFacts
<1>3. LoadOf(cmd.agg) \in Request
  BY TargetType, LoadOfType
<1>4. /\ log' = log /\ reply'[w] = None
      /\ \A d \in Clients : d # w => call'[d] = call[d] /\ reply'[d] = reply[d]
  BY <1>1, <1>3, StoreInvoked
<1> QED
  BY <1>1, <1>2, <1>4 DEF Goto, OthersAlone, IInv, TypeOK

\* A worker comes to the end, or dies.
LEMMA EndFacts ==
  ASSUME IInv, NEW w \in Clients, Return(w) \/ Dropped(w)
  PROVE  step'[w] = "idle" /\ log' = log /\ OthersAlone(w)
<1>1. End(w) /\ (UNCHANGED storeVars \/ Store!Return(w))
  BY DEF Return, Dropped
<1>2. /\ log' = log /\ \A d \in Clients : d # w => call'[d] = call[d] /\ reply'[d] = reply[d]
  BY <1>1, StoreReturns DEF storeVars
<1> QED
  BY <1>1, <1>2 DEF End, Goto, OthersAlone, IInv, TypeOK

\* The workers that take no part in a step.
LEMMA OtherWorkers ==
  ASSUME RestateIInv, Grown, NEW w \in Clients, OthersAlone(w), request' = request,
         \A d \in Clients : d # w => running'[d] = running[d],
         \A i \in Invocations :
           status[i] \in {"running", "done"} => status'[i] \in {"running", "done"}
  PROVE  \A d \in Clients : d # w => SameWorker(d) /\ WorkerOf(d)'
<1> SUFFICES ASSUME NEW d \in Clients, d # w PROVE SameWorker(d) /\ WorkerOf(d)'
  OBVIOUS
<1>1. SameWorker(d)
  BY DEF SameWorker, OthersAlone
<1>2. running[d] # None => running[d] \in Invocations /\ status[running[d]] \in {"running", "done"}
  BY DEF RestateIInv, RestateInv, RestateTypeOK, WorkerOf
<1> QED
  BY <1>1, <1>2, WorkerStays

LEMMA AttemptPreserves ==
  ASSUME RestateIInv, IInv', NEW i \in Invocations, NEW w \in Clients, Attempt(i, w),
         status[i] # "new", attempt[i] = None, journal[i] = None,
         status' = [status EXCEPT ![i] = "running"], KeysApart',
         status[i] = "queued" \/ lost # 0
  PROVE  RestateInv'
<1>1. /\ RestateInv /\ IInv /\ running[w] = None /\ Execute(w, request[i])
      /\ attempt' = [attempt EXCEPT ![i] = w] /\ running' = [running EXCEPT ![w] = i]
      /\ UNCHANGED <<request, journal, sent, workflows, minted, lost, writes>>
  BY DEF Attempt, RestateIInv
<1>2. /\ attempt'[i] = w /\ running'[w] = i /\ status'[i] = "running"
      /\ \A j \in Invocations : j # i => attempt'[j] = attempt[j] /\ status'[j] = status[j]
      /\ \A d \in Clients : d # w => running'[d] = running[d]
      /\ status[i] \in {"queued", "running", "done"}
  BY <1>1 DEF RestateInv, RestateTypeOK
<1>3. /\ step'[w] = "load" /\ command'[w] = request[i] /\ log' = log /\ OthersAlone(w)
      /\ request[i] \in Command
  BY <1>1, RequestFacts, ExecuteFacts
<1>4. RestateTypeOK'
  BY <1>1 DEF IInv, RestateInv, RestateTypeOK
<1>5. Grown
  BY <1>1, <1>3, SameIsGrown
<1>6. \A d \in Clients : d # w => SameWorker(d) /\ WorkerOf(d)'
  BY <1>1, <1>2, <1>3, <1>5, OtherWorkers
<1>7. WorkerOf(w)'
  BY <1>1, <1>2, <1>3, InvocationAssumption DEF WorkerOf
<1>8. ASSUME NEW j \in Invocations PROVE InvocationOf(j)' /\ JournalOf(j)'
  <2>1. CASE j = i
    <3>1. sent[i] = {}
      BY <1>1 DEF RestateInv, JournalOf
    <3>2. InvocationOf(i)'
      BY <1>1, <1>2, <1>3 DEF InvocationOf
    <3>3. JournalOf(i)'
      BY <1>1, <1>2, <3>1 DEF JournalOf
    <3> QED
      BY <2>1, <3>2, <3>3
  <2>2. CASE j # i
    <3>1. SameInvocation(j)
      BY <1>1, <1>2, <2>2 DEF SameInvocation
    <3>2. attempt[j] # None => attempt[j] \in Clients /\ running[attempt[j]] = j
      BY <1>1 DEF RestateInv, InvocationOf, RestateTypeOK
    <3>3. attempt[j] # None => running'[attempt[j]] = j
      BY <1>1, <1>2, <3>2, InvocationAssumption
    <3> QED
      BY <1>5, <3>1, <3>3, InvocationStays
  <2> QED
    BY <2>1, <2>2
<1>9. WorkflowInv'
  BY <1>1, WorkflowsStay
<1>10. lost' = 0 => OneAttempt'
  <2> SUFFICES ASSUME lost = 0 PROVE OneAttempt'
    BY <1>1
  <2>1. OneAttempt /\ writes[i] = 0
    BY <1>1 DEF RestateInv, InvocationOf
  <2>2. \A d \in Clients : running'[d] # None => attempt'[running'[d]] = d
    <3> SUFFICES ASSUME NEW d \in Clients, running'[d] # None PROVE attempt'[running'[d]] = d
      OBVIOUS
    <3>1. CASE d = w
      BY <1>2, <3>1
    <3>2. CASE d # w
      <4>1. running[d] \in Invocations /\ attempt[running[d]] = d
        BY <1>1, <1>2, <2>1, <3>2 DEF OneAttempt, RestateInv, RestateTypeOK
      <4>2. running[d] # i
        BY <4>1, NoneAssumption
      <4> QED
        BY <1>2, <3>2, <4>1, <4>2
    <3> QED
      BY <3>1, <3>2
  <2>3. \A j \in Invocations : status'[j] = "running" /\ attempt'[j] = None => journal'[j] # None
    BY <1>1, <1>2, <2>1, NoneAssumption DEF OneAttempt
  <2>4. \A d \in Clients : running'[d] # None /\ writes'[running'[d]] # 0 => Committed(d)'
    BY <1>1, <1>2, <1>6, <2>1, SameCommitted DEF OneAttempt
  <2> QED
    BY <1>1, <2>1, <2>2, <2>3, <2>4 DEF OneAttempt
<1> QED
  BY <1>4, <1>6, <1>7, <1>8, <1>9, <1>10 DEF RestateInv

LEMMA StartPreserves ==
  ASSUME RestateIInv, IInv', NEW i \in Invocations, NEW w \in Clients, Start(i, w)
  PROVE  RestateInv'
<1>1. /\ status[i] = "queued" /\ KeyIsFree(i) /\ Attempt(i, w) /\ RestateInv
      /\ status' = [status EXCEPT ![i] = "running"] /\ request' = request
  BY DEF Start, Attempt, RestateIInv
<1>2. attempt[i] = None /\ journal[i] = None
  BY <1>1 DEF RestateInv, InvocationOf
<1>3. KeysApart'
  <2>1. \A j \in Invocations : j # i => status'[j] = status[j]
    BY <1>1 DEF RestateInv, RestateTypeOK
  <2> QED
    BY <1>1, <2>1 DEF RestateInv, KeysApart, KeyIsFree
<1> QED
  BY <1>1, <1>2, <1>3, AttemptPreserves

LEMMA RetryPreserves ==
  ASSUME RestateIInv, IInv', NEW i \in Invocations, NEW w \in Clients, Retry(i, w)
  PROVE  RestateInv'
<1>1. /\ status[i] = "running" /\ attempt[i] = None /\ journal[i] = None /\ Attempt(i, w)
      /\ status' = status /\ request' = request /\ RestateInv
  BY DEF Retry, Attempt, RestateIInv
<1>2. status' = [status EXCEPT ![i] = "running"]
  BY <1>1 DEF RestateInv, RestateTypeOK
<1>3. KeysApart'
  BY <1>1, KeysStay
<1>4. lost # 0
  BY <1>1 DEF RestateInv, OneAttempt
<1> QED
  BY <1>1, <1>2, <1>3, <1>4, AttemptPreserves

LEMMA ClosurePreserves ==
  ASSUME RestateIInv, IInv', NEW w \in Clients, Closure(w)
  PROVE  RestateInv'
<1>0. PICK i \in Invocations : i = running[w]
  BY DEF Closure, RestateIInv, RestateInv, RestateTypeOK
<1>1. /\ RestateInv /\ IInv /\ running[w] = i /\ i # None /\ step[w] # "return" /\ Proceed(w)
      /\ writes' = IF log' = log THEN writes ELSE [writes EXCEPT ![i] = @ + 1]
      /\ UNCHANGED <<status, request, attempt, journal, sent, running, workflows, minted, lost>>
  BY <1>0 DEF Closure, RestateIInv, invocationVars
<1>2. /\ status[i] \in {"running", "done"} /\ command[w] = request[i]
  BY <1>1 DEF RestateInv, RestateTypeOK, WorkerOf
<1>3. TurnOf(w) /\ OthersAlone(w)
  BY <1>1, Turn DEF TurnOf
<1>4. Grown
  BY <1>1, <1>3, TurnGrows
<1>5. /\ writes' \in [Invocations -> Nat]
      /\ \A j \in Invocations : j # i => writes'[j] = writes[j]
      /\ writes'[i] = IF log' = log THEN writes[i] ELSE writes[i] + 1
  BY <1>1, <1>2 DEF RestateInv, RestateTypeOK
<1>6. RestateTypeOK'
  BY <1>1, <1>5 DEF IInv, RestateInv, RestateTypeOK
<1>7. \A d \in Clients : d # w => SameWorker(d) /\ WorkerOf(d)'
  BY <1>1, <1>3, <1>4, OtherWorkers
<1>8. WorkerOf(w)'
  BY <1>1, <1>2, <1>3 DEF WorkerOf, TurnOf
<1>9. ASSUME NEW j \in Invocations PROVE InvocationOf(j)' /\ JournalOf(j)'
  <2>1. /\ InvocationOf(j) /\ JournalOf(j)
        /\ attempt[j] # None => running'[attempt[j]] = j
    BY <1>1 DEF RestateInv, InvocationOf
  <2>2. CASE j # i
    <3>1. SameInvocation(j)
      BY <1>1, <1>5, <2>2 DEF SameInvocation
    <3> QED
      BY <1>4, <2>1, <3>1, InvocationStays
  <2>3. CASE j = i
    <3>1. InvocationOf(i)'
      BY <1>1, <1>2, <2>1, <2>3 DEF InvocationOf
    <3>2. journal[i] # None => Reached(journal[i].result, request[i].agg)'
      <4> SUFFICES ASSUME journal[i] # None PROVE Reached(journal[i].result, request[i].agg)'
        OBVIOUS
      <4> DEFINE result == journal[i].result
                 a == request[i].agg
      <4>1. a \in Aggregates /\ Reached(result, a)
        BY <1>1, <1>2, <2>1, <2>3, JournalledFacts DEF JournalOf
      <4>2. result' = result /\ a' = a
        BY <1>1
      <4> HIDE DEF result, a
      <4>3. \A r : \A b \in Aggregates : Reached(r, b) => Reached(r, b)'
        BY <1>4, ReachedStays
      <4>4. Reached(result, a)'
        BY <4>1, <4>2, <4>3 DEF Reached
      <4> QED
        BY <4>4 DEF result, a
    <3>3. JournalOf(i)'
      BY <1>1, <2>1, <2>3, <3>2 DEF JournalOf, Matches
    <3> QED
      BY <2>3, <3>1, <3>3
  <2> QED
    BY <2>2, <2>3
<1>10. WorkflowInv'
  BY <1>1, WorkflowsStay
<1>11. KeysApart'
  BY <1>1, KeysStay
<1>12. lost' = 0 => OneAttempt'
  <2> SUFFICES ASSUME lost = 0 PROVE OneAttempt'
    BY <1>1
  <2>1. OneAttempt
    BY <1>1 DEF RestateInv
  <2>2. writes'[i] <= 1 /\ (writes'[i] # 0 => Committed(w)')
    <3>1. CASE log' = log
      BY <1>1, <1>2, <1>3, <1>5, <2>1, <3>1 DEF OneAttempt, TurnOf
    <3>2. CASE log' # log
      <4>1. ~Committed(w) /\ Committed(w)'
        BY <1>3, <3>2 DEF TurnOf
      <4>2. writes[i] = 0
        BY <1>1, <2>1, <4>1 DEF OneAttempt
      <4> QED
        BY <1>5, <3>2, <4>1, <4>2
    <3> QED
      BY <3>1, <3>2
  <2>3. \A j \in Invocations : writes'[j] <= 1
    BY <1>5, <2>1, <2>2 DEF OneAttempt
  <2>4. ASSUME NEW d \in Clients, running[d] # None, writes'[running[d]] # 0
        PROVE  Committed(d)'
    <3>1. CASE d = w
      BY <1>1, <2>2, <2>4, <3>1
    <3>2. CASE d # w
      <4>1. running[d] \in Invocations /\ running[d] # i
        BY <1>1, <2>1, <2>4, <3>2 DEF OneAttempt, RestateInv, RestateTypeOK
      <4>2. Committed(d)
        BY <1>5, <2>1, <2>4, <4>1 DEF OneAttempt
      <4> QED
        BY <1>7, <3>2, <4>2, SameCommitted
    <3> QED
      BY <3>1, <3>2
  <2> QED
    BY <1>1, <2>1, <2>3, <2>4 DEF OneAttempt
<1> QED
  BY <1>6, <1>7, <1>8, <1>9, <1>10, <1>11, <1>12 DEF RestateInv

LEMMA JournalResultPreserves ==
  ASSUME RestateIInv, IInv', NEW i \in Invocations, JournalResult(i)
  PROVE  RestateInv'
<1>0. PICK w \in Clients : w = attempt[i]
  BY DEF JournalResult, RestateIInv, RestateInv, RestateTypeOK
<1> DEFINE entry == [result |-> answer[w], id |-> minted + 1]
<1>1. /\ RestateInv /\ IInv /\ attempt[i] = w /\ w # None /\ step[w] = "return" /\ Return(w)
      /\ minted' = minted + 1
      /\ journal' = [journal EXCEPT ![i] = entry]
      /\ running' = [running EXCEPT ![w] = None]
      /\ attempt' = [attempt EXCEPT ![i] = None]
      /\ UNCHANGED <<status, request, sent, workflows, lost, writes>>
  BY <1>0 DEF JournalResult, RestateIInv
<1>2. /\ running[w] = i /\ status[i] = "running" /\ journal[i] = None
      /\ command[w] = request[i]
  BY <1>1, InvocationAssumption DEF RestateInv, RestateTypeOK, InvocationOf, WorkerOf
<1>3. entry \in JournalEntry /\ Reached(answer[w], Target(w)) /\ entry # None
  BY <1>1, <1>2, InvocationAssumption DEF RestateInv, RestateTypeOK, WorkerOf, JournalEntry
<1>4. step'[w] = "idle" /\ log' = log /\ OthersAlone(w)
  BY <1>1, <1>2, EndFacts
<1>5. /\ journal'[i] = entry /\ attempt'[i] = None /\ running'[w] = None
      /\ \A j \in Invocations : j # i => journal'[j] = journal[j] /\ attempt'[j] = attempt[j]
      /\ \A d \in Clients : d # w => running'[d] = running[d]
  BY <1>1, <1>2 DEF RestateInv, RestateTypeOK
<1>6. RestateTypeOK'
  <2> HIDE DEF entry
  <2> QED
    BY <1>1, <1>3 DEF IInv, RestateInv, RestateTypeOK
<1>7. Grown
  BY <1>1, <1>4, SameIsGrown
<1>8. \A d \in Clients : d # w => SameWorker(d) /\ WorkerOf(d)'
  BY <1>1, <1>2, <1>4, <1>5, <1>7, OtherWorkers
<1>9. WorkerOf(w)'
  BY <1>4, <1>5 DEF WorkerOf
<1>10. sent[i] = {}
  BY <1>1, <1>2 DEF RestateInv, JournalOf
<1>11. ASSUME NEW j \in Invocations PROVE InvocationOf(j)' /\ JournalOf(j)'
  <2>1. CASE j = i
    <3>1. InvocationOf(i)'
      BY <1>1, <1>2, <1>3, <1>5 DEF RestateInv, InvocationOf
    <3>2. Reached(journal'[i].result, request'[i].agg)
      BY <1>1, <1>2, <1>3, <1>5 DEF Target
    <3>3. Reached(journal[i].result, request[i].agg)'
      BY <1>4, <3>2 DEF Reached
    <3>4. JournalOf(i)'
      BY <1>1, <1>2, <1>10, <3>3 DEF JournalOf
    <3> QED
      BY <2>1, <3>1, <3>4
  <2>2. CASE j # i
    <3>1. SameInvocation(j)
      BY <1>1, <1>5, <2>2 DEF SameInvocation
    <3>2. attempt[j] # None => attempt[j] \in Clients /\ running[attempt[j]] = j
      BY <1>1 DEF RestateInv, InvocationOf, RestateTypeOK
    <3>3. attempt[j] # None => running'[attempt[j]] = j
      BY <1>2, <1>5, <2>2, <3>2
    <3> QED
      BY <1>7, <3>1, <3>3, InvocationStays
  <2> QED
    BY <2>1, <2>2
<1>12. WorkflowInv'
  BY <1>1, <1>2, <1>5, WorkflowsStay
<1>13. KeysApart'
  BY <1>1, KeysStay
<1>14. lost' = 0 => OneAttempt'
  <2> SUFFICES ASSUME lost = 0 PROVE OneAttempt'
    BY <1>1
  <2>1. OneAttempt
    BY <1>1 DEF RestateInv
  <2>2. ASSUME NEW d \in Clients, running'[d] # None
        PROVE  /\ attempt'[running'[d]] = d
               /\ writes[running'[d]] # 0 => Committed(d)'
    <3>1. d # w /\ running'[d] = running[d] /\ running[d] # None
      BY <1>5, <2>2
    <3>2. running[d] \in Invocations /\ attempt[running[d]] = d
      BY <1>1, <2>1, <3>1 DEF OneAttempt, RestateInv, RestateTypeOK
    <3>3. attempt'[running'[d]] = d
      BY <1>1, <1>5, <3>1, <3>2
    <3> QED
      BY <1>8, <2>1, <3>1, <3>3, SameCommitted DEF OneAttempt
  <2>3. \A j \in Invocations : status[j] = "running" /\ attempt'[j] = None => journal'[j] # None
    BY <1>3, <1>5, <2>1 DEF OneAttempt
  <2> QED
    BY <1>1, <2>1, <2>2, <2>3 DEF OneAttempt
<1> QED
  BY <1>6, <1>8, <1>9, <1>11, <1>12, <1>13, <1>14 DEF RestateInv

\* A worker that leaves without having been listened to.
LEMMA LeavingPreserves ==
  ASSUME RestateIInv, IInv', NEW w \in Clients, Return(w) \/ Dropped(w),
         running' = [running EXCEPT ![w] = None],
         attempt' \in [Invocations -> Clients \cup {None}], lost' \in 0..MaxLost, lost' # 0,
         \A i \in Invocations : attempt'[i] # None => attempt'[i] = attempt[i] /\ attempt[i] # w,
         UNCHANGED <<status, request, journal, sent, workflows, minted, writes>>
  PROVE  RestateInv'
<1>1. RestateInv /\ IInv
  BY DEF RestateIInv
<1>2. step'[w] = "idle" /\ log' = log /\ OthersAlone(w)
  BY <1>1, EndFacts
<1>3. running'[w] = None /\ \A d \in Clients : d # w => running'[d] = running[d]
  BY <1>1 DEF RestateInv, RestateTypeOK
<1>4. RestateTypeOK'
  BY <1>1 DEF IInv, RestateInv, RestateTypeOK
<1>5. Grown
  BY <1>1, <1>2, SameIsGrown
<1>6. \A d \in Clients : d # w => WorkerOf(d)'
  BY <1>2, <1>3, <1>5, OtherWorkers
<1>7. WorkerOf(w)'
  BY <1>2, <1>3 DEF WorkerOf
<1>8. ASSUME NEW i \in Invocations PROVE InvocationOf(i)' /\ JournalOf(i)'
  <2>1. InvocationOf(i) /\ JournalOf(i) /\ attempt[i] \in Clients \cup {None}
    BY <1>1 DEF RestateInv, RestateTypeOK
  <2>2. attempt'[i] # None => running'[attempt'[i]] = i
    BY <1>3, <2>1 DEF InvocationOf
  <2>3. InvocationOf(i)'
    BY <2>1, <2>2 DEF InvocationOf
  <2>4. journal[i] # None => Reached(journal[i].result, request[i].agg)'
    BY <1>2, <2>1 DEF JournalOf, Reached
  <2>5. JournalOf(i)'
    BY <2>1, <2>4 DEF JournalOf, Matches
  <2> QED
    BY <2>3, <2>5
<1>9. WorkflowInv'
  BY <1>1, WorkflowsStay
<1>10. KeysApart'
  BY <1>1, KeysStay
<1> QED
  BY <1>4, <1>6, <1>7, <1>8, <1>9, <1>10 DEF RestateInv

\* Only after a loss is there a worker nobody listens to.
LEMMA AbandonPreserves ==
  ASSUME RestateIInv, IInv', NEW w \in Clients, Abandon(w)
  PROVE  RestateInv'
<1>1. /\ RestateInv /\ running[w] # None /\ attempt[running[w]] # w /\ Return(w)
      /\ running' = [running EXCEPT ![w] = None]
      /\ UNCHANGED <<status, request, attempt, journal, sent, workflows, minted, lost, writes>>
  BY DEF Abandon, invocationVars, RestateIInv
<1>2. lost # 0 /\ lost \in 0..MaxLost /\ attempt \in [Invocations -> Clients \cup {None}]
  BY <1>1 DEF RestateInv, OneAttempt, RestateTypeOK
<1>3. \A i \in Invocations : attempt[i] # None => attempt[i] # w
  BY <1>1 DEF RestateInv, InvocationOf
<1> QED
  BY <1>1, <1>2, <1>3, LeavingPreserves

LEMMA CrashedPreserves ==
  ASSUME RestateIInv, IInv', NEW w \in Clients, Crashed(w)
  PROVE  RestateInv'
<1>1. /\ Return(w) \/ Dropped(w)
      /\ attempt' = [i \in Invocations |-> IF attempt[i] = w THEN None ELSE attempt[i]]
      /\ running' = [running EXCEPT ![w] = None]
      /\ UNCHANGED <<status, request, journal, sent, workflows, minted, writes>>
  BY DEF Crashed
<1>2. lost' \in 0..MaxLost /\ lost' # 0
  BY Loss DEF Crashed, RestateIInv
<1>3. attempt' \in [Invocations -> Clients \cup {None}]
  BY <1>1 DEF RestateIInv, RestateInv, RestateTypeOK
<1>4. \A i \in Invocations : attempt'[i] # None => attempt'[i] = attempt[i] /\ attempt[i] # w
  BY <1>1
<1> QED
  BY <1>1, <1>2, <1>3, <1>4, LeavingPreserves

LEMMA RestateInitInv == RestateInit => RestateIInv
<1> SUFFICES ASSUME RestateInit PROVE RestateIInv
  OBVIOUS
<1>1. IInv /\ TypeOK
  BY InitIInv DEF RestateInit, IInv
<1>2. RestateTypeOK
  BY <1>1, LostAssumption DEF RestateInit, RestateTypeOK
<1>3. \A i \in Invocations : InvocationOf(i) /\ JournalOf(i)
  BY DEF RestateInit, InvocationOf, JournalOf
<1>4. \A w \in Clients : WorkerOf(w)
  BY DEF RestateInit, Init, WorkerOf
<1>5. WorkflowInv /\ KeysApart /\ OneAttempt
  BY DEF RestateInit, WorkflowInv, KeysApart, OneAttempt
<1> QED
  BY <1>1, <1>2, <1>3, <1>4, <1>5 DEF RestateIInv, RestateInv

LEMMA RestateNextInv == RestateIInv /\ [RestateNext]_restateVars => RestateIInv'
<1> SUFFICES ASSUME RestateIInv, [RestateNext]_restateVars PROVE RestateIInv'
  OBVIOUS
<1>1. IInv'
  BY StepOfServices, NextIInv DEF RestateIInv
<1>2. ASSUME NEW i \in Invocations, NEW cmd \in Command, Submit(i, cmd) PROVE RestateInv'
  BY <1>1, <1>2, SubmitPreserves
<1>3. ASSUME NEW i \in Invocations, Drive(i) PROVE RestateInv'
  BY <1>1, <1>3, StartPreserves, RetryPreserves, JournalResultPreserves, DispatchPreserves,
     AnswerClientPreserves DEF Drive
<1>4. ASSUME NEW i \in Invocations, Disconnected(i) PROVE RestateInv'
  BY <1>1, <1>4, DisconnectedPreserves
<1>5. ASSUME NEW w \in Clients, Work(w) PROVE RestateInv'
  BY <1>1, <1>5, ClosurePreserves, AbandonPreserves DEF Work
<1>6. ASSUME NEW w \in Clients, Crashed(w) PROVE RestateInv'
  BY <1>1, <1>6, CrashedPreserves
<1>7. CASE UNCHANGED restateVars
  <2>1. /\ UNCHANGED vars
        /\ UNCHANGED <<status, request, attempt, journal, sent, running, workflows>>
        /\ UNCHANGED <<minted, lost, writes>>
    BY <1>7 DEF restateVars, invocationVars
  <2>2. Grown /\ \A w \in Clients : SameWorker(w) /\ WorkerOf(w)'
    BY <2>1, IdleServices
  <2>3. RestateTypeOK'
    BY <1>1, <2>1 DEF IInv, RestateIInv, RestateInv, RestateTypeOK
  <2>4. ASSUME NEW i \in Invocations PROVE InvocationOf(i)' /\ JournalOf(i)'
    <3>1. SameInvocation(i) /\ (attempt[i] # None => running'[attempt[i]] = i)
      BY <2>1 DEF SameInvocation, RestateIInv, RestateInv, InvocationOf
    <3> QED
      BY <2>2, <3>1, InvocationStays
  <2>5. WorkflowInv' /\ KeysApart'
    BY <2>1, WorkflowsStay, KeysStay DEF RestateIInv
  <2>6. lost' = 0 => OneAttempt'
    BY <2>1, <2>2, SameCommitted DEF RestateIInv, RestateInv, OneAttempt
  <2> QED
    BY <1>1, <2>2, <2>3, <2>4, <2>5, <2>6 DEF RestateInv, RestateIInv
<1> QED
  BY <1>1, <1>2, <1>3, <1>4, <1>5, <1>6, <1>7 DEF RestateNext, RestateIInv

THEOREM RestateInvariance == RestateSpec => []RestateIInv
  BY RestateInitInv, RestateNextInv, PTL DEF RestateSpec

\* Whatever is retried, given up on or lost, the binding only ever does what
\* concurrent callers of the service could do, with callers that go away.
THEOREM BindingImplementsService == RestateSpec => Spec
<1>1. RestateInit => Init
  BY DEF RestateInit
<1>2. RestateIInv /\ [RestateNext]_restateVars => [Next]_vars
  BY StepOfServices DEF RestateIInv
<1> QED
  BY <1>1, <1>2, RestateInvariance, PTL DEF RestateSpec, Spec

\* So the handlers' business rule is kept under Restate's retries too.
THEOREM BusinessRuleUnderRestate == RestateSpec => []NeverBelowZero
  BY BindingImplementsService, BusinessRule, PTL

\* A command is applied at most once, unless a worker was lost.
THEOREM AppliedOnce == RestateSpec => []AppliedOnceUnlessLost
<1>1. RestateIInv => AppliedOnceUnlessLost
  <2> SUFFICES ASSUME RestateIInv, NEW i \in Invocations, writes[i] > 1 PROVE lost > 0
    BY DEF AppliedOnceUnlessLost
  <2>1. writes[i] \in Nat /\ lost \in 0..MaxLost
    BY DEF RestateIInv, RestateInv, RestateTypeOK
  <2>2. lost # 0
    BY <2>1 DEF RestateIInv, RestateInv, OneAttempt
  <2> QED
    BY <2>1, <2>2, LostAssumption
<1> QED
  BY <1>1, RestateInvariance, PTL

\* An invocation starts each effect at most once, under the journalled id, and
\* tells it a revision that the stream has reached.
THEOREM OneWorkflow == RestateSpec => []OneWorkflowPerEffect
<1>1. RestateIInv => OneWorkflowPerEffect
  <2> SUFFICES ASSUME RestateIInv PROVE OneWorkflowPerEffect
    OBVIOUS
  <2>1. RestateInv /\ RestateTypeOK
    BY DEF RestateIInv, RestateInv
  <2>2. ASSUME NEW x \in workflows
        PROVE  /\ x.inv \in Invocations /\ x = Started(x.effect, x.inv)
               /\ x.effect \in sent[x.inv]
    BY <2>1 DEF RestateInv, WorkflowInv
  <2>3. \A x, y \in workflows : x.inv = y.inv /\ x.effect = y.effect => x = y
    BY <2>2
  <2>4. ASSUME NEW x \in workflows PROVE x.rev <= RevisionOf(log[x.agg])
    <3> DEFINE i == x.inv
    <3>1. /\ i \in Invocations /\ journal[i] # None /\ Succeeded(journal[i].result)
          /\ Reached(journal[i].result, request[i].agg)
      BY <2>1, <2>2 DEF RestateInv, JournalOf
    <3>2. x.rev = journal[i].result.entity.rev /\ x.agg = request[i].agg
      BY <2>2 DEF Started, Workflow
    <3> QED
      BY <3>1, <3>2 DEF Reached
  <2> QED
    BY <2>1, <2>3, <2>4 DEF OneWorkflowPerEffect
<1> QED
  BY <1>1, RestateInvariance, PTL

\* An answered invocation has started exactly the effects its command calls for.
THEOREM EffectsMatch == RestateSpec => []EffectsMatchAnswer
<1>1. RestateIInv => EffectsMatchAnswer
  <2> SUFFICES ASSUME RestateIInv, NEW i \in Invocations, status[i] = "done"
               PROVE  {x.effect : x \in {x \in workflows : x.inv = i}} =
                        {e \in Effects : Succeeded(journal[i].result) /\ Matches(e, i)}
    BY DEF EffectsMatchAnswer
  <2>1. JournalOf(i) /\ WorkflowInv /\ sent[i] \subseteq Effects
    BY DEF RestateIInv, RestateInv, RestateTypeOK
  <2>2. ASSUME NEW x \in workflows, x.inv = i
        PROVE  x.effect \in Effects /\ Succeeded(journal[i].result) /\ Matches(x.effect, i)
    BY <2>1, <2>2 DEF WorkflowInv, JournalOf
  <2>3. ASSUME NEW e \in Effects, Succeeded(journal[i].result), Matches(e, i)
        PROVE  \E x \in workflows : x.inv = i /\ x.effect = e
    <3>1. Started(e, i) \in workflows
      BY <2>1, <2>3 DEF WorkflowInv, JournalOf
    <3>2. Started(e, i).inv = i /\ Started(e, i).effect = e
      BY DEF Started, Workflow
    <3> QED
      BY <3>1, <3>2
  <2> QED
    BY <2>2, <2>3
<1> QED
  BY <1>1, RestateInvariance, PTL

----------------------------------------------------------------------------
(* A handler that publishes once *)

\* Only a publish is counted, and only the end forgets it.
LEMMA PublishesCounted ==
  ASSUME IInv, NEW w \in Clients, PublishesOf(w), Proceed(w), step[w] # "return"
  PROVE  /\ \A d \in Clients : d # w => publishes'[d] = publishes[d]
         /\ PublishesOf(w)'
<1>1. ASSUME NEW n \in 0..MaxBatch, Publish(w, n)
      PROVE  /\ \A d \in Clients : d # w => publishes'[d] = publishes[d]
             /\ PublishesOf(w)'
  <2>1. /\ publishes' = [publishes EXCEPT ![w] = @ + 1] /\ publishes[w] \in Nat
        /\ publishes \in [Clients -> 0..MaxPublishes] /\ step' = [step EXCEPT ![w] = "publish"]
    BY <1>1, ExecuteAssumption DEF Publish, Goto, IInv, TypeOK
  <2>2. step'[w] = "publish" /\ publishes'[w] # 0
    BY <2>1 DEF IInv, TypeOK
  <2> QED
    BY <2>1, <2>2 DEF PublishesOf
<1>2. CASE ~ \E n \in 0..MaxBatch : Publish(w, n)
  <2>1. publishes' = publishes
    BY <1>2 DEF Proceed, LoadReturns, Loaded, Reject, Published, StoreFailed, HandlerEntity,
                HandlerReload, Reloaded, Return, StoreStep, Commit, AnswerOnly, handlerVars
  <2>2. step' = step \/ \E to \in {"handle", "reload", "return"} : Goto(w, to)
    BY <1>2 DEF Proceed, LoadReturns, Loaded, Reject, Published, StoreFailed, HandlerEntity,
                HandlerReload, Reloaded, Return, StoreStep, Commit, AnswerOnly, Finish
  <2>3. step'[w] = step[w] \/ step'[w] \in {"handle", "reload", "return"}
    BY <2>2 DEF Goto, IInv, TypeOK
  <2> QED
    BY <2>1, <2>3 DEF PublishesOf
<1> QED
  BY <1>1, <1>2

\* While no worker was lost, no two of them are at one stream.
LEMMA WorkersApart ==
  ASSUME RestateInv, lost = 0, NEW w \in Clients, NEW d \in Clients, w # d,
         step[w] # "idle", step[d] # "idle"
  PROVE  Target(w) # Target(d)
<1>1. ASSUME NEW v \in Clients, step[v] # "idle"
      PROVE  /\ running[v] \in Invocations /\ attempt[running[v]] = v
             /\ status[running[v]] = "running" /\ command[v] = request[running[v]]
  <2>1. running[v] \in Invocations /\ running[v] # None /\ command[v] = request[running[v]]
    BY <1>1 DEF RestateInv, RestateTypeOK, WorkerOf
  <2>2. attempt[running[v]] = v
    BY <2>1 DEF RestateInv, OneAttempt
  <2>3. status[running[v]] = "running"
    BY <2>1, <2>2, NoneAssumption DEF RestateInv, InvocationOf
  <2> QED
    BY <2>1, <2>2, <2>3
<1>2. running[w] # running[d]
  BY <1>1
<1> QED
  BY <1>1, <1>2 DEF RestateInv, KeysApart, Target

\* A batch that is stored is an answer.
LEMMA CommitReply ==
  ASSUME IInv, NEW w \in Clients, NEW n \in 1..MaxBatch,
         NEW revs \in [1..n -> Revisions], Commit(w, revs)
  PROVE  /\ reply'[w] # None /\ reply'[w].kind = "ok" /\ step[w] = "publish"
         /\ step' = step
<1> DEFINE batch == Batch(revs, call[w].expected)
<1>1. n \in Nat /\ revs \in Seq(Revisions) /\ Len(revs) = n /\ Len(revs) \in 1..Len(revs)
  BY MaxBatchAssumption
<1>2. /\ call[w] # None /\ call[w].op = "publish" /\ step' = step
      /\ reply' = [reply EXCEPT ![w] = Answer("ok", revs[Len(revs)], batch)]
  BY SameOperators DEF Commit, Store!Commit, Store!Pending
<1>3. step[w] = "publish" /\ call[w].expected \in Expected
  BY <1>2, PendingFacts, RequestType
<1>4. batch \in Seq(Event)
  BY <1>1, <1>3, BatchType
<1> HIDE DEF batch
<1>5. Answer("ok", revs[Len(revs)], batch) \in Reply
  BY <1>1, <1>4, AnswerType
<1>6. reply'[w] = Answer("ok", revs[Len(revs)], batch)
  BY <1>2, StoreType DEF IInv, TypeOK
<1> QED
  BY <1>2, <1>3, <1>5, <1>6, NoneAssumption DEF Answer

\* An answer: not a conflict, for the stream is where the handler saw it.
LEMMA AnswerUpToDate ==
  ASSUME IInv, NEW w \in Clients, UpToDate(w), AnswerOnly(w)
  PROVE  UpToDate(w)'
<1> DEFINE s == log[Target(w)]
<1>1. /\ call[w] # None /\ reply[w] = None /\ log' = log
      /\ UNCHANGED <<step, command, entity, publishes, answer>>
      /\ step[w] \in {"load", "publish", "reload"}
  BY AnswerOnlyFacts
<1>2. /\ call[w].agg = Target(w) /\ Target(w) \in Aggregates /\ ClientInv(w)
      /\ call[w].op = "load" => step[w] # "publish"
      /\ call[w].op = "publish" => step[w] = "publish"
  BY <1>1, PendingFacts DEF IInv
<1>3. Now(w)' = Now(w) /\ Now(w) = RevisionOf(s)
  BY <1>1 DEF Now, Target
<1>4. s \in Seq(Event) /\ <<>> \in Seq(Event) /\ RevisionOf(s) \in {Zero} \cup Revisions
  BY <1>2, StreamFacts, RevisionOfType
<1>5. ASSUME NEW kind \in {"ok", "loaded", "failed"}, NEW rev \in {Zero} \cup Revisions,
             NEW events \in Seq(Event), reply' = [reply EXCEPT ![w] = Answer(kind, rev, events)],
             kind = "loaded" => step[w] # "publish" /\ rev = Now(w)
      PROVE  UpToDate(w)'
  <2>1. Answer(kind, rev, events) \in Reply
    BY <1>5, AnswerType
  <2>2. reply'[w] = Answer(kind, rev, events) /\ reply'[w] # None
    BY <1>5, <2>1, StoreType, NoneAssumption DEF IInv, TypeOK
  <2>3. reply'[w].kind = kind /\ reply'[w].rev = rev
    BY <2>2 DEF Answer
  <2> QED
    BY <1>1, <1>3, <1>5, <2>2, <2>3 DEF UpToDate, Answered
<1>6. CASE Store!Conflict(w)
  <2>1. call[w].op = "publish" /\ call[w].expected # Now(w)
    BY <1>2, <1>3, <1>6, SameOperators DEF Store!Conflict, Store!Pending
  <2>2. call[w].expected = entity[w].rev
    BY <1>1, <1>2, <2>1 DEF ClientInv, CallOf
  <2> QED
    BY <1>1, <1>2, <2>1, <2>2 DEF UpToDate
<1>7. CASE Store!PublishNothing(w)
  <2>1. reply' = [reply EXCEPT ![w] = Answer("ok", RevisionOf(s), <<>>)]
    BY <1>2, <1>7, SameOperators DEF Store!PublishNothing
  <2> QED
    BY <1>4, <1>5, <2>1
<1>8. CASE Store!Load(w)
  <2>1. /\ reply' = [reply EXCEPT ![w] = Answer("loaded", RevisionOf(s), s)]
        /\ call[w].op = "load"
    BY <1>2, <1>8, SameOperators DEF Store!Load, Store!Pending
  <2> QED
    BY <1>2, <1>3, <1>4, <1>5, <2>1
<1>9. CASE Store!Fail(w)
  <2>1. reply' = [reply EXCEPT ![w] = Answer("failed", Zero, <<>>)]
    BY <1>9, SameData, SameOperators DEF Store!Fail
  <2> QED
    BY <1>4, <1>5, <2>1
<1> QED
  BY <1>6, <1>7, <1>8, <1>9 DEF AnswerOnly

LEMMA ClosureUpToDate ==
  ASSUME MaxPublishes <= 1, RestateIInv, ConflictInv, lost = 0, NEW w \in Clients,
         Proceed(w), step[w] # "return"
  PROVE  UpToDate(w)'
<1>1. IInv /\ UpToDate(w) /\ PublishesOf(w)
  BY DEF RestateIInv, ConflictInv
<1>2. ASSUME NEW kind, NEW result, Finish(w, kind, result), kind # "conflict", reply'[w] = None
      PROVE  UpToDate(w)'
  <2>1. step'[w] = "return" /\ answer'[w] = [kind |-> kind, entity |-> result]
    BY <1>1, <1>2 DEF Finish, Goto, IInv, TypeOK
  <2> QED
    BY <1>2, <2>1 DEF UpToDate, Answered
<1>3. CASE LoadReturns(w) \/ Reloaded(w)
  <2>1. /\ Store!Return(w)
        /\ \E kind \in {"loaded", "reloaded"} : Finish(w, kind, LoadedEntity(w))
    BY <1>3 DEF LoadReturns, Reloaded
  <2> QED
    BY <1>1, <1>2, <2>1, StoreReturns
<1>4. CASE Reject(w)
  BY <1>1, <1>2, <1>4, NoCall DEF Reject, storeVars
<1>5. CASE HandlerEntity(w)
  BY <1>1, <1>2, <1>5, NoCall DEF HandlerEntity, storeVars
<1>6. CASE StoreFailed(w)
  <2>1. PICK kind \in {"conflict", "failed"} : Answered(w, kind) /\ Finish(w, kind, None)
    BY <1>6 DEF StoreFailed
  <2>2. kind # "conflict"
    BY <1>1, <2>1 DEF UpToDate
  <2> QED
    BY <1>1, <1>2, <1>6, <2>1, <2>2, StoreReturns DEF StoreFailed
<1>7. CASE Loaded(w)
  <2>1. /\ step[w] = "load" /\ Answered(w, "loaded") /\ Store!Return(w) /\ Goto(w, "handle")
        /\ entity' = [entity EXCEPT ![w] = LoadedEntity(w)] /\ command' = command
    BY <1>7 DEF Loaded
  <2>2. step'[w] = "handle" /\ entity'[w].rev = reply[w].rev
    BY <1>1, <2>1 DEF Goto, IInv, TypeOK, LoadedEntity
  <2>3. Now(w)' = Now(w) /\ reply'[w] = None
    BY <1>1, <2>1, StoreReturns DEF Now, Target
  <2> QED
    BY <1>1, <2>1, <2>2, <2>3 DEF UpToDate, Answered
<1>8. ASSUME NEW n \in 0..MaxBatch, Publish(w, n) PROVE UpToDate(w)'
  <2>1. /\ step[w] = "handle" /\ publishes[w] < MaxPublishes /\ Goto(w, "publish")
        /\ log' = log /\ reply' = reply /\ UNCHANGED <<command, entity>>
    BY <1>8 DEF Publish, Store!Invoke
  <2>2. publishes[w] = 0
    BY <1>1, <2>1, ExecuteAssumption DEF IInv, TypeOK
  <2>3. entity[w].rev = Now(w)
    BY <1>1, <2>1, <2>2 DEF UpToDate
  <2>4. step'[w] = "publish" /\ Now(w)' = Now(w) /\ reply'[w] = None
    BY <1>1, <2>1, NoCall DEF Goto, IInv, TypeOK, Now, Target
  <2> QED
    BY <2>1, <2>3, <2>4 DEF UpToDate, Answered
<1>9. CASE Published(w)
  <2>1. /\ step[w] = "publish" /\ Store!Return(w) /\ Goto(w, "handle") /\ publishes' = publishes
    BY <1>9 DEF Published
  <2>2. step'[w] = "handle" /\ publishes'[w] # 0 /\ reply'[w] = None
    BY <1>1, <2>1, StoreReturns DEF Goto, IInv, TypeOK, PublishesOf
  <2> QED
    BY <2>2 DEF UpToDate, Answered
<1>10. CASE HandlerReload(w)
  <2>1. /\ step[w] = "handle" /\ Goto(w, "reload") /\ reply' = reply
    BY <1>10 DEF HandlerReload, CallLoader, Store!Invoke
  <2>2. step'[w] = "reload" /\ reply'[w] = None
    BY <1>1, <2>1, NoCall DEF Goto, IInv, TypeOK
  <2> QED
    BY <2>2 DEF UpToDate, Answered
<1>11. ASSUME NEW n \in 1..MaxBatch, NEW revs \in [1..n -> Revisions], Commit(w, revs)
       PROVE  UpToDate(w)'
  BY <1>1, <1>11, CommitReply DEF UpToDate, Answered
<1>12. CASE AnswerOnly(w)
  BY <1>1, <1>12, AnswerUpToDate
<1>13. ~Return(w)
  BY DEF Return
<1> QED
  BY <1>3, <1>4, <1>5, <1>6, <1>7, <1>8, <1>9, <1>10, <1>11, <1>12, <1>13 DEF Proceed, StoreStep


\* What a step of worker w does to a handler that publishes once.
LEMMA WorkerConflict ==
  ASSUME ConflictInv, NEW w \in Clients, OthersAlone(w), PublishesOf(w)',
         \A d \in Clients : d # w => publishes'[d] = publishes[d],
         lost' = 0 =>
           /\ lost = 0 /\ UpToDate(w)'
           /\ \A d \in Clients : d # w /\ step[d] # "idle" => Now(d)' = Now(d),
         \A d \in Clients : step[d] = "idle" => reply[d] = None,
         NoConflictUnlessLost'
  PROVE  ConflictInv'
<1>1. ASSUME NEW d \in Clients, d # w
      PROVE  /\ PublishesOf(d)'
             /\ lost' = 0 => UpToDate(d)'
  <2>1. PublishesOf(d)'
    BY <1>1 DEF ConflictInv, PublishesOf, OthersAlone
  <2>2. ASSUME lost' = 0 PROVE UpToDate(d)'
    <3>1. UpToDate(d) /\ (step[d] # "idle" => Now(d)' = Now(d))
      BY <1>1, <2>2 DEF ConflictInv
    <3>2. CASE step[d] = "idle"
      BY <1>1, <3>2 DEF UpToDate, OthersAlone, Answered
    <3>3. CASE step[d] # "idle"
      BY <1>1, <3>1, <3>3 DEF UpToDate, OthersAlone, Answered
    <3> QED
      BY <3>2, <3>3
  <2> QED
    BY <2>1, <2>2
<1> QED
  BY <1>1 DEF ConflictInv

\* Where no stream moves, and no journal.
LEMMA QuietConflict ==
  ASSUME RestateIInv, ConflictInv, NEW w \in Clients, OthersAlone(w), PublishesOf(w)',
         \A d \in Clients : d # w => publishes'[d] = publishes[d],
         log' = log, lost' = 0 => lost = 0 /\ UpToDate(w)', NoConflictUnlessLost'
  PROVE  ConflictInv'
<1>1. \A d \in Clients : d # w => Now(d)' = Now(d)
  BY DEF OthersAlone, Now, Target
<1>2. \A d \in Clients : step[d] = "idle" => reply[d] = None
  BY NoCall DEF RestateIInv
<1> QED
  BY <1>1, <1>2, WorkerConflict

LEMMA ClosureConflict ==
  ASSUME MaxPublishes <= 1, RestateIInv, IInv', ConflictInv, NEW w \in Clients, Closure(w)
  PROVE  ConflictInv'
<1>1. /\ IInv /\ RestateInv /\ Proceed(w) /\ step[w] # "return" /\ step[w] # "idle"
      /\ journal' = journal /\ lost' = lost
  BY DEF Closure, RestateIInv, RestateInv, WorkerOf, invocationVars
<1>2. TurnOf(w) /\ OthersAlone(w)
  BY <1>1, Turn DEF TurnOf
<1>3. PublishesOf(w)' /\ \A d \in Clients : d # w => publishes'[d] = publishes[d]
  BY <1>1, PublishesCounted DEF ConflictInv
<1>4. lost = 0 => UpToDate(w)'
  BY <1>1, ClosureUpToDate
<1>5. ASSUME lost = 0, NEW d \in Clients, d # w, step[d] # "idle" PROVE Now(d)' = Now(d)
  <2>1. Target(d) # Target(w) /\ Target(d) \in Aggregates /\ Target(d)' = Target(d)
    BY <1>1, <1>2, <1>5, WorkersApart, AtWork DEF OthersAlone, Target
  <2>2. log'[Target(d)] = log[Target(d)]
    BY <1>2, <2>1 DEF TurnOf
  <2> QED
    BY <2>1, <2>2 DEF Now
<1>6. \A d \in Clients : step[d] = "idle" => reply[d] = None
  BY <1>1, NoCall
<1>7. NoConflictUnlessLost'
  BY <1>1 DEF ConflictInv, NoConflictUnlessLost
<1> QED
  BY <1>1, <1>2, <1>3, <1>4, <1>5, <1>6, <1>7, WorkerConflict

LEMMA AttemptConflict ==
  ASSUME RestateIInv, ConflictInv, NEW i \in Invocations, NEW w \in Clients, Attempt(i, w),
         status[i] # "new"
  PROVE  ConflictInv'
<1>1. /\ IInv /\ Execute(w, request[i]) /\ request[i] \in Calls
      /\ journal' = journal /\ lost' = lost
  BY RequestFacts DEF Attempt, RestateIInv
<1>2. /\ step[w] = "idle" /\ step'[w] = "load" /\ log' = log /\ reply'[w] = None
      /\ OthersAlone(w)
  BY <1>1, ExecuteFacts
<1>3. publishes' = publishes
  BY <1>1 DEF Execute
<1>4. PublishesOf(w)' /\ UpToDate(w)'
  BY <1>2, <1>3 DEF ConflictInv, PublishesOf, UpToDate, Answered
<1>5. NoConflictUnlessLost'
  BY <1>1 DEF ConflictInv, NoConflictUnlessLost
<1> QED
  BY <1>1, <1>2, <1>3, <1>4, <1>5, QuietConflict

LEMMA EndConflict ==
  ASSUME RestateIInv, ConflictInv, NEW w \in Clients, Return(w) \/ Dropped(w),
         lost' = 0 => lost = 0, NoConflictUnlessLost'
  PROVE  ConflictInv'
<1>1. IInv /\ step'[w] = "idle" /\ log' = log /\ OthersAlone(w)
  BY EndFacts DEF RestateIInv
<1>2. publishes'[w] = 0 /\ \A d \in Clients : d # w => publishes'[d] = publishes[d]
  BY <1>1 DEF Return, Dropped, End, IInv, TypeOK
<1>3. reply'[w] = None
  <2>1. CASE Return(w)
    BY <1>1, <2>1, NoCall DEF Return, storeVars
  <2>2. CASE Dropped(w) /\ call[w] = None
    BY <1>1, <2>2 DEF Dropped, storeVars, IInv, ClientInv, CallOf
  <2>3. CASE Dropped(w) /\ call[w] # None
    BY <1>1, <2>3, StoreReturns DEF Dropped
  <2> QED
    BY <2>1, <2>2, <2>3
<1>4. PublishesOf(w)' /\ UpToDate(w)'
  BY <1>1, <1>2, <1>3 DEF PublishesOf, UpToDate, Answered
<1> QED
  BY <1>1, <1>2, <1>4, QuietConflict

LEMMA JournalResultConflict ==
  ASSUME RestateIInv, ConflictInv, NEW i \in Invocations, JournalResult(i)
  PROVE  ConflictInv'
<1>1. PICK w \in Clients : w = attempt[i]
  BY DEF JournalResult, RestateIInv, RestateInv, RestateTypeOK
<1>2. /\ step[w] = "return" /\ Return(w) /\ lost' = lost
      /\ journal' = [journal EXCEPT ![i] = [result |-> answer[w], id |-> minted + 1]]
  BY <1>1 DEF JournalResult
<1>3. journal'[i].result = answer[w] /\ \A j \in Invocations : j # i => journal'[j] = journal[j]
  BY <1>2 DEF RestateIInv, RestateInv, RestateTypeOK
<1>4. lost = 0 => answer[w].kind # "conflict"
  BY <1>2 DEF ConflictInv, UpToDate
<1>5. lost \in Nat
  BY LostAssumption DEF RestateIInv, RestateInv, RestateTypeOK
<1>6. NoConflictUnlessLost'
  BY <1>2, <1>3, <1>4, <1>5 DEF ConflictInv, NoConflictUnlessLost
<1> QED
  BY <1>2, <1>6, EndConflict

\* The services stand still.
LEMMA IdleConflict ==
  ASSUME ConflictInv, UNCHANGED vars, lost' = 0 => lost = 0, NoConflictUnlessLost'
  PROVE  ConflictInv'
<1>1. UNCHANGED <<log, reply, step, command, entity, publishes, answer>>
  BY DEF vars, storeVars, handlerVars
<1> QED
  BY <1>1 DEF ConflictInv, PublishesOf, UpToDate, Answered, Now, Target

LEMMA NextConflict ==
  ASSUME MaxPublishes <= 1, RestateIInv, ConflictInv, [RestateNext]_restateVars
  PROVE  ConflictInv'
<1>0. RestateInv /\ IInv /\ IInv' /\ RestateIInv'
  BY RestateNextInv DEF RestateIInv
<1>1. lost \in Nat /\ lost' \in Nat
  BY <1>0, LostAssumption DEF RestateIInv, RestateInv, RestateTypeOK
<1>2. ASSUME journal' = journal, lost' >= lost PROVE NoConflictUnlessLost' /\ (lost' = 0 => lost = 0)
  BY <1>1, <1>2 DEF ConflictInv, NoConflictUnlessLost
<1>3. ASSUME NEW i \in Invocations, NEW cmd \in Command, Submit(i, cmd) PROVE ConflictInv'
  BY <1>1, <1>2, <1>3, IdleConflict DEF Submit
<1>4. ASSUME NEW i \in Invocations, Drive(i) PROVE ConflictInv'
  <2>1. ASSUME NEW w \in Clients, Start(i, w) \/ Retry(i, w) PROVE ConflictInv'
    BY <2>1, AttemptConflict DEF Start, Retry
  <2>2. CASE JournalResult(i)
    BY <2>2, JournalResultConflict
  <2>3. ASSUME NEW e \in Effects, Dispatch(i, e) PROVE ConflictInv'
    BY <1>1, <1>2, <2>3, IdleConflict DEF Dispatch
  <2>4. CASE AnswerClient(i)
    BY <1>1, <1>2, <2>4, IdleConflict DEF AnswerClient
  <2> QED
    BY <1>4, <2>1, <2>2, <2>3, <2>4 DEF Drive
<1>5. ASSUME NEW i \in Invocations, Disconnected(i) PROVE ConflictInv'
  BY <1>1, <1>2, <1>5, IdleConflict DEF Disconnected, Lose
<1>6. ASSUME NEW w \in Clients, Closure(w) PROVE ConflictInv'
  BY <1>0, <1>6, ClosureConflict
<1>7. ASSUME NEW w \in Clients, Abandon(w) PROVE ConflictInv'
  BY <1>1, <1>2, <1>7, EndConflict DEF Abandon, invocationVars
<1>8. ASSUME NEW w \in Clients, Crashed(w) PROVE ConflictInv'
  BY <1>1, <1>2, <1>8, EndConflict DEF Crashed, Lose
<1>9. CASE UNCHANGED restateVars
  BY <1>1, <1>2, <1>9, IdleConflict DEF restateVars, invocationVars
<1> QED
  BY <1>3, <1>4, <1>5, <1>6, <1>7, <1>8, <1>9 DEF RestateNext, Work

LEMMA InitConflict == RestateInit => ConflictInv
<1> SUFFICES ASSUME RestateInit PROVE ConflictInv
  OBVIOUS
<1>1. /\ \A w \in Clients : step[w] = "idle" /\ publishes[w] = 0 /\ reply[w] = None
      /\ \A i \in Invocations : journal[i] = None
  BY SameData DEF RestateInit, Init, Store!Init
<1> QED
  BY <1>1 DEF ConflictInv, PublishesOf, UpToDate, Answered, NoConflictUnlessLost

\* Handlers that publish at most once meet a conflict only after a loss.
THEOREM NoConflict == MaxPublishes <= 1 => (RestateSpec => []NoConflictUnlessLost)
<1>1. RestateIInv /\ ConflictInv /\ MaxPublishes <= 1 /\ [RestateNext]_restateVars => ConflictInv'
  BY NextConflict
<1>2. ConflictInv => NoConflictUnlessLost
  BY DEF ConflictInv
<1> SUFFICES ASSUME MaxPublishes <= 1 PROVE RestateSpec => []NoConflictUnlessLost
  OBVIOUS
<1>3. RestateIInv /\ ConflictInv /\ [RestateNext]_restateVars => ConflictInv'
  BY <1>1
<1> QED
  BY <1>2, <1>3, InitConflict, RestateInvariance, PTL DEF RestateSpec

=============================================================================
