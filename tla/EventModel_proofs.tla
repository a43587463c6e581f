------------------------- MODULE EventModel_proofs -------------------------
(***************************************************************************)
(* What appending a batch does to a stream: the lemmas the proofs about    *)
(* the stores share.                                                       *)
(***************************************************************************)
EXTENDS EventModel, TLAPS

\* Every answer the steps build is a reply of the declared type.
LEMMA AnswerType ==
  ASSUME NEW kind \in {"ok", "loaded", "conflict", "failed"},
         NEW rev \in {Zero} \cup Revisions, NEW events \in Seq(Event)
  PROVE  Answer(kind, rev, events) \in Reply
  BY DEF Answer, Reply

\* A request the caller made is a publish or a load request.
LEMMA RequestType ==
  ASSUME NEW r \in Request
  PROVE  /\ r.agg \in Aggregates
         /\ r.expected \in Expected
         /\ r.n \in 0..MaxBatch
         /\ r # None
<1>1. r \in PublishRequest \/ r \in LoadRequest
  BY DEF Request
<1>2. CASE r \in PublishRequest
  BY <1>2, NoneAssumption DEF PublishRequest, Request
<1>3. CASE r \in LoadRequest
  <2>1. r.agg \in Aggregates /\ r.expected = None /\ r.n = 0
    BY <1>3 DEF LoadRequest
  <2> QED
    BY <2>1, NoneAssumption, MaxBatchAssumption DEF Expected, Request
<1> QED
  BY <1>1, <1>2, <1>3

\* The events of a stream have revisions above zero.
LEMMA EventAt ==
  ASSUME NEW s \in Seq(Event), NEW i \in 1..Len(s)
  PROVE  /\ s[i] \in Event
         /\ s[i].rev \in Revisions
         /\ s[i].rev \in Nat
         /\ s[i].rev > 0
<1>1. s[i] \in Event
  OBVIOUS
<1>2. s[i].rev \in Revisions
  BY <1>1 DEF Event
<1> QED
  BY <1>1, <1>2, MaxUlidAssumption DEF Revisions

\* The current revision of a stream of events is a revision or zero (Aggregate::revision).
LEMMA RevisionOfType ==
  ASSUME NEW s \in Seq(Event)
  PROVE  /\ RevisionOf(s) \in {Zero} \cup Revisions
         /\ s # <<>> => Len(s) \in 1..Len(s) /\ RevisionOf(s) = s[Len(s)].rev
<1>1. CASE s = <<>>
  BY <1>1 DEF RevisionOf
<1>2. CASE s # <<>>
  <2>1. Len(s) \in 1..Len(s)
    BY <1>2
  <2> QED
    BY <1>2, <2>1, EventAt DEF RevisionOf
<1> QED
  BY <1>1, <1>2

\* A batch is a sequence of events, one per revision; only the first says
\* what was expected.
LEMMA BatchType ==
  ASSUME NEW revs \in Seq(Revisions), NEW e \in Expected
  PROVE  /\ Batch(revs, e) \in Seq(Event)
         /\ Len(Batch(revs, e)) = Len(revs)
         /\ \A i \in 1..Len(revs) : Batch(revs, e)[i].rev = revs[i]
         /\ \A i \in 1..Len(revs) : i # 1 => Batch(revs, e)[i].after = None
         /\ Len(revs) > 0 => Batch(revs, e)[1].after = e
<1> DEFINE ev(i) == [rev |-> revs[i], after |-> IF i = 1 THEN e ELSE None]
<1>1. \A i \in 1..Len(revs) : ev(i) \in Event
  BY DEF Event, Expected
<1>2. Batch(revs, e) = [i \in 1..Len(revs) |-> ev(i)]
  BY DEF Batch
<1>3. Batch(revs, e) \in Seq(Event) /\ Len(Batch(revs, e)) = Len(revs)
  BY <1>1, <1>2
<1>4. \A i \in 1..Len(revs) : Batch(revs, e)[i] = ev(i)
  BY <1>2
<1>5. \A i \in 1..Len(revs) :
         /\ ev(i).rev = revs[i]
         /\ i # 1 => ev(i).after = None
         /\ i = 1 => ev(i).after = e
  <2> TAKE i \in 1..Len(revs)
  <2>1. ev(i).rev = revs[i]
    OBVIOUS
  <2>2. ASSUME i # 1 PROVE ev(i).after = None
    BY <2>2, Zenon
  <2>3. ASSUME i = 1 PROVE ev(i).after = e
    BY <2>3, Zenon
  <2> QED
    BY <2>1, <2>2, <2>3
<1> HIDE DEF ev
<1> QED
  BY <1>3, <1>4, <1>5

\* Appending to s keeps the events of s where they are and puts the batch after them.
LEMMA AppendBatch ==
  ASSUME NEW s \in Seq(Event), NEW revs \in Seq(Revisions), NEW e \in Expected
  PROVE  LET t == s \o Batch(revs, e)
         IN /\ t \in Seq(Event)
            /\ Len(t) = Len(s) + Len(revs)
            /\ \A i \in 1..Len(s) : t[i] = s[i]
            /\ \A i \in (Len(s) + 1)..Len(t) :
                 /\ i - Len(s) \in 1..Len(revs)
                 /\ t[i].rev = revs[i - Len(s)]
                 /\ i # Len(s) + 1 => t[i].after = None
                 /\ i = Len(s) + 1 => t[i].after = e
<1> DEFINE b == Batch(revs, e)
           t == s \o b
<1>1. /\ b \in Seq(Event)
      /\ Len(b) = Len(revs)
      /\ \A i \in 1..Len(revs) : b[i].rev = revs[i]
      /\ \A i \in 1..Len(revs) : i # 1 => b[i].after = None
      /\ Len(revs) > 0 => b[1].after = e
  BY BatchType
<1> HIDE DEF b
<1>2. t \in Seq(Event) /\ Len(t) = Len(s) + Len(b)
  BY <1>1
<1>3. \A i \in 1..Len(s) : t[i] = s[i]
  BY <1>1
<1>4. \A i \in (Len(s) + 1)..Len(t) : i - Len(s) \in 1..Len(b) /\ t[i] = b[i - Len(s)]
  BY <1>1
<1> HIDE DEF t
<1>5. ASSUME NEW i \in (Len(s) + 1)..Len(t)
      PROVE  /\ i - Len(s) \in 1..Len(revs)
             /\ t[i].rev = revs[i - Len(s)]
             /\ i # Len(s) + 1 => t[i].after = None
             /\ i = Len(s) + 1 => t[i].after = e
  <2>1. i - Len(s) \in 1..Len(revs) /\ t[i] = b[i - Len(s)]
    BY <1>1, <1>4
  <2>2. i # Len(s) + 1 => t[i].after = None
    BY <1>1, <2>1
  <2>3. i = Len(s) + 1 => t[i].after = e
    BY <1>1, <2>1
  <2> QED
    BY <1>1, <2>1, <2>2, <2>3
<1> QED
  BY <1>1, <1>2, <1>3, <1>5 DEF t, b

\* After a non-empty batch the current revision is the batch's last.
LEMMA AppendRevision ==
  ASSUME NEW s \in Seq(Event), NEW revs \in Seq(Revisions), NEW e \in Expected,
         Len(revs) > 0
  PROVE  RevisionOf(s \o Batch(revs, e)) = revs[Len(revs)]
<1> DEFINE t == s \o Batch(revs, e)
<1>1. /\ t \in Seq(Event)
      /\ Len(t) = Len(s) + Len(revs)
      /\ \A i \in (Len(s) + 1)..Len(t) : t[i].rev = revs[i - Len(s)]
  BY AppendBatch
<1> HIDE DEF t
<1>2. t # <<>> /\ t[Len(s) + Len(revs)].rev = revs[Len(revs)]
  BY <1>1
<1>3. RevisionOf(t) = revs[Len(revs)]
  BY <1>1, <1>2 DEF RevisionOf
<1> QED
  BY <1>3 DEF t

\* In a sorted stream no revision is above the last.
LEMMA SortedLast ==
  ASSUME NEW s \in Seq(Event), Sorted(s), NEW i \in 1..Len(s)
  PROVE  s[i].rev <= RevisionOf(s)
<1>1. s # <<>> /\ Len(s) \in 1..Len(s)
  OBVIOUS
<1>2. \A j \in 1..Len(s) : s[j].rev \in Nat
  BY EventAt
<1>3. i = Len(s) \/ s[i].rev < s[Len(s)].rev
  BY <1>1 DEF Sorted
<1> QED
  BY <1>1, <1>2, <1>3 DEF RevisionOf

\* Increasing revisions above the current one keep a stream sorted.
LEMMA AppendSorted ==
  ASSUME NEW s \in Seq(Event), NEW revs \in Seq(Revisions), NEW e \in Expected,
         Sorted(s), Increasing(revs),
         \A i \in 1..Len(revs) : revs[i] > RevisionOf(s)
  PROVE  Sorted(s \o Batch(revs, e))
<1> DEFINE t == s \o Batch(revs, e)
<1>1. /\ Len(t) = Len(s) + Len(revs)
      /\ \A i \in 1..Len(s) : t[i] = s[i]
      /\ \A i \in (Len(s) + 1)..Len(t) :
           i - Len(s) \in 1..Len(revs) /\ t[i].rev = revs[i - Len(s)]
  BY AppendBatch
<1> HIDE DEF t
<1> SUFFICES ASSUME NEW i \in 1..Len(t), NEW j \in 1..Len(t), i < j
             PROVE  t[i].rev < t[j].rev
  BY DEF Sorted, t
<1>2. \A k \in 1..Len(s) : s[k].rev \in Nat
  BY EventAt
<1>3. \A k \in 1..Len(revs) : revs[k] \in Nat
  <2>1. \A k \in 1..Len(revs) : revs[k] \in Revisions
    OBVIOUS
  <2> QED
    BY <2>1, MaxUlidAssumption DEF Revisions
<1>4. RevisionOf(s) \in Nat
  BY RevisionOfType, MaxUlidAssumption DEF Zero, Revisions
<1>5. CASE j <= Len(s)
  <2>1. i \in 1..Len(s) /\ j \in 1..Len(s)
    BY <1>5
  <2>2. t[i] = s[i] /\ t[j] = s[j]
    BY <1>1, <2>1
  <2> QED
    BY <2>1, <2>2 DEF Sorted
<1>6. CASE i <= Len(s) /\ j > Len(s)
  <2>1. s[i].rev <= RevisionOf(s)
    BY <1>6, SortedLast
  <2>2. j - Len(s) \in 1..Len(revs) /\ t[j].rev = revs[j - Len(s)]
    BY <1>1, <1>6
  <2> QED
    BY <1>1, <1>2, <1>3, <1>4, <1>6, <2>1, <2>2
<1>7. CASE i > Len(s)
  <2>1. /\ i - Len(s) \in 1..Len(revs) /\ t[i].rev = revs[i - Len(s)]
        /\ j - Len(s) \in 1..Len(revs) /\ t[j].rev = revs[j - Len(s)]
    BY <1>1, <1>7
  <2> QED
    BY <1>7, <2>1 DEF Increasing
<1> QED
  BY <1>1, <1>5, <1>6, <1>7

\* A batch appended under no expectation, or under the revision the stream
\* really has, leaves every expectation of the stream honoured.
LEMMA AppendHonoured ==
  ASSUME NEW s \in Seq(Event), NEW revs \in Seq(Revisions), NEW e \in Expected,
         Honoured(s), e \in {None, RevisionOf(s)}
  PROVE  Honoured(s \o Batch(revs, e))
<1> DEFINE t == s \o Batch(revs, e)
<1>1. /\ Len(t) = Len(s) + Len(revs)
      /\ \A i \in 1..Len(s) : t[i] = s[i]
      /\ \A i \in (Len(s) + 1)..Len(t) :
           /\ i # Len(s) + 1 => t[i].after = None
           /\ i = Len(s) + 1 => t[i].after = e
  BY AppendBatch
<1> HIDE DEF t
<1> SUFFICES ASSUME NEW i \in 1..Len(t), t[i].after # None
             PROVE  t[i].after = RevisionBefore(t, i)
  BY DEF Honoured, t
<1>2. CASE i <= Len(s)
  <2>1. t[i] = s[i] /\ (i # 1 => t[i - 1] = s[i - 1])
    BY <1>1, <1>2
  <2> QED
    BY <1>2, <2>1 DEF Honoured, RevisionBefore
<1>3. CASE i > Len(s)
  <2>1. i = Len(s) + 1 /\ t[i].after = e
    BY <1>1, <1>3
  <2>2. CASE s = <<>>
    BY <2>1, <2>2 DEF RevisionBefore, RevisionOf
  <2>3. CASE s # <<>>
    <3>1. Len(s) \in 1..Len(s) /\ t[i - 1] = s[Len(s)] /\ i # 1
      BY <1>1, <2>1, <2>3
    <3> QED
      BY <2>1, <2>3, <3>1 DEF RevisionBefore, RevisionOf
  <2> QED
    BY <2>2, <2>3
<1> QED
  BY <1>1, <1>2, <1>3

\* Two batches of a sorted stream that honours its expectations were not
\* published under the same revision.
LEMMA HonouredOnce ==
  ASSUME NEW s \in Seq(Event), Sorted(s), Honoured(s),
         NEW i \in 1..Len(s), NEW j \in 1..Len(s), i # j, s[i].after # None
  PROVE  s[i].after # s[j].after
<1>1. \A k \in 1..Len(s) : s[k].rev \in Nat /\ s[k].rev > 0
  BY EventAt
<1>2. \A k, l \in 1..Len(s) : k < l => RevisionBefore(s, k) < RevisionBefore(s, l)
  <2> SUFFICES ASSUME NEW k \in 1..Len(s), NEW l \in 1..Len(s), k < l
               PROVE  RevisionBefore(s, k) < RevisionBefore(s, l)
    OBVIOUS
  <2>1. l # 1 /\ l - 1 \in 1..Len(s)
    OBVIOUS
  <2>2. CASE k = 1
    BY <1>1, <2>1, <2>2 DEF RevisionBefore, Zero
  <2>3. CASE k # 1
    BY <1>1, <2>1, <2>3 DEF RevisionBefore, Sorted
  <2> QED
    BY <2>2, <2>3
<1>3. \A k \in 1..Len(s) : RevisionBefore(s, k) \in Nat
  BY <1>1 DEF RevisionBefore, Zero
<1>4. RevisionBefore(s, i) # RevisionBefore(s, j)
  BY <1>2, <1>3
<1> QED
  BY <1>4 DEF Honoured

=============================================================================
