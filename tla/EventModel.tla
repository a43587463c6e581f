----------------------------- MODULE EventModel -----------------------------
(***************************************************************************)
(* The data every event store of this repository works on: aggregates,     *)
(* revisions, recorded events, publish and load requests and the outcomes  *)
(* a caller sees (crates/wee-events/src/{id,event,aggregate,store,error}). *)
(*                                                                         *)
(* A revision is a ULID; only its order and equality matter, so it is a    *)
(* number, Revision::zero() being 0.  An event carries its revision and,   *)
(* as a history field no program reads, the expected revision its batch    *)
(* was published under (on the first event of the batch only).  Event      *)
(* ids, types, metadata and payloads are left out: no store looks at them. *)
(***************************************************************************)
EXTENDS Naturals, Sequences

CONSTANTS Clients,      \* callers: threads, tasks or processes
          Aggregates,   \* AggregateIds
          MaxUlid,      \* the largest ULID a generator can hand out
          MaxBatch,     \* bound on the events of one publish
          None          \* Option::None, and "no call", "no reply"

Zero == 0

Revisions == 1..MaxUlid

Expected == {None, Zero} \cup Revisions

Event == [rev : Revisions, after : Expected]

\* A publish with no events is a publish with n = 0.
PublishRequest == [op : {"publish"}, agg : Aggregates, expected : Expected,
                   n : 0..MaxBatch]

LoadRequest == [op : {"load"}, agg : Aggregates, expected : {None}, n : {0}]

Request == PublishRequest \cup LoadRequest

\* "ok" carries ChangeSet.revision and .events, "loaded" an Aggregate,
\* "conflict" the `actual` of Error::RevisionConflict.
Reply == [kind : {"ok", "loaded", "conflict", "failed"},
          rev : {Zero} \cup Revisions, events : Seq(Event)]

ASSUME MaxUlidAssumption == MaxUlid \in Nat
ASSUME MaxBatchAssumption == MaxBatch \in Nat
ASSUME NoneAssumption ==
  None \notin Nat /\ None \notin Clients /\ None \notin Request /\ None \notin Reply

----------------------------------------------------------------------------

\* Aggregate::revision: the last event's, or zero.
RevisionOf(s) == IF s = <<>> THEN Zero ELSE s[Len(s)].rev

Batch(revs, expected) ==
  [i \in 1..Len(revs) |-> [rev |-> revs[i],
                           after |-> IF i = 1 THEN expected ELSE None]]

Answer(kind, rev, events) == [kind |-> kind, rev |-> rev, events |-> events]

Increasing(revs) == \A i, j \in 1..Len(revs) : i < j => revs[i] < revs[j]

\* The revision a stream had just before its i-th event.
RevisionBefore(s, i) == IF i = 1 THEN Zero ELSE s[i - 1].rev

Sorted(s) == \A i, j \in 1..Len(s) : i < j => s[i].rev < s[j].rev

Honoured(s) ==
  \A i \in 1..Len(s) : s[i].after # None => s[i].after = RevisionBefore(s, i)

=============================================================================
