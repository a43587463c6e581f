---------------------------- MODULE EventStream ----------------------------
(***************************************************************************)
(* What the EventStore trait (crates/wee-events/src/store.rs) promises,    *)
(* whatever the backend: one append-only stream of events per aggregate,   *)
(* calls that take effect at one instant between invocation and return,    *)
(* and optimistic concurrency on the revision of the last event.           *)
(***************************************************************************)
EXTENDS EventModel

VARIABLES log,    \* log[a]: the events of aggregate a, oldest first
          call,   \* call[c]: the call c is executing, or None
          reply   \* reply[c]: its outcome once it has taken effect, or None

vars == <<log, call, reply>>

----------------------------------------------------------------------------

Init == /\ log = [a \in Aggregates |-> <<>>]
        /\ call = [c \in Clients |-> None]
        /\ reply = [c \in Clients |-> None]

Invoke(c, request) ==
  /\ call[c] = None
  /\ call' = [call EXCEPT ![c] = request]
  /\ UNCHANGED <<log, reply>>

Pending(c, op) == call[c] # None /\ call[c].op = op /\ reply[c] = None

\* Appends a whole batch, or nothing.
Commit(c, revs) ==
  /\ Pending(c, "publish")
  /\ call[c].n > 0
  /\ LET a == call[c].agg
         batch == Batch(revs, call[c].expected)
     IN /\ call[c].expected \in {None, RevisionOf(log[a])}
        /\ Len(revs) = call[c].n
        /\ Increasing(revs)
        /\ \A i \in 1..Len(revs) : revs[i] > RevisionOf(log[a])
        /\ log' = [log EXCEPT ![a] = @ \o batch]
        /\ reply' = [reply EXCEPT ![c] = Answer("ok", revs[Len(revs)], batch)]
  /\ UNCHANGED call

\* Refuses because the stream has moved; reports where it is now.
Conflict(c) ==
  /\ Pending(c, "publish")
  /\ call[c].n > 0
  /\ LET actual == RevisionOf(log[call[c].agg])
     IN /\ call[c].expected \notin {None, actual}
        /\ reply' = [reply EXCEPT ![c] = Answer("conflict", actual, <<>>)]
  /\ UNCHANGED <<log, call>>

\* Any other error: the stream is left alone.
Fail(c) ==
  /\ Pending(c, "publish") \/ Pending(c, "load")
  /\ reply' = [reply EXCEPT ![c] = Answer("failed", Zero, <<>>)]
  /\ UNCHANGED <<log, call>>

\* A publish of nothing tells the current revision, whatever was expected.
PublishNothing(c) ==
  /\ Pending(c, "publish")
  /\ call[c].n = 0
  /\ reply' = [reply EXCEPT ![c] =
                 Answer("ok", RevisionOf(log[call[c].agg]), <<>>)]
  /\ UNCHANGED <<log, call>>

Load(c) ==
  /\ Pending(c, "load")
  /\ LET s == log[call[c].agg]
     IN reply' = [reply EXCEPT ![c] = Answer("loaded", RevisionOf(s), s)]
  /\ UNCHANGED <<log, call>>

\* The answer reaches the caller, or the caller goes away.
Return(c) ==
  /\ call[c] # None
  /\ call' = [call EXCEPT ![c] = None]
  /\ reply' = [reply EXCEPT ![c] = None]
  /\ UNCHANGED log

Next ==
  \E c \in Clients :
    \/ \E request \in Request : Invoke(c, request)
    \/ \E n \in 1..MaxBatch : \E revs \in [1..n -> Revisions] : Commit(c, revs)
    \/ Conflict(c)
    \/ Fail(c)
    \/ PublishNothing(c)
    \/ Load(c)
    \/ Return(c)

Spec == Init /\ [][Next]_vars

----------------------------------------------------------------------------

TypeOK == /\ log \in [Aggregates -> Seq(Event)]
          /\ call \in [Clients -> Request \cup {None}]
          /\ reply \in [Clients -> Reply \cup {None}]

\* A stream's revisions strictly increase: `ORDER BY revision` and append
\* order agree, and the last event carries the largest revision.
StreamMonotonic == \A a \in Aggregates : Sorted(log[a])

\* A batch published under an expected revision directly follows the event
\* of that revision (or starts the stream, for zero): nothing slips between
\* what the publisher saw and what it wrote.
ExpectedRevisionHonoured == \A a \in Aggregates : Honoured(log[a])

\* Of all publishers that saw the same revision of an aggregate and published
\* against it, at most one is accepted, ever.
OneWinnerPerRevision ==
  \A a \in Aggregates : \A i, j \in 1..Len(log[a]) :
     i # j => log[a][i].after = None \/ log[a][i].after # log[a][j].after

=============================================================================
