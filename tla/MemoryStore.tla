---------------------------- MODULE MemoryStore ----------------------------
(***************************************************************************)
(* The in-memory event store, crates/wee-events/src/memory_store.rs.       *)
(*                                                                         *)
(* Every clone of the store shares one DashMap from aggregate to stream;   *)
(* a stream is an Arc<RwLock<Vec>>.  A call runs on the calling thread in  *)
(* steps that other threads interleave with: the DashMap lookup, the       *)
(* insertion of an empty stream, taking the stream's write guard, checking *)
(* the expected revision, minting, appending, and dropping the guard.      *)
(* Each step below is one such step; the guard or shard lock it runs under *)
(* makes it atomic in the program.                                         *)
(***************************************************************************)
EXTENDS EventModel

CONSTANT MaxCalls   \* bound on the calls made by all threads together

ASSUME MaxCallsAssumption == MaxCalls \in Nat

VARIABLES present,   \* the keys of the DashMap
          stream,    \* the Vec behind each key (<<>> where there is no key)
          writer,    \* the thread holding a stream's write guard, or None
          gen,       \* the last ULID the shared generator handed out
          pc,        \* where each thread is
          call,      \* its arguments
          minted,    \* the revisions it has minted
          reply,     \* what it is about to return
          todo,      \* entries its enumerate_aggregates() has still to visit
          listed,    \* entries it has found
          committed, \* history: aggregates with events when it was called
          calls      \* number of calls made so far

storeVars == <<present, stream, writer, gen>>
scanVars == <<todo, listed, committed>>
vars == <<storeVars, pc, call, minted, reply, scanVars, calls>>

Agg(t) == call[t].agg

\* The revisions a caller can have got hold of: read from some aggregate.
KnownRevisions ==
  {Zero} \cup UNION {{stream[a][i].rev : i \in 1..Len(stream[a])} : a \in Aggregates}

----------------------------------------------------------------------------

Init ==
  /\ present = {}
  /\ stream = [a \in Aggregates |-> <<>>]
  /\ writer = [a \in Aggregates |-> None]
  /\ gen = 0
  /\ pc = [t \in Clients |-> "idle"]
  /\ call = [t \in Clients |-> None]
  /\ minted = [t \in Clients |-> <<>>]
  /\ reply = [t \in Clients |-> None]
  /\ todo = [t \in Clients |-> {}]
  /\ listed = [t \in Clients |-> {}]
  /\ committed = [t \in Clients |-> {}]
  /\ calls = 0

Begin(t, step) ==
  /\ pc[t] = "idle"
  /\ calls < MaxCalls
  /\ calls' = calls + 1
  /\ pc' = [pc EXCEPT ![t] = step]

\* EventStore::publish: an empty batch takes the fast path.
Publish(t, a, expected, n) ==
  /\ Begin(t, IF n = 0 THEN "get" ELSE "resolve")
  /\ call' = [call EXCEPT ![t] =
       [op |-> "publish", agg |-> a, expected |-> expected, n |-> n]]
  /\ UNCHANGED <<storeVars, minted, reply, scanVars>>

\* EventStore::load.
Load(t, a) ==
  /\ Begin(t, "get")
  /\ call' = [call EXCEPT ![t] =
       [op |-> "load", agg |-> a, expected |-> None, n |-> 0]]
  /\ UNCHANGED <<storeVars, minted, reply, scanVars>>

Finish(t, answer) ==
  /\ reply' = [reply EXCEPT ![t] = answer]
  /\ pc' = [pc EXCEPT ![t] = "return"]

Goto(t, step) == pc' = [pc EXCEPT ![t] = step] /\ UNCHANGED reply

\* Mutant of Resolve: a missing aggregate conflicts with every expectation, zero
\* included.
ResolveStrict(t) ==
  /\ pc[t] = "resolve"
  /\ \/ Agg(t) \in present /\ Goto(t, "lock")
     \/ /\ Agg(t) \notin present
        /\ call[t].expected # None
        /\ Finish(t, Answer("conflict", Zero, <<>>))
     \/ /\ Agg(t) \notin present
        /\ call[t].expected = None
        /\ Goto(t, "insert")
  /\ UNCHANGED <<storeVars, call, minted, scanVars, calls>>

\* publish_sync looks the aggregate up.  A missing one with a non-zero
\* expected revision conflicts before anything is inserted.
Resolve(t) ==
  /\ pc[t] = "resolve"
  /\ \/ Agg(t) \in present /\ Goto(t, "lock")
     \/ /\ Agg(t) \notin present
        /\ call[t].expected \notin {None, Zero}
        /\ Finish(t, Answer("conflict", Zero, <<>>))
     \/ /\ Agg(t) \notin present
        /\ call[t].expected \in {None, Zero}
        /\ Goto(t, "insert")
  /\ UNCHANGED <<storeVars, call, minted, scanVars, calls>>

\* stream_for: the entry may have been inserted by another thread meanwhile.
StreamFor(t) ==
  /\ pc[t] = "insert"
  /\ present' = present \cup {Agg(t)}
  /\ Goto(t, "lock")
  /\ UNCHANGED <<stream, writer, gen, call, minted, scanVars, calls>>

\* Mutant of LockStream: a shared guard instead of an exclusive one.
LockStreamShared(t) ==
  /\ pc[t] = "lock"
  /\ writer' = [writer EXCEPT ![Agg(t)] = t]
  /\ Goto(t, "check")
  /\ UNCHANGED <<present, stream, gen, call, minted, scanVars, calls>>

\* stream.write()
LockStream(t) ==
  /\ pc[t] = "lock"
  /\ writer[Agg(t)] = None
  /\ writer' = [writer EXCEPT ![Agg(t)] = t]
  /\ Goto(t, "check")
  /\ UNCHANGED <<present, stream, gen, call, minted, scanVars, calls>>

\* Mutant of CheckRevision: no second comparison under the guard.
CheckRevisionSkipped(t) ==
  /\ pc[t] = "check"
  /\ Goto(t, "mint")
  /\ UNCHANGED <<storeVars, call, minted, scanVars, calls>>

\* The expected revision is compared again, now under the write guard.
CheckRevision(t) ==
  /\ pc[t] = "check"
  /\ LET actual == RevisionOf(stream[Agg(t)])
     IN IF call[t].expected \in {None, actual}
          THEN Goto(t, "mint")
          ELSE Finish(t, Answer("conflict", actual, <<>>))
  /\ UNCHANGED <<storeVars, call, minted, scanVars, calls>>

\* mint_event_ids: an event id and a revision per event, in one acquisition
\* of the generator lock.  generate() fails once the generator overflows,
\* and what it handed out before is used up.
MintEventIds(t) ==
  /\ pc[t] = "mint"
  /\ IF gen + 2 * call[t].n <= MaxUlid
       THEN /\ minted' = [minted EXCEPT ![t] =
                            [i \in 1..call[t].n |-> gen + 2 * i]]
            /\ gen' = gen + 2 * call[t].n
            /\ Goto(t, "append")
       ELSE /\ gen' = MaxUlid
            /\ Finish(t, Answer("failed", Zero, <<>>))
            /\ UNCHANGED minted
  /\ UNCHANGED <<present, stream, writer, call, scanVars, calls>>

\* Mutant of AppendEvents: the change set tells the batch's first revision.
AppendEventsFirst(t) ==
  /\ pc[t] = "append"
  /\ LET batch == Batch(minted[t], call[t].expected)
     IN /\ stream' = [stream EXCEPT ![Agg(t)] = @ \o batch]
        /\ Finish(t, Answer("ok", minted[t][1], batch))
  /\ UNCHANGED <<present, writer, gen, call, minted, scanVars, calls>>

\* events_guard.extend
AppendEvents(t) ==
  /\ pc[t] = "append"
  /\ LET batch == Batch(minted[t], call[t].expected)
     IN /\ stream' = [stream EXCEPT ![Agg(t)] = @ \o batch]
        /\ Finish(t, Answer("ok", minted[t][Len(minted[t])], batch))
  /\ UNCHANGED <<present, writer, gen, call, minted, scanVars, calls>>

\* Mutant of Return: the guard outlives a conflict.
ReturnHolding(t) ==
  /\ pc[t] = "return"
  /\ writer' = [writer EXCEPT ![Agg(t)] =
                  IF @ = t /\ reply[t].kind # "conflict" THEN None ELSE @]
  /\ pc' = [pc EXCEPT ![t] = "idle"]
  /\ call' = [call EXCEPT ![t] = None]
  /\ minted' = [minted EXCEPT ![t] = <<>>]
  /\ reply' = [reply EXCEPT ![t] = None]
  /\ UNCHANGED <<present, stream, gen, scanVars, calls>>

\* The function returns; a write guard it holds is dropped.
Return(t) ==
  /\ pc[t] = "return"
  /\ writer' = [writer EXCEPT ![Agg(t)] = IF @ = t THEN None ELSE @]
  /\ pc' = [pc EXCEPT ![t] = "idle"]
  /\ call' = [call EXCEPT ![t] = None]
  /\ minted' = [minted EXCEPT ![t] = <<>>]
  /\ reply' = [reply EXCEPT ![t] = None]
  /\ UNCHANGED <<present, stream, gen, scanVars, calls>>

\* What load_sync and current_revision_sync make of the events they see.
View(t, s) == IF call[t].op = "load" THEN Answer("loaded", RevisionOf(s), s)
                                     ELSE Answer("ok", RevisionOf(s), <<>>)

\* load_sync, current_revision_sync: clone the Arc under the shard lock ...
Get(t) ==
  /\ pc[t] = "get"
  /\ IF Agg(t) \in present THEN Goto(t, "read") ELSE Finish(t, View(t, <<>>))
  /\ UNCHANGED <<storeVars, call, minted, scanVars, calls>>

\* ... then read under the stream's read guard, which excludes a writer.
Read(t) ==
  /\ pc[t] = "read"
  /\ writer[Agg(t)] = None
  /\ Finish(t, View(t, stream[Agg(t)]))
  /\ UNCHANGED <<storeVars, call, minted, scanVars, calls>>

\* enumerate_aggregates and enumerate_aggregates_by_type: `wanted` is what the
\* filter lets through.  The DashMap is walked shard by shard, not frozen.
Enumerate(t, wanted) ==
  /\ Begin(t, "scan")
  /\ todo' = [todo EXCEPT ![t] = wanted]
  /\ committed' = [committed EXCEPT ![t] = {a \in wanted : stream[a] # <<>>}]
  /\ UNCHANGED <<storeVars, call, minted, reply, listed>>

\* Mutant of Visit: an entry that is being written is passed over.
VisitUnlocked(t, a) ==
  /\ pc[t] = "scan"
  /\ a \in todo[t]
  /\ todo' = [todo EXCEPT ![t] = @ \ {a}]
  /\ listed' = [listed EXCEPT ![t] =
                  @ \cup {b \in {a} \cap present : writer[b] = None}]
  /\ UNCHANGED <<storeVars, pc, call, minted, reply, committed, calls>>

Visit(t, a) ==
  /\ pc[t] = "scan"
  /\ a \in todo[t]
  /\ todo' = [todo EXCEPT ![t] = @ \ {a}]
  /\ listed' = [listed EXCEPT ![t] = @ \cup ({a} \cap present)]
  /\ UNCHANGED <<storeVars, pc, call, minted, reply, committed, calls>>

EnumerateReturn(t) ==
  /\ pc[t] = "scan"
  /\ todo[t] = {}
  /\ pc' = [pc EXCEPT ![t] = "idle"]
  /\ listed' = [listed EXCEPT ![t] = {}]
  /\ committed' = [committed EXCEPT ![t] = {}]
  /\ UNCHANGED <<storeVars, call, minted, reply, todo, calls>>

Proceed(t) ==
  \/ Resolve(t)
  \/ StreamFor(t)
  \/ LockStream(t)
  \/ CheckRevision(t)
  \/ MintEventIds(t)
  \/ AppendEvents(t)
  \/ Return(t)
  \/ Get(t)
  \/ Read(t)
  \/ \E a \in Aggregates : Visit(t, a)
  \/ EnumerateReturn(t)

Next ==
  \E t \in Clients :
    \/ \E a \in Aggregates, e \in KnownRevisions \cup {None}, n \in 0..MaxBatch :
         Publish(t, a, e, n)
    \/ \E a \in Aggregates : Load(t, a)
    \/ \E wanted \in SUBSET Aggregates : Enumerate(t, wanted)
    \/ Proceed(t)

\* A runnable thread is scheduled; the locks need no more, because the number
\* of competing calls is bounded.
Fairness == \A t \in Clients : WF_vars(Proceed(t))

Spec == Init /\ [][Next]_vars /\ Fairness

----------------------------------------------------------------------------

Steps == {"idle", "resolve", "insert", "lock", "check", "mint", "append",
          "return", "get", "read", "scan"}

TypeOK ==
  /\ present \in SUBSET Aggregates
  /\ stream \in [Aggregates -> Seq(Event)]
  /\ writer \in [Aggregates -> Clients \cup {None}]
  /\ gen \in 0..MaxUlid
  /\ pc \in [Clients -> Steps]
  /\ call \in [Clients -> Request \cup {None}]
  /\ minted \in [Clients -> Seq(Revisions)]
  /\ reply \in [Clients -> Reply \cup {None}]
  /\ todo \in [Clients -> SUBSET Aggregates]
  /\ listed \in [Clients -> SUBSET Aggregates]
  /\ committed \in [Clients -> SUBSET Aggregates]
  /\ calls \in 0..MaxCalls

\* Threads mint from one generator but append to streams of their own: still
\* the revisions of every stream strictly increase ("keeping the stream
\* monotonic", memory_store.rs:132).
StreamMonotonic == \A a \in Aggregates : Sorted(stream[a])

\* A batch published under an expected revision directly follows that
\* revision in the stream: the check under the write guard closes the window
\* between the lookup and the append.
ExpectedRevisionHonoured == \A a \in Aggregates : Honoured(stream[a])

\* A caller told of a conflict holds a revision that is no longer current, and
\* never will be again while it is being told: retrying with the same
\* revision is useless, and no caller is turned away without cause.
ConflictMeansStale ==
  \A t \in Clients :
     reply[t] # None /\ reply[t].kind = "conflict"
       => call[t].expected # RevisionOf(stream[Agg(t)])

\* An aggregate without events shows up in enumerate_aggregates() only while
\* a publish that may still fill it is under way: no failed publish leaves a
\* phantom aggregate behind.
PhantomIsTransient ==
  \A a \in present : stream[a] = <<>> =>
     \E t \in Clients : /\ pc[t] \in {"lock", "check", "mint", "append"}
                        /\ Agg(t) = a
                        /\ call[t].expected \in {None, Zero}

\* enumerate_aggregates(), walking the map while others insert into it, misses
\* no aggregate that had events when it was called.
EnumerateCoversCommitted ==
  \A t \in Clients : committed[t] \ todo[t] \subseteq listed[t]

\* Every load, publish and enumeration returns: no two threads wait for each
\* other's guards, and a conflict or a failure releases the guard.
EveryCallReturns == \A t \in Clients : pc[t] # "idle" ~> pc[t] = "idle"

----------------------------------------------------------------------------
(* The inductive invariant behind the safety properties. *)

Publishing == {"resolve", "insert", "lock", "check", "mint", "append"}
UnderGuard == {"check", "mint", "append"}

\* What a thread's call is, at each of its steps.
CallInv ==
  \A t \in Clients :
    /\ call[t] = None <=> pc[t] \in {"idle", "scan"}
    /\ reply[t] = None <=> pc[t] # "return"
    /\ pc[t] \in Publishing => call[t].op = "publish" /\ call[t].n > 0
    /\ pc[t] \in {"get", "read"} => call[t].n = 0
    /\ call[t] # None => call[t].expected \in {None} \cup 0..gen
    /\ pc[t] \in {"insert"} => call[t].expected \in {None, Zero}
    /\ pc[t] \in {"lock", "read"} \cup UnderGuard => Agg(t) \in present

\* A stream's write guard is held exactly by the thread inside its critical
\* section, or on its way out of it.
GuardInv ==
  \A t \in Clients :
    /\ pc[t] \in UnderGuard => writer[Agg(t)] = t
    /\ \A a \in Aggregates : writer[a] = t =>
         pc[t] \in UnderGuard \cup {"return"} /\ Agg(t) = a

\* What the check established still holds when the events are appended.
CheckedInv ==
  \A t \in Clients : pc[t] \in {"mint", "append"} =>
    call[t].expected \in {None, RevisionOf(stream[Agg(t)])}

\* Minted revisions are above everything stored in the stream they are for.
MintedInv ==
  \A t \in Clients : pc[t] = "append" =>
    /\ Len(minted[t]) = call[t].n
    /\ Increasing(minted[t])
    /\ \A i \in 1..Len(minted[t]) : /\ minted[t][i] <= gen
                                    /\ minted[t][i] > RevisionOf(stream[Agg(t)])

\* A minted revision is new to everyone until it is appended: no stream holds
\* it, no other thread has it, no caller expects it.
FreshInv ==
  \A t \in Clients : pc[t] = "append" => \A i \in 1..Len(minted[t]) :
    /\ \A a \in Aggregates : \A j \in 1..Len(stream[a]) :
         stream[a][j].rev # minted[t][i]
    /\ \A u \in Clients : pc[u] = "append" /\ u # t =>
         \A k \in 1..Len(minted[u]) : minted[u][k] # minted[t][i]
    /\ \A u \in Clients : call[u] # None => call[u].expected # minted[t][i]

\* Nothing is stored that the generator has not handed out, and nothing is
\* stored outside the map.
StoredInv ==
  \A a \in Aggregates :
    /\ \A i \in 1..Len(stream[a]) : stream[a][i].rev <= gen
    /\ stream[a] # <<>> => a \in present

ScanInv ==
  \A t \in Clients : committed[t] \subseteq present

IInv == /\ TypeOK
        /\ CallInv
        /\ GuardInv
        /\ CheckedInv
        /\ MintedInv
        /\ FreshInv
        /\ StoredInv
        /\ ScanInv
        /\ StreamMonotonic
        /\ ExpectedRevisionHonoured
        /\ ConflictMeansStale
        /\ EnumerateCoversCommitted

----------------------------------------------------------------------------

\* The store behaves as the EventStore trait promises: every call takes effect
\* at one instant between its start and its return.
ES == INSTANCE EventStream WITH log <- stream

Linearizable == ES!Spec

=============================================================================
