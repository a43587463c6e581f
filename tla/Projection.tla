----------------------------- MODULE Projection -----------------------------
(***************************************************************************)
(* The read model: a document store and the two functions that fill it     *)
(* from the event store, crates/wee-events-sqlite/src/document_store.rs    *)
(* and projections.rs.                                                     *)
(*                                                                         *)
(* Tasks publish and then apply a projection, rebuild all projections of a *)
(* type, or delete a document.  Each call of a store is one step; between  *)
(* the steps of one task any other may run, and a task may stop there for  *)
(* an error or because it is dropped.  The event store is the EventStream  *)
(* promise reduced to what a projection sees of it: the revision of an     *)
(* aggregate, which grows, and which determines the rendered state.  The   *)
(* documents are those of one collection, kept for one aggregate type.     *)
(***************************************************************************)
EXTENDS Naturals

CONSTANTS Tasks, Aggregates, None,
          MaxRevision,   \* bound on the events of an aggregate
          MaxJobs,       \* bound on the publishes and rebuilds begun
          MaxDeletes,    \* bound on the deletions
          MaxFailures    \* bound on the tasks that stop half-way

ASSUME BoundAssumption ==
  /\ MaxRevision \in Nat
  /\ MaxJobs \in Nat
  /\ MaxDeletes \in Nat
  /\ MaxFailures \in Nat

ASSUME NoneAssumption ==
  /\ None \notin Aggregates
  /\ None \notin [rev : Nat, data : Nat]

VARIABLES revision,  \* revision[a] of a's stream, 0 when it has no events
          docs,      \* docs[a]: the revision and data of a's document, or None
          pc,        \* where each task is
          job,       \* "apply", "rebuild" or None
          due,       \* due[t][a]: the revision of the change set t applies; the
                     \* revisions there were when its rebuild began
          todo,      \* the aggregates it has still to bring up to date
          current,   \* the aggregate it is at, or None
          loaded,    \* the revision of current it has loaded
          deleted,   \* history: documents deleted since its job began
          jobs, deletes, failures

taskVars == <<pc, job, due, todo, current, loaded, deleted>>
bounds == <<jobs, deletes, failures>>
vars == <<revision, docs, taskVars, bounds>>

\* The document of an entity of revision r: the stream up to r determines the
\* state that render() makes of it.
DocumentOf(r) == [rev |-> r, data |-> r]

Nothing == [a \in Aggregates |-> 0]

----------------------------------------------------------------------------

Init ==
  /\ revision = Nothing
  /\ docs = [a \in Aggregates |-> None]
  /\ pc = [t \in Tasks |-> "idle"]
  /\ job = [t \in Tasks |-> None]
  /\ due = [t \in Tasks |-> Nothing]
  /\ todo = [t \in Tasks |-> {}]
  /\ current = [t \in Tasks |-> None]
  /\ loaded = [t \in Tasks |-> 0]
  /\ deleted = [t \in Tasks |-> {}]
  /\ jobs = 0
  /\ deletes = 0
  /\ failures = 0

Begin(t, kind, aggregates) ==
  /\ pc[t] = "idle"
  /\ jobs < MaxJobs
  /\ jobs' = jobs + 1
  /\ pc' = [pc EXCEPT ![t] = "next"]
  /\ job' = [job EXCEPT ![t] = kind]
  /\ todo' = [todo EXCEPT ![t] = aggregates]
  /\ deleted' = [deleted EXCEPT ![t] = {}]
  /\ UNCHANGED <<docs, current, loaded, deletes, failures>>

\* A task publishes n events, possibly none, and goes on to apply the
\* projection to the change set it was given.
PublishAndApply(t, a, n) ==
  /\ revision[a] + n <= MaxRevision
  /\ revision' = [revision EXCEPT ![a] = @ + n]
  /\ due' = [due EXCEPT ![t] = [Nothing EXCEPT ![a] = revision[a] + n]]
  /\ Begin(t, "apply", {a})

\* rebuild_projection enumerates the aggregates of the type.  A store with a
\* partition per aggregate may report some that have no events.
Rebuild(t, found) ==
  /\ {a \in Aggregates : revision[a] > 0} \subseteq found
  /\ due' = [due EXCEPT ![t] = revision]
  /\ Begin(t, "rebuild", found)
  /\ UNCHANGED revision

\* event_store.load(&aggregate_id)
Load(t, a) ==
  /\ pc[t] = "next"
  /\ a \in todo[t]
  /\ todo' = [todo EXCEPT ![t] = @ \ {a}]
  /\ current' = [current EXCEPT ![t] = a]
  /\ loaded' = [loaded EXCEPT ![t] = revision[a]]
  /\ pc' = [pc EXCEPT ![t] = IF job[t] = "rebuild" THEN "get" ELSE "upsert"]
  /\ UNCHANGED <<revision, docs, job, due, deleted, bounds>>

\* Mutant of UpToDate: any document will do.
Exists(t) == docs[current[t]] # None

\* The document of t's current aggregate is already at the loaded revision.
UpToDate(t) ==
  docs[current[t]] # None /\ docs[current[t]].rev = loaded[t]

\* A rebuild skips a document that is up to date.
Get(t) ==
  /\ pc[t] = "get"
  /\ pc' = [pc EXCEPT ![t] = IF UpToDate(t) THEN "next" ELSE "upsert"]
  /\ UNCHANGED <<revision, docs, job, due, todo, current, loaded, deleted, bounds>>

\* Mutant of Newer: the upsert without its WHERE clause.
Always(a, r) == TRUE

\* Mutant of Newer: a document that exists is left alone.
Missing(a, r) == docs[a] = None

\* The condition of DocumentStore::upsert: no row yet, or
\* excluded.revision > documents.revision.
Newer(a, r) == docs[a] = None \/ r > docs[a].rev

\* Mutant of Upsert: the document carries the change set's revision.
UpsertAsPublished(t) ==
  /\ pc[t] = "upsert"
  /\ docs' = [docs EXCEPT ![current[t]] =
       IF Newer(current[t], due[t][current[t]])
         THEN [rev |-> due[t][current[t]], data |-> loaded[t]] ELSE @]
  /\ pc' = [pc EXCEPT ![t] = "next"]
  /\ UNCHANGED <<revision, job, due, todo, current, loaded, deleted, bounds>>

\* DocumentStore::upsert with the revision and state of the rendered entity.
Upsert(t) ==
  /\ pc[t] = "upsert"
  /\ docs' = [docs EXCEPT ![current[t]] =
       IF Newer(current[t], loaded[t]) THEN DocumentOf(loaded[t]) ELSE @]
  /\ pc' = [pc EXCEPT ![t] = "next"]
  /\ UNCHANGED <<revision, job, due, todo, current, loaded, deleted, bounds>>

\* Nothing is left to do: apply_projection or rebuild_projection answers Ok.
Done(t) == pc[t] = "next" /\ todo[t] = {}

\* The task forgets its job.
End(t) ==
  /\ pc' = [pc EXCEPT ![t] = "idle"]
  /\ job' = [job EXCEPT ![t] = None]
  /\ due' = [due EXCEPT ![t] = Nothing]
  /\ todo' = [todo EXCEPT ![t] = {}]
  /\ current' = [current EXCEPT ![t] = None]
  /\ loaded' = [loaded EXCEPT ![t] = 0]
  /\ deleted' = [deleted EXCEPT ![t] = {}]
  /\ UNCHANGED <<revision, docs, jobs, deletes>>

Return(t) ==
  /\ Done(t)
  /\ End(t)
  /\ UNCHANGED failures

\* A load, get, render or upsert fails, or the task is dropped.
Fail(t) ==
  /\ failures < MaxFailures
  /\ pc[t] # "idle"
  /\ ~Done(t)
  /\ failures' = failures + 1
  /\ End(t)

\* DocumentStore::delete
Delete(a) ==
  /\ deletes < MaxDeletes
  /\ docs[a] # None
  /\ docs' = [docs EXCEPT ![a] = None]
  /\ deleted' = [t \in Tasks |-> deleted[t] \cup {a}]
  /\ deletes' = deletes + 1
  /\ UNCHANGED <<revision, pc, job, due, todo, current, loaded, jobs, failures>>

----------------------------------------------------------------------------

Proceed(t) ==
  \/ \E a \in Aggregates : Load(t, a)
  \/ Get(t)
  \/ Upsert(t)
  \/ Return(t)

Next ==
  \/ \E t \in Tasks :
       \/ \E a \in Aggregates, n \in {0, 1} : PublishAndApply(t, a, n)
       \/ \E found \in SUBSET Aggregates : Rebuild(t, found)
       \/ Proceed(t)
       \/ Fail(t)
  \/ \E a \in Aggregates : Delete(a)

\* The runtime polls every task that can go on.
Fairness == \A t \in Tasks : WF_vars(Proceed(t))

Spec == Init /\ [][Next]_vars /\ Fairness

----------------------------------------------------------------------------

TypeOK ==
  /\ revision \in [Aggregates -> 0..MaxRevision]
  /\ docs \in [Aggregates -> [rev : Nat, data : Nat] \cup {None}]
  /\ pc \in [Tasks -> {"idle", "next", "get", "upsert"}]
  /\ job \in [Tasks -> {"apply", "rebuild", None}]
  /\ due \in [Tasks -> [Aggregates -> 0..MaxRevision]]
  /\ todo \in [Tasks -> SUBSET Aggregates]
  /\ current \in [Tasks -> Aggregates \cup {None}]
  /\ loaded \in [Tasks -> 0..MaxRevision]
  /\ deleted \in [Tasks -> SUBSET Aggregates]
  /\ jobs \in 0..MaxJobs
  /\ deletes \in 0..MaxDeletes
  /\ failures \in 0..MaxFailures

\* The data of a document is the state at its revision, whatever was published
\* between the change set and the load: an upsert with the change set's own
\* revision would let later state be taken for older and be overwritten by it.
DocumentMatchesRevision ==
  \A a \in Aggregates :
    docs[a] # None => docs[a] = DocumentOf(docs[a].rev) /\ docs[a].rev <= revision[a]

\* A document never goes back to an earlier revision, although the projections
\* of two publishes, and a rebuild, may reach it in any order.
DocumentNeverGoesBack ==
  [][\A a \in Aggregates :
       docs[a] # None /\ docs'[a] # None => docs[a].rev <= docs'[a].rev]_vars

\* A projection that answered Ok is visible: the document shows at least the
\* change set applied, and after a rebuild every document shows at least what
\* had been published when it began, whatever failed before it; unless
\* somebody deleted the document meanwhile.
ProjectionCovers ==
  \A t \in Tasks : Done(t) =>
    \A a \in Aggregates \ deleted[t] :
      due[t][a] > 0 => docs[a] # None /\ docs[a].rev >= due[t][a]

\* Every published revision reaches the read model, as long as no projection
\* fails and no document is deleted.
ReadModelCatchesUp ==
  \A a \in Aggregates, r \in 1..MaxRevision :
    revision[a] = r ~> \/ docs[a] # None /\ docs[a].rev >= r
                       \/ failures > 0 \/ deletes > 0

=============================================================================
