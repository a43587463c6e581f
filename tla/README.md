# wee-events in TLA+

TLA+ models of `wee-events.rs` (its event stores, their partitions and databases,
projections, renderer, services, macros and Restate binding), the TLC runs that check them on small instances, and the
theorems TLAPS proves for every instance.
Paths below are relative to the repository; `crates/` is left out.

    tlc -workers 2 -config MCMemoryStore.cfg MCMemoryStore
    tlapm MemoryStore_proofs.tla

## 1. Inventory

| Component | State | Operations | Interacts with |
|---|---|---|---|
| EventStore trait (`wee-events/src/store.rs`) | one append-only stream of events per aggregate | `load`, `publish` with an optional expected revision | implemented by the two stores; called by services and projections |
| MemoryStore (`wee-events/src/memory_store.rs`) | a concurrent map of streams, each behind a read/write lock; one ULID generator behind a mutex | `load`, `publish`, `enumerate_aggregates`, `enumerate_aggregates_by_type` | any number of threads, through clones that share the state |
| SQLite event store (`wee-events-sqlite/src/event_store/store.rs`) | a map from partition to cached connection; one generator per store instance; the rows in the database file | `load`, `publish` (transaction, conflict retry, busy retry, lazy-create retry), enumeration | other processes, through the database file; the catalog, for its targets |
| Partitions (`event_store/strategies`, `event_store/backends`) | none, or the files of a directory | aggregate to partition, partition to name and back, read plans, listing | the SQLite store, the provisioners |
| Turso provisioner (`event_store/turso_platform`) | target cache, known names | create, look up and list databases, record their logical names | a remote API, other processes that create the same databases |
| Schema migration (`wee-events-sqlite/src/database.rs`) | the schema-version table | migrate when a connection is opened | every process that opens the file |
| Document store, projections (`document_store.rs`, `projections.rs`) | one document per collection and key, with a revision | `upsert` (refuses older revisions), `get`, `list`, `delete`; apply and rebuild a projection | the event store (load after publish) |
| Service (`wee-events/src/service_builder.rs`, `publisher.rs`) | none of its own | load the entity, run the handler, publish against the loaded revision, reload | an event store, handlers |
| Renderer (`wee-events/src/renderer.rs`) | its rules; the indexes of the glob matcher while it runs | register rules, fold a stream by the first matching rule | services, projections |
| Identifiers (`wee-events/src/id.rs`) | none | `AggregateId` to text and back; ULIDs as revisions | names of partitions, object keys of Restate |
| Procedural macros (`wee-events-macros`) | the type of a registration | parse and expand `service!`, `#[handler]`, `#[loader]`; register effects; attach to an endpoint | handlers and loaders, the service builders, Restate's endpoint |
| Restate client (`wee-events-restate/src/client.rs`, `generated.rs`) | none but the answer it waits for | `execute`, `execute_idempotent`, `load` over HTTP | Restate's ingress |
| Restate adapter (`wee-events-restate`, `wee-events-macros/src/service_macro.rs`) | the journal of the Restate runtime | run a command once per invocation, dispatch effects | the Restate runtime, an event store |

What is hard, and what has to hold:

- **MemoryStore.** A publish looks its stream up, perhaps inserts it, takes the
  stream's guard, and only then compares, mints and appends; other threads run
  between any two of these. Revisions of all aggregates come from one
  generator. It must keep streams monotonic, honour expected revisions, turn
  callers away only with cause, leave no phantom aggregate, and let an
  enumeration that races with inserts find everything committed before it.
- **SQLite event store.** Processes share a file and nothing else; their clocks
  disagree. A publish is an IMMEDIATE transaction of conditional INSERTs, in a
  busy loop, in a conflict loop. The write lock, the connection mutex and the
  rows of a failed attempt have to go on every way out, cancellation included.
- **Partitions and catalogs.** Connections are cached for ever, opened lazily,
  dropped by the lazy-create retry; names are derived from aggregate ids and
  parsed back.
- **Turso provisioner.** Two creators race for a database; a crash between
  creating it and recording its name; caches that are never invalidated.
- **Migration.** The version is read before the transaction that changes it.
- **Projections.** Upserts out of order, rebuild during publishes, deletes.
- **Service and Restate adapter.** Lost updates between load and publish; a
  crash after the publish and before the journal entry.
- **Renderer.** The glob matcher is a loop over two indexes that goes back to the
  last star: it could skip a match, find one too many, or never end. Rules
  overlap, and the order of registration decides.
- **Names.** An id becomes a partition's name, a file or a remote database, and a
  process that starts with nothing cached gets back to the ids. Ids may hold the
  separator; remote names are cut and sanitized; two applications share a
  platform.
- **Macros.** Wire names are derived, compared and zipped with functions; the type
  of a registration has an impl for every subset of effects.
- **Restate client.** A connection that breaks leaves the caller without an answer
  to a request that may still be served. One that breaks between the status of an
  error and its text makes a backend error without text of it, even when the
  command was rejected.

`PROJECT.json` lists each of these hazards at its line, with the property that
covers it or the reason why none does.

## 2. Modules

| Module | What it is |
|---|---|
| `EventModel` | the shared data: revisions, events, requests, replies, and what it means for a stream to be sorted and to honour expectations |
| `EventStream` | the abstract specification of the `EventStore` trait |
| `MemoryStore` | the in-memory store, one action per step between two lock operations |
| `SqliteStore` | publish and load of the SQLite store on one partition, several processes |
| `PartitionNames` | the five strategies and the catalogs: from ids to names to databases and back |
| `Partitions` | which database an aggregate is in, how databases are opened, named, listed and scanned, and the map of connections |
| `TursoProvisioner` | databases created on demand by several processes, and its two caches |
| `SchemaMigration` | `migrate_schema` run by racing connections |
| `Projection` | the document store and the two functions that fill it, over an event store reduced to its revisions |
| `Renderer` | rules, `render()` and the glob matcher, against what patterns denote; types are sequences over `Characters` |
| `Service` | `BuiltService::load` and `execute`, and `Publisher`, composed with `EventStream` |
| `ServiceMacro` | what `service!` and the attributes make of a declaration, and what can then be called |
| `RestateExecutor` | the Restate binding, composed with `Service` |
| `RestateClient` | commands sent to a Restate service over connections that break |
| `MC...` | TLC instances: symmetry sets, which client runs in which process, the effects of a service; `MCParts` puts five modules without common state in one instance |
| `..._proofs` | lemmas and theorems |

**Data.** A revision is a ULID string of which the code uses order and equality
only; it is a number, `Revision::zero()` being 0. An event is its revision and
a history field, `after`: the expected revision its batch was published under,
kept on the batch's first event. No program reads it; it lets an invariant say
what was promised to the publisher. Event ids, types, metadata and payloads are
left out: no store looks at them. `None` stands for `Option::None` and for "no
call" and "no reply".

**EventStream.** A call is invoked, takes effect once, returns. A publish may
commit its whole batch (when the expected revision is absent or current), may
conflict (only when it is neither), or may fail and change nothing. A publish
of no events tells the current revision, whatever was expected. That is the
contract the stores are measured against.

**MemoryStore.** `stream` and `present` are the `DashMap`, `writer` the write
guards, `gen` the generator. `Resolve`, `StreamFor`, `LockStream`,
`CheckRevision`, `MintEventIds`, `AppendEvents`, `Return` are the steps of
`publish_sync`; `Get` and `Read` those of `load_sync` and
`current_revision_sync`; `Enumerate`, `Visit`, `EnumerateReturn` the walk over
the map. What runs under one guard without another thread able to see it is one
action. Readers wait for a writer; read guards need no state of their own, since
a reader holds its guard for one step.

**SqliteStore.** `db` is the committed table, `writeTx` and `tx` the open
transaction and its rows, `conn` the connection mutex of each process, `gen` its
generator. `Insert` and `InsertConflict` are one row of `try_publish_once`, with
`Accepts` the WHERE clause of `SQL_INITIAL`, `SQL_EXACT` and `SQL_ADVANCE`.
A process may draw any ULID above its own last one, which is all that unrelated
clocks guarantee, but none that is stored already: two processes' random parts
are taken never to coincide. `DatabaseBusy` is the busy timeout expiring while
somebody holds the write lock; `StoreError`, `BusyInTransaction`, `Dropped` and
`Restart` are the faults, and so is `CommitAnswerLost`: a remote database has
committed and the connection breaks before it says so, which the publisher cannot
tell from a failure. Reading is one atomic query (WAL snapshot).

**Partitions.** `exists`, `recorded` and `rows` are the databases: whether there
is one, the logical name in its metadata, the aggregates with events in it (what
a publish does inside is `SqliteStore`'s). `connections` and `mutex` are each
process's map of connections and the task that holds it; `UseCached`,
`StartOpening`, `OpenTarget`, `Prepare` or `Mismatch` are the steps of
`ensure_partition_open` and `open_partition_if_exists`, under the one mutex.
`NotReady` and `Forget` are the lazy-create retry. `List`, `AddCached`, `Scan`,
`Query`, `ScanDone` are an enumeration; `Skip` and `Direct` are the read plans of
the strategies, whose difference for the model is what a partition's key tells.
A remote database without a recorded name is listed under a name `Guessed` from an
aggregate in it, or under the name it has in the backend (`NameAsIs`, of a
`PartitionBy`).
`PartitionOf`, `TargetOf` and the backend's names are given: names round-trip,
while two names may be mapped to one remote database. Whether the code's names do
so is what the next module is about.

**PartitionNames.** Names are sequences of characters. `PartitionFor`,
`PartitionFromName` and `ReadPlan` are the methods of the strategy traits,
`SanitizeFragment` and `DatabaseName` those of `sanitize.rs`, `Target` and
`Listable` the catalogs: a directory of files, named remote databases, or one
target. A call is one step, made by a process that has nothing cached; `StoreEvents`,
`CreateOnly` (a process that dies between creating a database and naming it),
`LoadEvents` and `EnumerateIds` are the calls. A hash is taken to be the text it was made
from, since 64 bits collide for no two names in use; the Base32 of file names
is a bijection (external). `Trusted` names what the code trusts its caller with: that an
aggregate type has no colon (`id.rs` says "simple kebab-case", and checks
nothing), that a partitioner gives no empty name, that the prefixes of two
applications do not sanitize to one name where no hash tells them apart.

**TursoProvisioner.** Each call of the platform API or of a database's metadata
is one step; `before` is history. `Lookup` to `CacheTarget` are
`ensure_target_for_name` and, for a reader, `target_for_existing_name`, and
`Connect` is what the store does with the target. `KnownNames`, `ListNames`,
`LoadName`, `NamesLoaded` are `names()`; `ListManaged`, `DeleteDatabase`,
`ClearCaches` are `cleanup()`. `CreateUnanswered` is a create request that is
carried out while its answer is lost.

**SchemaMigration.** `versionTable`, `tables` and `version` are the committed
file; `writer` the write lock; `snapshot` the commit an open transaction began
at, since `BEGIN` is deferred and a transaction that has read an older state may
not write (`Refused`). `Migrations` is the DDL an opener sends, after the version
it has read before `BEGIN`.

**Projection.** `docs` is one collection of the document table, kept for one
aggregate type; `revision` is all a projection sees of the event store, since a
stream up to a revision determines what it renders to. A task that runs
`PublishAndApply` continues as `apply_projection`, one that runs `Rebuild` as
`rebuild_projection`; `Load`, `Get`, `Upsert`, `Return` are their steps, one per
call of a store, and a task may stop at any of them (`Fail`). `Newer` is the
WHERE clause of the upsert.

**Renderer.** `RenderStep` is one turn of one of the loops of `render()` and
`glob_matches()`: which event, which rule, and for a glob the two indexes and the
last star. `GlobDenotes` says what a pattern means without indexes that move:
the text can be cut into one piece per character of the pattern. The state of an
entity is the list of reductions that made it.

**Service.** `Store == INSTANCE EventStream`: every step of a store is one its
contract allows, so the results hold for both stores and for the spurious
failures of either. `FactoryFails`, `Execute`, `LoadReturns`, `Loaded`, `Reject`, `Publish`, `Published`,
`StoreFailed`, `HandlerEntity`, `HandlerReload`, `Reloaded`, `Return` follow one
command from `BuiltService::execute` through the handler and back, or a `load()`; `Dropped` is
a caller that drops the future. A handler is application code and is modelled by
the counter of the crate's tests (external), with the liberty `HandlerEnv` gives
any handler: it may publish more than once, and return an entity or nothing.
`counter` is what the stored payloads render to.

**ServiceMacro.** A declaration is parsed (`DeclarationParses`), expanded and
given to rustc (`ExpansionCompiles`, `SpecCompiles`: one impl per command, one
state throughout, the error and the bounds of each function); types are
their last path segment, as the macro reads them. What compiles can be called in
process, and registered: `CreateRegistration`, `WithEffect` (through
`WithEffectImpls`, the impls generated for each subset of effects), `AttachTo`.
`CallInProcess`, `CallIngress` and `CallClient` are one call each, and the
functions that run are its outcome; the steps inside are `Service`'s and
`RestateExecutor`'s.

**RestateClient.** `ClientExecute` posts under an id of its own, `ExecuteIdempotent`
under the caller's key; `ExecutorServes` is Restate (external), which runs a
workflow the first time it is asked for; `Body`, `ErrorOf` and `EntityResults` are
the forms of an answer and what the client makes of them: an entity may fail to
decode. `TransportFails` is a connection that breaks before the status and leaves a
request on its way, to be served later or never; `BodyBreaksOff` one that breaks
after it: of an entity that is a transport error, of an error a backend error without
text, since its text is read with `unwrap_or_default`. A command that does not
serialize (`EncodingFails`) gives the same `Error::Decode` as an answer that does not
decode, and nothing is sent. `execute_idempotent` is given the command as JSON and
has no such path. A caller may send the same intent again.

**RestateExecutor** extends `Service`; the clients are workers and a
worker executes the closure of one invocation at a time. Restate is external
and modelled by what the generated code relies on: one running invocation per
key, a journal, and a retry until the result is in the journal. A worker may
crash (`Crashed`), or be given up on while it is alive (`Disconnected`): it
goes on, and what it publishes is stored, but its result is not journalled.
`Dispatch` sends the effects of the journalled notification one by one,
`AnswerClient` ends the invocation.

## 3. Runs

| Run | Instance | Shows |
|---|---|---|
| `memory` | 2 threads, 2 aggregates, 3 calls, batches to 2, 7 ULIDs | `MemoryStore` implements `EventStream`; all its safety properties; every call returns |
| `memory_overflow` (violation) | 1 thread, 1 ULID left | finding 1 |
| `sqlite` | 2 tasks in one process and 1 in another, 1 aggregate, 2 calls, batches to 2, 4 ULIDs, 1 fault | safety under clock skew, busy retries, one fault; `SqliteStore` implements `EventStream` up to spurious refusals and lost answers; every call returns |
| `sqlite_skew` (violation) | 2 processes, no faults | finding 2 |
| `partitions` | 3 tasks in 2 processes, 2 aggregates, 3 calls, 2 attempts, 1 fault, 4 deployments | reads miss nothing committed, scans find nothing else, events are under their partition's name, the map is locked by openers only |
| `partitions_phantom` (violation) | the same with a file per aggregate | finding 3 |
| `turso` | 3 tasks in 2 processes, 2 names, 4 calls with 1 cleanup, 1 fault | opened databases are named; races are harmless; a cleanup is complete |
| `migration` | 2 openers of version 2, 1 of version 1, 2 faults | an open connection has its tables; the file gets migrated |
| `projection` | 2 tasks, 2 aggregates of 2 revisions, 3 jobs, 1 delete, 1 failure | documents match their revision and never go back; a projection that succeeded is visible; what is published reaches the read model |
| `parts` | five modules, one at a time: see below | the renderer does what its patterns denote, and ends; names lead back to ids, and databases are not shared; what is served is what was declared; a client is told what happened; no decision is stored that was made on an outdated entity |
| `restate_client` (violation) | the declarations of `parts` | finding 4 |
| `restate` | 2 workers, 2 invocations, 2 events, 1 lost attempt, 2 effects | commands and effects happen once, and without conflict, unless a worker is lost; every command is answered |

*Why the bounds are enough.* A race for a stream needs two threads
on one aggregate; the second aggregate shows that minting for one stream does not
disturb another. Three calls let two publishes race and an enumeration or a load
see them, or one set the stage for two others. Batches of two distinguish first,
last and inner events. Three calls of two events and two ids each want more than 7
ULIDs, so the mint fails in some behaviours. A third thread is left to the proofs,
which cover every safety property of this run. In the SQLite runs four ULIDs are few enough for one
process to be behind another and for a generator to run out, and `MAX_AUTO_RETRIES`
and `MAX_BUSY_RETRIES` are cut from 5 and 8 to 2 and 1: each loop is still
entered, repeated and exhausted. One fault may happen at every point.
In `Partitions` a task in another process is what the cache of the first two does
not know of; two databases let one be listed while the other is created. The
deployment is chosen in the initial state: files per aggregate, remote databases
per type where two types are mapped to one database, a hash bucket that holds
aggregates of two types, and a `PartitionBy` whose two partitions are mapped to one
database, which the backend calls by the name of the second. There a listing between
the creation of the database and the recording of its name takes the second
partition's name for it. The 30 attempts of the lazy-create retry are cut to 2,
and used up. In `TursoProvisioner`
two tasks race in one process and a third in another; the fourth call lets
a listing fill the cache before the race is decided. Three openers let one be
refused while another commits and an older binary records its version.
In `parts`, the renderer gets every pattern of up to four characters over two
letters and the star with every text of up to four letters, which is enough for two
stars, a letter between them that matches too early, and a retreat to the second
star; and up to two overlapping rules on streams of two events. The names are
those of five ids: keys and types with colons, and types
that differ only beyond the characters a remote name keeps; two applications,
whose prefixes differ in what sanitizing drops; two databases written to. The
declarations have up to two handlers that fit, share a wire name, a command or the
loader's name, are for another state or have a foreign error, and up to three
effects. Three intents, two of them under one key, three requests and two broken
connections let a request be repeated, overtaken and served after its caller has
gone on. The services are two clients on one counter, with three commands
or loads and two publishes per handler: a decrement can be decided on a value the
other has changed.
Two projection tasks and three jobs let one
load and the other publish and upsert in between; two revisions are enough for an
old one to arrive late, and the second aggregate makes a rebuild have more than one
thing to do. Two invocations and three executions let a retry, the worker it
replaces and another command on the same key meet.

The type invariants of `Partitions`, `TursoProvisioner` and `RestateExecutor` are
the first conjuncts of `MapLockedByOpener`, `NamesAreRecorded` and
`OneWorkflowPerEffect`.

*Fairness.* Weak fairness of each thread's or task's next step: an operating
system or an async runtime schedules what is runnable. Locks need no strong
fairness, as calls are bounded: whoever waits is eventually alone. `Invoke`,
faults and restarts are not fair. `Partitions` and `TursoProvisioner` have
none, since they state only safety. In `SchemaMigration` each opener proceeds and
one that failed opens the file once more: whoever needs the store does.
`Projection` has weak fairness of each task,
the parts other than the renderer none, since they state only safety; the renderer
has weak fairness of its steps, being a loop that runs. `RestateExecutor` has strong
fairness of each invocation, because Restate keeps a queue per key and retries
without end, so an invocation that can be started or retried again and again
eventually is; and weak fairness of each worker's own steps. `CHECK_DEADLOCK FALSE` is set where callers
may simply stop calling; `EveryCallReturns` would fail in a real deadlock.

*Findings.*

1. `memory_store.rs:135`: minting happens after the empty entry was inserted, so
   a publish that fails to mint leaves the phantom aggregate that the comment at
   `memory_store.rs:96-99` says must not be left.
2. `store.rs:475`: with an expected revision, a row refused because the minted
   ULID is not above the stored maximum is reported as `RevisionConflict` whose
   `actual` is the `expected` one, and is not retried, while the same refusal
   without an expected revision is retried and diagnosed as clock skew.
3. `store.rs:232`: with `AggregateStrategy` an enumeration answers with the
   aggregate of every partition there is, without looking into it, although a
   partition's file is there before its first event and remains when there never
   is one; `store.rs:171` speaks of the aggregate ids in the store.
4. `names.rs:3`: a generated Restate client posts to
   `{service}-side-effect-executor` and `{service}-side-effect-loader`, services
   nothing in the repository registers, while the generated binding is one
   virtual object named `{service}`. The repository's `README.md:52-54` has
   business logic work with either.

Met on the way, without a run of its own: the comment at
`service_macro.rs:246-248` derives `h_t_t_p_service` from `HTTPService`; the code
puts an underscore only before a capital that follows a lower-case letter or a
digit, and makes it `httpservice`.

## 4. Proofs

`MemoryStore_proofs`: `TypeOK`, `StreamMonotonic`, `ExpectedRevisionHonoured`,
`ConflictMeansStale`, `EnumerateCoversCommitted`, and `Linearizable` (the
refinement of `EventStream`) as theorems of `Spec`, all from one inductive
invariant, `IInv`:

- `GuardInv`: a stream's write guard is held exactly by the thread in its
  critical section, so at most one thread is past the lock;
- `CheckedInv`: hence what the check found is still true when appending;
- `MintedInv`: minted revisions increase and are above the stream they are for;
- `FreshInv`: a minted revision is in no stream, in no other thread's hands and
  expected by no call. Without it `ConflictMeansStale` is not inductive: a
  publish could make current again the very revision another thread was just
  told is out of date;
- `StoredInv`: stored revisions have been handed out by the generator;
- `CallInv`, `ScanInv`: what a call is at each of its steps.

The refinement maps `log` to `stream`; `CheckRevision`, `MintEventIds`,
`AppendEvents`, `Get` and `Read` take effect where they set `reply`; the other
steps of a call stutter.

The assumptions are those of `EventModel` and `MaxCallsAssumption`: the bounds
are naturals and `None` is no client, number, request or reply.

`SqliteStore_proofs`: `TypeOK`, `StreamMonotonic`, `ExpectedRevisionHonoured`,
`ConflictReportsCommitted`, `WriteLockHeldInAttempt` and `Linearizable` as
theorems of `Spec`, for any processes, clients, retry limits and faults. The
inductive invariant `IInv` adds to the types and the first three properties:

- `LockInv`: whoever is between BEGIN and COMMIT holds the write lock, nobody
  else has rows, and whoever is past the connection mutex holds it;
- `CallInv`: what a call is at each step;
- `RowsInv`: the rows of an open transaction increase, are above the committed
  ones and not above the generator, and their publisher's expectation still
  holds, since nobody else can commit. So only the first row of a batch can be refused
  (`RefusedRow`), the revision a refusal reports is a committed one, and a commit
  may append the rows as they are, whatever the clocks of the processes say.

A load reads by `ORDER BY revision`. That this is the order of insertion
(`OrderByRevisionIs`) needs that a sorted stream is the only sorted arrangement of
its events (`SortedUnique`): where two arrangements first differ, one of them
would have to hold the other's event twice; the least such place is there because
`<` is well-founded. The refinement maps `log` to `db` and a reply to
`PromisedReply`: a refusal for no reason of the stream's is a failure, and a commit
whose answer is lost is a success nobody is told of. The further assumptions are the
types of the bounds and of `ProcOf`, and that `None` is no outcome.

`Projection_proofs`: `DocumentMatchesRevision`, `ProjectionCovers` and
`DocumentNeverGoesBack`, for all tasks, aggregates and bounds. The invariant
adds `LoadedIsFresh` (what a task has loaded since its job began is at least
what is due, and the stream has it), `DueIsPublished` (what is due is in the
stream), and `Accounted` (whatever a job owes is still to do, under way, done, or
was deleted): `ProjectionCovers` speaks only of jobs that are over and says
nothing of how they got there.

`Service_proofs` has three layers.

*The contract*, for all clients, aggregates and bounds: `StreamsIncrease`,
`ExpectationsHonoured` and `NoLostUpdate`. The invariant is the first two and the
types; the third follows because a sorted stream has a different predecessor
revision at every position (`HonouredOnce`).

*The service*: `TypeOK`, `NeverBelowZero`, `OnePublishPerEntity`,
`ReloadShowsOwnWrites` and the refinement of `EventStream` (`UsesAStream`), for
any clients, aggregates, batch sizes and numbers of calls. The store is known only
by its contract (`Service` is composed with `EventStream`), so by `Linearizable` the
results hold over both stores. The handler's check is made on an entity and the events
are stored in a stream that may have grown since; the invariant says what the one knows
of the other:

- `StepOf`: the entity a handler has is what some prefix of the stream renders to
  (`Shows`), which it stays as the stream grows;
- `CallOf`: a publish expects the entity's revision, and the handler's rule allows
  it for the entity's value;
- `ReplyOf`, `AcceptedOf`: an accepted publish has left the entity behind;
- `AnswerOf`: what is returned shows what was accepted.

So when a batch is stored under the entity's revision, the prefix is the whole stream and
nothing was accepted for this entity before (`CommittedEntity`). The assumptions
are those of `EventModel` and `ExecuteAssumption`, the types of the bounds.

*The Restate binding*: `BindingImplementsService`, each of its steps is one of
`Service`'s or a stutter, so `BusinessRuleUnderRestate` holds however often a
closure is executed; `AppliedOnce`, `NoConflict`, `OneWorkflow`, `EffectsMatch`, for
any invocations, workers, effects and numbers of lost attempts. Of the invariant,
`InvocationOf` and `WorkerOf` tie an invocation to the workers at it, dead attempts
included; `JournalOf` says the journal tells a revision its stream has reached, and
that what was sent matches it; `WorkflowInv` that each workflow was sent, under the
journalled id, and nothing else was started; `KeysApart` that no two invocations run on
one key. None of these depends on whether workers get lost. `OneAttempt` does: until
one is lost, the worker at an invocation is its only one, and knows of what the
invocation has stored (`Committed`), so a second batch would be a second publish for
one entity. `NoConflict` is about handlers that publish once (`MaxPublishes <= 1`, as in
the run): a second publish of one handler, under the entity's old revision, does conflict.
`UpToDate` says the entity is current until its worker publishes, as nobody else is at the key.
The further assumptions are `EffectAssumption`, `LostAssumption` and
`InvocationAssumption`: `None` is no invocation and nothing that is journalled.

`Partitions_proofs`: `StoredUnderItsName`, `ReadsSeeCommitted`, `ScannedIsStored`
and `MapLockedByOpener`, for any processes, tasks and deployments: which
aggregates share a partition, and which partitions a database, is arbitrary. Of
the invariant, `NamesInv` says a cached connection is to a database recorded
under that very name, and that a name is never given up; so whoever is past
`Prepare` may append. `ReadOf` says of every aggregate a read owes (`Owed`)
that it is found, or its partition is still to be scanned, or is the one being looked
into. It holds when listing because what has events is in a database that is there
and has its name (`StoredIsHome`), and a reader that finds no database owes nothing
of it (`NothingAbsent`). The assumptions are `DeploymentAssumption`, of which only
the types are used, `TaskAssumption` and `BoundAssumption`.

`TursoProvisioner_proofs`: `NamesAreRecorded`, `RaceIsHarmless` and
`CleanupIsComplete`, for any tasks, processes, names and faults. Up to the first
cleanup, databases and recorded names only grow (`Later`), so what a task has found
(`OpenOf`) and what a process has cached (`CachesInv`) stays true while it awaits the
next answer of the API: a creator that lost the race finds the database of the
winner, and records the name if the winner died. After a cleanup a cached
target may be gone, which is why the properties name cleanups. `CleanupOf` says that of the
databases a cleanup found, those still there are those it has still to delete;
a database created again meanwhile is not one of them. The assumption is
`ProvisionerAssumption`: the types of the bounds, and that `None` is nothing else.

`Parts_proofs` is about four parts that share no state with a store's inside.

*Migration*: `OpenMeansMigrated` and `VersionMeansTables`, for any
openers, versions and number of failures. An opener acts on a version it has
read before its transaction. `ReadIsDone` says why that does no harm: the tables
of the version it has read are there, and tables never go. `CommitterWrites`
says that whoever commits holds the write lock. Neither version nor open
connection can do without them.

*Restate's client*: `ToldWhatHappened`, for any callers, intents, keys, requests and
broken connections. A request that is still under way names its workflow by the key of its
intent or by its own number (`RequestsNamed`), so whatever has run under that name
has run for an intent of the same key (`RunsNamed`, `RanFor`); and an answer a caller
waits for can only be that of a request of its own (`CallerOf`). What may be said of
a run is `MayBeTold`: its entity, or that it does not decode; its rejection or error,
or a backend error without text, which says only that the run ended in no entity
(`AnswerIsOfRun`). `TellsNothing` are the transport errors and, without a key, the
decoding errors, which may be of a command that was never sent. The
assumption is that `NoKey` is no intent and no number, and that no key is a
request's number.

*The macros*: `ServedAsDeclared`, for any declarations and
functions. The type of a registration is the list of the effects that remain
(`IsRegistered`); that each subset has one such list, of exactly its
members, is `RemainingAre`: by an induction over the size of the set that is stated as
the existence of a least counterexample, since `<` is well-founded. Names that are
zipped stay with their functions (`MethodsAre`), and a command leads to one handler
since rustc refuses two impls for one command (`OneHandler`). `DeclarationAssumption`
and `FunctionAssumption` say that the lists of a declaration are sequences and that
`NoService` is no type.

*Names*: `DatabasesApart` and `FreshProcessFinds`, for any ids, prefixes, partitioners,
numbers of buckets and histories, all strategies and catalogs. The
lemmas about names come first: an id of a type without a colon is read back from its
text (`RoundTrip`), a bucket from its name (`BucketName`), so a name tells the
partition (`ReadBack`, `SameNameSamePartition`); two targets that are one have the same
name, and the same prefix unless it is the default database's (`TargetTells`); a sanitized
text is no longer than its limit (`SanitizedIsShort`), which is what makes a
database's name fit (`NamesFit`). Then the invariant, `NamesInv`: a database is the home
of somebody who has used it and has no other's name; what is stored is in its home, which
is named; and nothing else is in there. It does not need `Trusted`: even where ids are not
well formed nobody is refused at home (`AdmittedAtHome`) and nothing is stored
elsewhere, so that what the code trusts its callers with is only about being
listed and read back. A listing gives names of partitions used under the prefix
(`ListedAre`) and, where names are trusted, all those stored (`StoredIsKnown`). The
assumption is `NamesAssumption`: ids and prefixes are texts, a partitioner gives a text,
`NoName` is none of the names, and no other strategy or catalog is looked at.

`Projection_proofs` has, besides the projections, `RendersAsDeclared`: for any rules and
streams, `render()` does what the patterns denote. `RendererInv` says what the loop
of the glob matcher knows: what lies before its indexes matches (`GlobSound`), and no
match of the whole text has got less far or gives the last star less (`GlobComplete`), so
what is given up when the loop goes back to that star holds no match (`DeadEnd`). The
property is about event types without a star: `glob_matches` compares characters before
it looks for a star, so the pattern `a*` does not match a type `a*b`.

Types are proved (`TypeCorrect`, `MapIsReleased`, `DocumentsMatch`, `VersionHonest`,
`NamesRecorded`, `OneWorkflow`) or checked; the type invariant of `RestateExecutor`
includes that of `Service`, and that one `EventStream`'s.

*Model-checked only:* liveness, which is out of the prover's reach: `EveryCallReturns`, `EveryCommandAnswered`, that files get migrated,
that what is published is projected and that the renderer ends. Induction over
data is possible only as the existence of a least counterexample. Nothing is
proved of `PhantomIsTransient`, which a failing mint violates. The theorems about
`EventStream` hold of both stores through `Linearizable`.

## 5. Not modelled, and plan

Not modelled: serialisation and codecs (stateless); the derives of `Command` and
`DomainEvent` and the attribute `#[capability]`, which rename and add bounds;
`api.rs`, the HTTP client of the Turso API, other than by what its calls promise;
ULID collisions between processes; `EffectRouter` and causation ids,
which nothing in the repository drives; in the Restate binding the
loader handler, which only reads; `list()` of the document store; benches and the
conformance suite, which are quoted as statements about the stores.

Nothing of the plan is left to model; of the safety properties the runs check, all but the
four that are violated are theorems.
