------------------------------- MODULE Service -------------------------------
(***************************************************************************)
(* Services: load an entity, let a command handler decide and publish, and *)
(* reload (crates/wee-events/src/service_builder.rs, publisher.rs,         *)
(* handler_env.rs), composed with an event store of which only the         *)
(* EventStream promise is known.                                           *)
(*                                                                         *)
(* Handlers are the application's.  They are modelled by the counter of    *)
(* the crate's tests, whose decrement is rejected when it would go below   *)
(* zero, and by what HandlerEnv lets any handler do: publish for the       *)
(* entity it was given, more than once if it likes, and return an entity   *)
(* of its own or nothing, which makes the service reload.  The counter     *)
(* that the events' payloads render to is kept beside the log.             *)
(***************************************************************************)
EXTENDS EventModel, Integers

CONSTANTS MaxExecutes,   \* bound on the calls of execute() and load()
          MaxPublishes   \* bound on the publishes of one handler

ASSUME ExecuteAssumption == MaxExecutes \in Nat /\ MaxPublishes \in Nat

VARIABLES log, call, reply,  \* the store: see EventStream
          counter,   \* counter[a][i]: what the first i events of a render to
          step,      \* where each client's execute() is
          command,   \* its target, command and amount, or None
          entity,    \* the entity its handler was given, or None
          publishes, \* the publishes of its handler so far
          accepted,  \* history: revisions of those that stored events
          answer,    \* what execute() or load() is about to return, or None
          executes   \* calls made so far

storeVars == <<log, call, reply>>
handlerVars == <<command, entity, publishes, accepted>>
vars == <<storeVars, counter, step, handlerVars, answer, executes>>

Store == INSTANCE EventStream

Command == [agg : Aggregates, name : {"increment", "decrement"}, amount : 1..MaxBatch]

\* load() is a call without a command.
Loading(a) == [agg |-> a, name |-> "load", amount |-> 0]
Calls == Command \cup {Loading(a) : a \in Aggregates}

\* The counter a stream of aggregate a renders to.
Render(a, s) == IF s = <<>> THEN 0 ELSE counter[a][Len(s)]

\* What i events of a command make of a counter.
Reduce(value, name, i) == IF name = "increment" THEN value + i ELSE value - i

\* The decrement handler's business rule.
BelowZero(cmd, value) == cmd.name = "decrement" /\ value < cmd.amount

----------------------------------------------------------------------------

Init ==
  /\ Store!Init
  /\ counter = [a \in Aggregates |-> <<>>]
  /\ step = [c \in Clients |-> "idle"]
  /\ command = [c \in Clients |-> None]
  /\ entity = [c \in Clients |-> None]
  /\ publishes = [c \in Clients |-> 0]
  /\ accepted = [c \in Clients |-> {}]
  /\ answer = [c \in Clients |-> None]
  /\ executes = 0

Goto(c, s) == step' = [step EXCEPT ![c] = s]

\* The loader asks the store for the aggregate.
CallLoader(c, a) ==
  Store!Invoke(c, [op |-> "load", agg |-> a, expected |-> None, n |-> 0])

Begin(c, cmd) ==
  /\ step[c] = "idle"
  /\ executes < MaxExecutes
  /\ executes' = executes + 1
  /\ command' = [command EXCEPT ![c] = cmd]

Finish(c, kind, result) ==
  /\ answer' = [answer EXCEPT ![c] = [kind |-> kind, entity |-> result]]
  /\ Goto(c, "return")

\* The factory makes no context: its error is the loader's, and execute()'s.
FactoryFails(c, cmd) ==
  /\ Begin(c, cmd)
  /\ Finish(c, "failed", None)
  /\ UNCHANGED <<storeVars, counter, entity, publishes, accepted>>

\* execute() and load(): the context is made and the loader called.
Execute(c, cmd) ==
  /\ Begin(c, cmd)
  /\ CallLoader(c, cmd.agg)
  /\ Goto(c, "load")
  /\ UNCHANGED <<counter, entity, publishes, accepted, answer>>

Answered(c, kind) == reply[c] # None /\ reply[c].kind = kind

LoadedEntity(c) ==
  [rev |-> reply[c].rev, value |-> Render(command[c].agg, reply[c].events)]

\* load() returns what the loader returns.
LoadReturns(c) ==
  /\ step[c] = "load"
  /\ Answered(c, "loaded")
  /\ command[c].name = "load"
  /\ Finish(c, "loaded", LoadedEntity(c))
  /\ Store!Return(c)
  /\ UNCHANGED <<counter, handlerVars, executes>>

\* The loader returns the rendered aggregate: the handler of the command's type
\* is called with it.
Loaded(c) ==
  /\ step[c] = "load"
  /\ Answered(c, "loaded")
  /\ command[c].name # "load"
  /\ entity' = [entity EXCEPT ![c] = LoadedEntity(c)]
  /\ Store!Return(c)
  /\ Goto(c, "handle")
  /\ UNCHANGED <<counter, command, publishes, accepted, answer, executes>>

\* The handler refuses the command: ServiceError::Rejection.
Reject(c) ==
  /\ step[c] = "handle"
  /\ BelowZero(command[c], entity[c].value)
  /\ Finish(c, "rejected", None)
  /\ UNCHANGED <<storeVars, counter, handlerVars, executes>>

\* Mutant of ExpectedRevision: PublishOptions::default().
NoRevision(c) == None

\* Publisher::publish expects the revision of the entity it is given.
ExpectedRevision(c) == entity[c].rev

\* The handler publishes: the events of its command, or none.
Publish(c, n) ==
  /\ step[c] = "handle"
  /\ ~BelowZero(command[c], entity[c].value)
  /\ n \in {0, command[c].amount}
  /\ publishes[c] < MaxPublishes
  /\ publishes' = [publishes EXCEPT ![c] = @ + 1]
  /\ Store!Invoke(c, [op |-> "publish", agg |-> command[c].agg,
                      expected |-> ExpectedRevision(c), n |-> n])
  /\ Goto(c, "publish")
  /\ UNCHANGED <<counter, command, entity, accepted, answer, executes>>

\* The publish succeeded; the handler goes on, with the entity it has.
Published(c) ==
  /\ step[c] = "publish"
  /\ Answered(c, "ok")
  /\ accepted' = [accepted EXCEPT ![c] =
       IF reply[c].events = <<>> THEN @ ELSE @ \cup {reply[c].rev}]
  /\ Store!Return(c)
  /\ Goto(c, "handle")
  /\ UNCHANGED <<counter, command, entity, publishes, answer, executes>>

\* A store error, a conflict included, is passed on by the loader, the handler
\* and execute().
StoreFailed(c) ==
  /\ step[c] \in {"load", "publish", "reload"}
  /\ \E kind \in {"conflict", "failed"} : Answered(c, kind) /\ Finish(c, kind, None)
  /\ Store!Return(c)
  /\ UNCHANGED <<counter, handlerVars, executes>>

\* HandlerOutcome::Entity: the handler returns an entity of its own.  The
\* tests' handlers keep the revision and change the state.
HandlerEntity(c) ==
  /\ step[c] = "handle"
  /\ ~BelowZero(command[c], entity[c].value)
  /\ LET cmd == command[c]
     IN Finish(c, "entity", [rev |-> entity[c].rev,
                             value |-> Reduce(entity[c].value, cmd.name, cmd.amount)])
  /\ UNCHANGED <<storeVars, counter, handlerVars, executes>>

\* Mutant of HandlerReload: the entity is not loaded again.
HandlerNoReload(c) ==
  /\ step[c] = "handle"
  /\ ~BelowZero(command[c], entity[c].value)
  /\ Finish(c, "reloaded", entity[c])
  /\ UNCHANGED <<storeVars, counter, handlerVars, executes>>

\* HandlerOutcome::Reload: the handler returned ().
HandlerReload(c) ==
  /\ step[c] = "handle"
  /\ ~BelowZero(command[c], entity[c].value)
  /\ CallLoader(c, command[c].agg)
  /\ Goto(c, "reload")
  /\ UNCHANGED <<counter, handlerVars, answer, executes>>

\* The reloaded entity is the result.
Reloaded(c) ==
  /\ step[c] = "reload"
  /\ Answered(c, "loaded")
  /\ Finish(c, "reloaded", LoadedEntity(c))
  /\ Store!Return(c)
  /\ UNCHANGED <<counter, handlerVars, executes>>

End(c) ==
  /\ Goto(c, "idle")
  /\ command' = [command EXCEPT ![c] = None]
  /\ entity' = [entity EXCEPT ![c] = None]
  /\ publishes' = [publishes EXCEPT ![c] = 0]
  /\ accepted' = [accepted EXCEPT ![c] = {}]
  /\ answer' = [answer EXCEPT ![c] = None]
  /\ UNCHANGED <<counter, executes>>

Return(c) ==
  /\ step[c] = "return"
  /\ End(c)
  /\ UNCHANGED storeVars

\* The caller drops the future, also while the store is at work: what has taken
\* effect stays, what has not never will.
Dropped(c) ==
  /\ step[c] \notin {"idle", "return"}
  /\ IF call[c] = None THEN UNCHANGED storeVars ELSE Store!Return(c)
  /\ End(c)

----------------------------------------------------------------------------
(* The store *)

\* A batch is stored: its payloads are those of the handler's command.
Commit(c, revs) ==
  /\ Store!Commit(c, revs)
  /\ LET a == command[c].agg
         before == Render(a, log[a])
     IN counter' = [counter EXCEPT ![a] =
          @ \o [i \in 1..Len(revs) |-> Reduce(before, command[c].name, i)]]
  /\ UNCHANGED <<step, handlerVars, answer, executes>>

AnswerOnly(c) ==
  /\ \/ Store!Conflict(c)
     \/ Store!PublishNothing(c)
     \/ Store!Load(c)
     \/ Store!Fail(c)
  /\ UNCHANGED <<counter, step, handlerVars, answer, executes>>

StoreStep(c) ==
  \/ \E n \in 1..MaxBatch : \E revs \in [1..n -> Revisions] : Commit(c, revs)
  \/ AnswerOnly(c)

----------------------------------------------------------------------------

Proceed(c) ==
  \/ LoadReturns(c)
  \/ Loaded(c)
  \/ Reject(c)
  \/ \E n \in 0..MaxBatch : Publish(c, n)
  \/ Published(c)
  \/ StoreFailed(c)
  \/ HandlerEntity(c)
  \/ HandlerReload(c)
  \/ Reloaded(c)
  \/ Return(c)
  \/ StoreStep(c)

Next ==
  \E c \in Clients :
    \/ \E cmd \in Calls : Execute(c, cmd) \/ FactoryFails(c, cmd)
    \/ Proceed(c)
    \/ Dropped(c)

Spec == Init /\ [][Next]_vars

----------------------------------------------------------------------------

Entity == [rev : {Zero} \cup Revisions, value : Int]

Result == [kind : {"rejected", "conflict", "failed", "entity", "loaded", "reloaded"},
           entity : Entity \cup {None}]

TypeOK ==
  /\ Store!TypeOK
  /\ counter \in [Aggregates -> Seq(Int)]
  /\ step \in [Clients -> {"idle", "load", "handle", "publish", "reload", "return"}]
  /\ command \in [Clients -> Calls \cup {None}]
  /\ entity \in [Clients -> Entity \cup {None}]
  /\ publishes \in [Clients -> 0..MaxPublishes]
  /\ accepted \in [Clients -> SUBSET Revisions]
  /\ answer \in [Clients -> Result \cup {None}]
  /\ executes \in 0..MaxExecutes

\* The business rule of the handlers holds of the stored events, although each
\* handler only checked it on the entity it had loaded: no decision is stored
\* that was made on a state somebody has changed since.
NeverBelowZero ==
  \A a \in Aggregates : \A i \in 1..Len(counter[a]) : counter[a][i] >= 0

\* A handler that publishes twice for the same entity has the second publish
\* refused: its first one has moved the stream.
OnePublishPerEntity ==
  \A c \in Clients : \A q, r \in accepted[c] : q = r

\* The entity a service loads or reloads is what the events up to its revision
\* render to, and a reloaded one shows what the handler published.
ReloadShowsOwnWrites ==
  \A c \in Clients :
    answer[c] # None /\ answer[c].kind \in {"loaded", "reloaded"} =>
      /\ \A r \in accepted[c] : r <= answer[c].entity.rev
      /\ \E k \in 0..Len(log[command[c].agg]) :
           LET s == SubSeq(log[command[c].agg], 1, k)
           IN answer[c].entity = [rev |-> RevisionOf(s), value |-> Render(command[c].agg, s)]

=============================================================================
