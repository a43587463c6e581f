--------------------------- MODULE RestateExecutor ---------------------------
(***************************************************************************)
(* The Restate binding that service! generates                             *)
(* (crates/wee-events-macros/src/service_macro.rs, and wee-events-restate),*)
(* composed with Service.                                                  *)
(*                                                                         *)
(* A command is an invocation of a virtual object keyed by its aggregate.  *)
(* Restate runs one invocation per key at a time, and runs it on a worker  *)
(* until its journal holds the result of ctx.run(): the closure that       *)
(* loads, handles, reloads and makes the notification with its correlation *)
(* id.  A worker that dies or is given up on before that is replaced by    *)
(* another, which executes the closure again; one given up on may well be  *)
(* alive and go on.  From the journalled notification the handler sends    *)
(* each matching effect to the workflow keyed by the correlation id, and   *)
(* answers.  Restate itself is modelled by what this code relies on.       *)
(***************************************************************************)
EXTENDS Service   \* Clients are the workers

CONSTANTS Invocations,
          Effects,      \* the effects of the service
          FilterOf,     \* FilterOf[e]: the command names effect e wants
          MaxLost       \* bound on the attempts lost

ASSUME EffectAssumption ==
  FilterOf \in [Effects -> SUBSET {"increment", "decrement"}]
ASSUME LostAssumption == MaxLost \in Nat

VARIABLES status,    \* "new", "queued", "running" or "done"
          request,   \* the command of each invocation, or None
          attempt,   \* the worker Restate is waiting for, or None
          running,   \* running[w]: the invocation whose closure w executes
          journal,   \* the journalled result of ctx.run(), or None
          sent,      \* the effects whose send is journalled
          workflows, \* the effect workflows started
          minted,    \* correlation ids minted so far
          lost,      \* attempts lost so far
          writes     \* history: batches stored by the closures of each invocation

invocationVars == <<status, request, attempt, journal, sent>>
restateVars == <<vars, invocationVars, running, workflows, minted, lost, writes>>

\* A journalled result of ctx.run(), with the correlation id minted in it.
JournalEntry == [result : Result, id : Nat]

ASSUME InvocationAssumption == None \notin Invocations /\ None \notin JournalEntry

----------------------------------------------------------------------------

RestateInit ==
  /\ Init
  /\ status = [i \in Invocations |-> "new"]
  /\ request = [i \in Invocations |-> None]
  /\ attempt = [i \in Invocations |-> None]
  /\ running = [w \in Clients |-> None]
  /\ journal = [i \in Invocations |-> None]
  /\ sent = [i \in Invocations |-> {}]
  /\ workflows = {}
  /\ minted = 0
  /\ lost = 0
  /\ writes = [i \in Invocations |-> 0]

\* A client's request arrives.
Submit(i, cmd) ==
  /\ status[i] = "new"
  /\ status' = [status EXCEPT ![i] = "queued"]
  /\ request' = [request EXCEPT ![i] = cmd]
  /\ UNCHANGED <<vars, attempt, running, journal, sent, workflows, minted, lost, writes>>

\* Mutant of KeyIsFree: a service without keys.
NoKeys(i) == TRUE

\* ObjectContext: no other invocation is running on this key.
KeyIsFree(i) ==
  \A j \in Invocations : status[j] = "running" => request[j].agg # request[i].agg

\* A worker begins, or begins again, to execute the closure of i.
Attempt(i, w) ==
  /\ running[w] = None
  /\ Execute(w, request[i])
  /\ attempt' = [attempt EXCEPT ![i] = w]
  /\ running' = [running EXCEPT ![w] = i]
  /\ UNCHANGED <<request, journal, sent, workflows, minted, lost, writes>>

Start(i, w) ==
  /\ status[i] = "queued"
  /\ KeyIsFree(i)
  /\ status' = [status EXCEPT ![i] = "running"]
  /\ Attempt(i, w)

\* Mutant of Retry: a journalled result is not looked for.
RetryAnyway(i, w) ==
  /\ status[i] = "running"
  /\ attempt[i] = None
  /\ Attempt(i, w)
  /\ UNCHANGED status

\* The closure has no journalled result yet: it is executed again.
Retry(i, w) ==
  /\ status[i] = "running"
  /\ attempt[i] = None
  /\ journal[i] = None
  /\ Attempt(i, w)
  /\ UNCHANGED status

\* The loader, the handler, the reload and the store at work.
Closure(w) ==
  /\ running[w] # None
  /\ step[w] # "return"
  /\ Proceed(w)
  /\ writes' = IF log' = log THEN writes ELSE [writes EXCEPT ![running[w]] = @ + 1]
  /\ UNCHANGED <<invocationVars, running, workflows, minted, lost>>

Succeeded(result) == result.kind \in {"entity", "reloaded"}

\* Mutant of JournalResult: errors are not terminal, but retried.
JournalSuccess(i) ==
  /\ attempt[i] # None
  /\ LET w == attempt[i]
     IN /\ step[w] = "return"
        /\ IF Succeeded(answer[w])
             THEN journal' = [journal EXCEPT ![i] = [result |-> answer[w], id |-> minted + 1]]
             ELSE UNCHANGED journal
        /\ minted' = minted + 1
        /\ Return(w)
        /\ running' = [running EXCEPT ![w] = None]
  /\ attempt' = [attempt EXCEPT ![i] = None]
  /\ UNCHANGED <<status, request, sent, workflows, lost, writes>>

\* The closure's result, with a correlation id minted in it, is journalled: a
\* notification, or a terminal error.
JournalResult(i) ==
  /\ attempt[i] # None
  /\ LET w == attempt[i]
     IN /\ step[w] = "return"
        /\ journal' = [journal EXCEPT ![i] = [result |-> answer[w], id |-> minted + 1]]
        /\ minted' = minted + 1
        /\ Return(w)
        /\ running' = [running EXCEPT ![w] = None]
  /\ attempt' = [attempt EXCEPT ![i] = None]
  /\ UNCHANGED <<status, request, sent, workflows, lost, writes>>

\* A worker Restate has given up on comes to the end: nobody listens.
Abandon(w) ==
  /\ running[w] # None
  /\ attempt[running[w]] # w
  /\ step[w] = "return"
  /\ Return(w)
  /\ running' = [running EXCEPT ![w] = None]
  /\ UNCHANGED <<invocationVars, workflows, minted, lost, writes>>

\* SideEffectFilter
Matches(e, i) == request[i].name \in FilterOf[e]

\* The workflow run that a notification starts, keyed by its correlation id.
Workflow(e, i, id, result) ==
  [effect |-> e, inv |-> i, id |-> id, agg |-> request[i].agg, rev |-> result.entity.rev]

\* Mutant of Dispatch: the effects are sent from within the closure.
DispatchInClosure(i, e) ==
  /\ attempt[i] # None
  /\ step[attempt[i]] = "return"
  /\ Succeeded(answer[attempt[i]])
  /\ Matches(e, i)
  /\ minted' = minted + 1
  /\ workflows' = workflows \cup {Workflow(e, i, minted + 1, answer[attempt[i]])}
  /\ sent' = [sent EXCEPT ![i] = @ \cup {e}]
  /\ UNCHANGED <<vars, status, request, attempt, journal, running, lost, writes>>

\* The notification is sent to the workflow of an effect that wants it, under
\* the journalled correlation id.
Dispatch(i, e) ==
  /\ status[i] = "running"
  /\ journal[i] # None
  /\ Succeeded(journal[i].result)
  /\ Matches(e, i)
  /\ e \notin sent[i]
  /\ workflows' = workflows \cup {Workflow(e, i, journal[i].id, journal[i].result)}
  /\ sent' = [sent EXCEPT ![i] = @ \cup {e}]
  /\ UNCHANGED <<vars, status, request, attempt, journal, running, minted,
                 lost, writes>>

\* Mutant of AnswerClient: answered as soon as the result is there.
AnswerAtOnce(i) ==
  /\ status[i] = "running"
  /\ journal[i] # None
  /\ status' = [status EXCEPT ![i] = "done"]
  /\ UNCHANGED <<vars, request, attempt, journal, sent, running, workflows,
                 minted, lost, writes>>

\* The handler answers with the entity, after its sends, or with the error.
AnswerClient(i) ==
  /\ status[i] = "running"
  /\ journal[i] # None
  /\ Succeeded(journal[i].result) => \A e \in Effects : Matches(e, i) => e \in sent[i]
  /\ status' = [status EXCEPT ![i] = "done"]
  /\ UNCHANGED <<vars, request, attempt, journal, sent, running, workflows,
                 minted, lost, writes>>

----------------------------------------------------------------------------
(* Losses *)

Lose == lost < MaxLost /\ lost' = lost + 1

\* Restate gives up on the worker of an attempt, which goes on all the same.
Disconnected(i) ==
  /\ Lose
  /\ attempt[i] # None
  /\ attempt' = [attempt EXCEPT ![i] = None]
  /\ UNCHANGED <<vars, status, request, journal, sent, running, workflows,
                 minted, writes>>

\* The worker dies.
Crashed(w) ==
  /\ Lose
  /\ running[w] # None
  /\ IF step[w] = "return" THEN Return(w) ELSE Dropped(w)
  /\ attempt' = [i \in Invocations |-> IF attempt[i] = w THEN None ELSE attempt[i]]
  /\ running' = [running EXCEPT ![w] = None]
  /\ UNCHANGED <<status, request, journal, sent, workflows, minted, writes>>

----------------------------------------------------------------------------

\* What Restate does for an invocation.
Drive(i) ==
  \/ \E w \in Clients : Start(i, w) \/ Retry(i, w)
  \/ JournalResult(i)
  \/ \E e \in Effects : Dispatch(i, e)
  \/ AnswerClient(i)

\* What a worker does.
Work(w) == Closure(w) \/ Abandon(w)

RestateNext ==
  \/ \E i \in Invocations :
       \/ \E cmd \in Command : Submit(i, cmd)
       \/ Drive(i)
       \/ Disconnected(i)
  \/ \E w \in Clients : Work(w) \/ Crashed(w)

\* Restate drives every invocation to its end, taking those that wait for a
\* key in turn, and live workers keep working.
Fairness ==
  /\ \A i \in Invocations : SF_restateVars(Drive(i))
  /\ \A w \in Clients : WF_restateVars(Work(w))

RestateSpec == RestateInit /\ [][RestateNext]_restateVars /\ Fairness

----------------------------------------------------------------------------

RestateTypeOK ==
  /\ TypeOK
  /\ status \in [Invocations -> {"new", "queued", "running", "done"}]
  /\ request \in [Invocations -> Command \cup {None}]
  /\ attempt \in [Invocations -> Clients \cup {None}]
  /\ running \in [Clients -> Invocations \cup {None}]
  /\ journal \in [Invocations -> JournalEntry \cup {None}]
  /\ sent \in [Invocations -> SUBSET Effects]
  /\ workflows \subseteq [effect : Effects, inv : Invocations, id : Nat,
                          agg : Aggregates, rev : {Zero} \cup Revisions]
  /\ minted \in Nat
  /\ lost \in 0..MaxLost
  /\ writes \in [Invocations -> Nat]

\* A command is applied at most once, unless a worker was lost: its closure is
\* executed again only when its result did not reach the journal.
AppliedOnceUnlessLost ==
  \A i \in Invocations : writes[i] > 1 => lost > 0

\* One command at a time per aggregate: a handler that publishes once sees no
\* conflict, unless a lost worker is still at it.
NoConflictUnlessLost ==
  \A i \in Invocations :
    journal[i] # None /\ journal[i].result.kind = "conflict" => lost > 0

\* However often the closure was executed, an invocation starts each effect at
\* most once, and tells it a revision that the stream has reached.
OneWorkflowPerEffect ==
  /\ RestateTypeOK
  /\ \A x, y \in workflows : x.inv = y.inv /\ x.effect = y.effect => x = y
  /\ \A x \in workflows : x.rev <= RevisionOf(log[x.agg])

\* An invocation that was answered has started exactly the effects its command
\* calls for: all that match after a success, none after an error.
EffectsMatchAnswer ==
  \A i \in Invocations : status[i] = "done" =>
    {x.effect : x \in {x \in workflows : x.inv = i}} =
      {e \in Effects : Succeeded(journal[i].result) /\ Matches(e, i)}

\* Every command is answered, also after lost workers, stale ones and errors.
EveryCommandAnswered ==
  \A i \in Invocations : status[i] = "queued" ~> status[i] = "done"

=============================================================================
