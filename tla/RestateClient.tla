---------------------------- MODULE RestateClient ----------------------------
(***************************************************************************)
(* RestateClient, which sends commands to a service over HTTP:             *)
(* crates/wee-events-restate/src: client.rs, generated.rs, and of lib.rs   *)
(* what an error looks like on the other side.                             *)
(*                                                                         *)
(* Every command is the run of a workflow of the service's executor: of a  *)
(* workflow of its own, or of the one the caller's idempotency key names.  *)
(* Restate, which is external, runs a workflow once and answers whoever    *)
(* asks for it with what that run came to.  A connection may break before  *)
(* the status of the answer is here, or in its body: the caller then knows *)
(* nothing, or that the status was an error; it may send the command again, *)
(* and the request may be served none the less, at any later time, or never. *)
(***************************************************************************)
EXTENDS Naturals, FiniteSets

CONSTANTS Callers,
          Intents,        \* what callers want done: each is one command
          KeyOf,          \* the idempotency key an intent comes with, or NoKey
          NoKey,
          MaxSends,       \* bound on the requests sent
          MaxDrops        \* bound on the connections that break

\* A correlation id is no caller's idempotency key.
ASSUME KeyAssumption ==
  /\ NoKey \notin Intents \cup Nat
  /\ \A i \in Intents : KeyOf[i] \notin Nat

VARIABLES intent,     \* what each caller wants now, or NoKey
          waiting,    \* the number of the request it waits for, or NoKey
          requests,   \* the requests on their way: [n, id, intent]
          answered,   \* the answer on its way: see Body; or NoKey
          returned,   \* what execute() returned, or NoKey
          runs,       \* runs[id]: the intent that workflow ran, and what came of it
          sends, drops

clientVars == <<intent, waiting, requests, answered, returned, runs, sends, drops>>

ClientInit ==
  /\ intent = [c \in Callers |-> NoKey]
  /\ waiting = [c \in Callers |-> NoKey]
  /\ requests = {}
  /\ answered = [c \in Callers |-> NoKey]
  /\ returned = [c \in Callers |-> NoKey]
  /\ runs = [id \in {} |-> NoKey]
  /\ sends = 0
  /\ drops = 0

\* Errors that do not say what failed.
TransportError == [kind |-> "transport", of |-> NoKey]
DecodeError == [kind |-> "decode", of |-> NoKey]

\* POST {ingress}/{executor}/{id}/run
Post(c, i, id) ==
  /\ intent[c] = NoKey
  /\ sends < MaxSends
  /\ sends' = sends + 1
  /\ intent' = [intent EXCEPT ![c] = i]
  /\ waiting' = [waiting EXCEPT ![c] = sends']
  /\ requests' = requests \cup {[n |-> sends', id |-> id, intent |-> i]}
  /\ UNCHANGED <<answered, returned, runs, drops>>

\* execute(): the id is the correlation id, which ends in a nanoid.
ClientExecute(c, i) == KeyOf[i] = NoKey /\ Post(c, i, sends + 1)

\* dispatch_command(): the command does not serialize, which is the same error
\* as an answer that does not decode, and nothing is sent.
EncodingFails(c, i) ==
  /\ KeyOf[i] = NoKey
  /\ intent[c] = NoKey
  /\ intent' = [intent EXCEPT ![c] = i]
  /\ returned' = [returned EXCEPT ![c] = DecodeError]
  /\ UNCHANGED <<waiting, requests, answered, runs, sends, drops>>

\* Mutant of ExecuteIdempotent: the key is metadata, the correlation id the id.
ExecuteFresh(c, i) == KeyOf[i] # NoKey /\ Post(c, i, sends + 1)

\* execute_idempotent(): the id is the idempotency key.
ExecuteIdempotent(c, i) == KeyOf[i] # NoKey /\ Post(c, i, KeyOf[i])

\* What a command comes to: an entity, a rejection, or another error.
Outcomes == {"entity", "rejected", "failed"}

\* to_entity_response()
EntityBody(i) == [ok |-> TRUE, form |-> "entity", rejection |-> NoKey, of |-> i]

\* IntoHandlerError: a rejection is JSON in the message of a terminal error,
\* any other error is text; Restate puts the message in an envelope.
ErrorBody(outcome, i) ==
  [ok |-> FALSE, form |-> "envelope", of |-> i,
   rejection |-> IF outcome = "rejected" THEN i ELSE NoKey]

Body(outcome, i) == IF outcome = "entity" THEN EntityBody(i) ELSE ErrorBody(outcome, i)

Run(request, outcome) ==
  IF request.id \in DOMAIN runs THEN runs
  ELSE [id \in DOMAIN runs \cup {request.id} |->
          IF id = request.id THEN [intent |-> request.intent, outcome |-> outcome] ELSE runs[id]]

\* The executor: the workflow runs the first time it is asked for, and who
\* still waits is answered.
ExecutorServes(request, outcome) ==
  /\ request.id \in DOMAIN runs => outcome = runs[request.id].outcome
  /\ runs' = Run(request, outcome)
  /\ requests' = requests \ {request}
  /\ answered' = [c \in Callers |->
       IF waiting[c] = request.n THEN Body(outcome, runs'[request.id].intent) ELSE answered[c]]
  /\ UNCHANGED <<intent, waiting, returned, sends, drops>>

\* Mutant of ErrorOf: the envelope is not looked into.
ErrorOfBare(body) ==
  IF body.form = "bare" THEN [kind |-> "rejection", of |-> body.rejection]
  ELSE [kind |-> "backend", of |-> body.of]

\* parse_error_response(): a rejection, bare or as the message of an envelope,
\* or the text as it is.
ErrorOf(body) ==
  IF body.form \in {"bare", "envelope"} /\ body.rejection # NoKey
    THEN [kind |-> "rejection", of |-> body.rejection]
    ELSE [kind |-> "backend", of |-> body.of]

\* unwrap_or_default(): the text of a body that cannot be read.
NoText == [ok |-> FALSE, form |-> "text", rejection |-> NoKey, of |-> NoKey]

\* Mutant of BrokenOff: an entity that cannot be read is a default one, too.
BrokenOffDefault(body) ==
  IF body.ok THEN [kind |-> "entity", of |-> NoKey] ELSE ErrorOf(NoText)

\* The status is here, the body is not: resp.json() fails, resp.text() is empty.
BrokenOff(body) == IF body.ok THEN TransportError ELSE ErrorOf(NoText)

\* parse_entity_response(): the client's type of the state may not decode it.
EntityResults(body) == {[kind |-> "entity", of |-> body.of], DecodeError}

ReturnsTo(c, result) ==
  /\ returned' = [returned EXCEPT ![c] = result]
  /\ waiting' = [waiting EXCEPT ![c] = NoKey]
  /\ answered' = [answered EXCEPT ![c] = NoKey]
  /\ UNCHANGED <<intent, requests, runs, sends>>

\* The whole answer is here: the status is looked at, then the body.
Receive(c) ==
  /\ answered[c] # NoKey
  /\ \E result \in IF answered[c].ok THEN EntityResults(answered[c]) ELSE {ErrorOf(answered[c])} :
       ReturnsTo(c, result)
  /\ UNCHANGED drops

Drop == drops < MaxDrops /\ drops' = drops + 1

\* The connection breaks after the status of the answer, before its end.
BodyBreaksOff(c) ==
  /\ Drop
  /\ answered[c] # NoKey
  /\ ReturnsTo(c, BrokenOff(answered[c]))

\* send() fails: the connection breaks before there is a status.
TransportFails(c) ==
  /\ Drop
  /\ waiting[c] # NoKey
  /\ ReturnsTo(c, TransportError)

\* The caller goes on, perhaps with the same intent again.
GoOn(c) ==
  /\ returned[c] # NoKey
  /\ returned' = [returned EXCEPT ![c] = NoKey]
  /\ intent' = [intent EXCEPT ![c] = NoKey]
  /\ UNCHANGED <<waiting, requests, answered, runs, sends, drops>>

ClientNext ==
  \/ \E c \in Callers :
       \/ \E i \in Intents : ClientExecute(c, i) \/ EncodingFails(c, i) \/ ExecuteIdempotent(c, i)
       \/ Receive(c)
       \/ BodyBreaksOff(c)
       \/ TransportFails(c)
       \/ GoOn(c)
  \/ \E request \in requests, outcome \in Outcomes : ExecutorServes(request, outcome)

ClientSpec == ClientInit /\ [][ClientNext]_clientVars

----------------------------------------------------------------------------

RunsOf(i) == {id \in DOMAIN runs : runs[id].intent = i}

\* What may be said of a run: its entity, or that it could not be decoded; its
\* rejection, or an error without text; its error, or one without text.
MayBeTold(id) ==
  CASE runs[id].outcome = "entity" -> {[kind |-> "entity", of |-> runs[id].intent], DecodeError}
    [] runs[id].outcome = "rejected" ->
         {[kind |-> "rejection", of |-> runs[id].intent], [kind |-> "backend", of |-> NoKey]}
    [] runs[id].outcome = "failed" ->
         {[kind |-> "backend", of |-> runs[id].intent], [kind |-> "backend", of |-> NoKey]}

\* A connection that broke tells nothing, and without a key neither does what
\* could not be decoded, which may never have been sent.
TellsNothing(i, result) ==
  result.kind = "transport" \/ (result.kind = "decode" /\ KeyOf[i] = NoKey)

\* Whatever got lost, broke off or was sent again, by whomever: an intent with a
\* key of its own has run at most once, and a caller who was told something was
\* told what came of the run its key names.  A backend error without text says
\* no more than that this run ended in no entity: it may have been rejected.
ToldWhatHappened ==
  /\ \A i \in Intents : KeyOf[i] # NoKey => Cardinality(RunsOf(i)) <= 1
  /\ \A c \in Callers :
       returned[c] # NoKey /\ ~TellsNothing(intent[c], returned[c]) =>
         \E id \in DOMAIN runs :
           /\ KeyOf[runs[id].intent] = KeyOf[intent[c]]
           /\ KeyOf[intent[c]] = NoKey => runs[id].intent = intent[c]
           /\ returned[c] \in MayBeTold(id)

=============================================================================
