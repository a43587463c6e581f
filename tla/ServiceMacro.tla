---------------------------- MODULE ServiceMacro ----------------------------
(***************************************************************************)
(* What service!, #[handler] and #[loader] make of a declaration:          *)
(* crates/wee-events-macros, and the builders of crates/wee-events-restate *)
(* that the generated code meets.                                          *)
(*                                                                         *)
(* A declaration is parsed, expanded and given to rustc, modelled by what  *)
(* the macros leave to it.  What compiles can be called in process, and    *)
(* can be registered: effects are added until the type of the registration *)
(* says that none is missing, then all is attached to an endpoint, which   *)
(* Restate's ingress sends requests to.  RestateExecutor has the steps of  *)
(* one request, and its failures.                                          *)
(*                                                                         *)
(* A type is its last path segment with its arguments; a function is known *)
(* by its name, a sequence of characters.  A set of at most one element is *)
(* what a syn::Result holds.                                               *)
(***************************************************************************)
EXTENDS Naturals, FiniteSets, SequencesExt

CONSTANTS Functions,      \* the annotated functions, by name: see FunctionShape
          Declarations,   \* the invocations of service! to look at
          LowerCaseOf,    \* the lower case of each upper-case letter there is
          Uncased,        \* the characters that are neither, digits left out
          NoService       \* nothing there

Type(path, args) == [path |-> path, args |-> args]
Unit == Type("()", <<>>)
Ref(type) == Type("&", <<type>>)
AggregateId == Type("AggregateId", <<>>)
WeeError == Type("wee_events::Error", <<>>)

----------------------------------------------------------------------------
(* #[handler] and #[loader].  A function is                                *)
(*   [kind, args, generic, inputs, output, error, bounds]: the attribute,  *)
(* its arguments in their order, whether the function has a type parameter,*)
(* its other arguments' types, its return type as written and its true     *)
(* error, and the capabilities its type parameter is bound to.             *)

\* The last of the arguments of a key.
LastArg(args, key) ==
  LET at == {i \in DOMAIN args : args[i].key = key}
  IN {args[i].value : i \in {i \in at : \A j \in at : j <= i}}

ArgKeys(args) == {args[i].key : i \in DOMAIN args}

\* HandlerArgs::parse and LoaderArgs::parse
HandlerArgsParse(args) ==
  ArgKeys(args) \subseteq {"command", "requires"} /\ "command" \in ArgKeys(args)
LoaderArgsParse(args) == ArgKeys(args) \subseteq {"requires"}

\* result_ok_type(): the first argument of a Result.
ResultOk(type) == IF type.path = "Result" /\ type.args # <<>> THEN {type.args[1]} ELSE {}

\* result_error_type(): its second, or the crate's own error.
ResultError(type) ==
  IF type.path # "Result" \/ type.args = <<>> THEN {}
  ELSE {IF Len(type.args) = 1 THEN WeeError ELSE type.args[2]}

\* extract_state_from_entity_type()
EntityState(type) == IF type.path = "Entity" /\ type.args # <<>> THEN {type.args[1]} ELSE {}

\* extract_entity_arg_state(): of the first argument that is an &Entity<State>.
EntityArgState(inputs) ==
  LET at == {i \in DOMAIN inputs : inputs[i].path = "&" /\ EntityState(inputs[i].args[1]) # {}}
  IN UNION {EntityState(inputs[i].args[1]) : i \in {i \in at : \A j \in at : i <= j}}

\* extract_state_type() of a handler: of what it returns, or is given.
HandlerState(fn) ==
  UNION {IF ok = Unit THEN EntityArgState(fn.inputs) ELSE EntityState(ok) :
           ok \in ResultOk(fn.output)}

\* extract_state_type() and extract_error_type() of a loader, which returns a
\* Result<Entity<State>, Error>.
LoaderState(type) == UNION {EntityState(ok) : ok \in ResultOk(type)}
LoaderError(type) == ResultError(type)

\* expand_inner() of the two attributes: the spec of a function that needs a
\* context and of which everything is known; a loader's has no command.
HandlerSpecs(fn) ==
  IF ~HandlerArgsParse(fn.args) \/ ~fn.generic THEN {}
  ELSE {[command |-> LastArg(fn.args, "command"), state |-> s, error |-> e,
         requires |-> UNION LastArg(fn.args, "requires")] :
          s \in HandlerState(fn), e \in ResultError(fn.output)}

LoaderSpecs(fn) ==
  IF ~LoaderArgsParse(fn.args) \/ ~fn.generic THEN {}
  ELSE {[command |-> {}, state |-> s, error |-> e,
         requires |-> UNION LastArg(fn.args, "requires")] :
          s \in LoaderState(fn.output), e \in LoaderError(fn.output)}

SpecsOf(fn) == IF fn.kind = "handler" THEN HandlerSpecs(fn) ELSE LoaderSpecs(fn)

\* What rustc says of the function and its spec: the spec calls the function
\* with its own types, makes its future its own, and requires what it needs.
SpecCompiles(name, kind) ==
  /\ name \in DOMAIN Functions
  /\ Functions[name].kind = kind
  /\ \E spec \in SpecsOf(Functions[name]) :
       /\ Functions[name].inputs =
            IF kind = "loader" THEN <<Ref(AggregateId)>>
            ELSE <<Ref(Type("Entity", <<spec.state>>)), CHOOSE c \in spec.command : TRUE>>
       /\ spec.error = Functions[name].error
       /\ Functions[name].bounds \subseteq spec.requires

SpecOf(name) == CHOOSE spec \in SpecsOf(Functions[name]) : TRUE
CommandOf(handler) == CHOOSE c \in SpecOf(handler.fn).command : TRUE

----------------------------------------------------------------------------
(* service!  A declaration is [name, logical, state, body]; the body of the *)
(* short form lists commands, that of the full form has sections: a loader, *)
(* handlers, each with a wire name or NoService, and effects.              *)

\* to_snake_case(): an underscore before a capital that follows a lower-case
\* letter or a digit.
SnakeCase(name) ==
  LET Push(acc, c) ==
        IF c \in DOMAIN LowerCaseOf
          THEN [text |-> acc.text \o (IF acc.prevLower THEN <<"_">> ELSE <<>>)
                           \o <<LowerCaseOf[c]>>,
                prevLower |-> FALSE]
          ELSE [text |-> Append(acc.text, c), prevLower |-> c \notin Uncased]
  IN FoldLeft(Push, [text |-> <<>>, prevLower |-> FALSE], name).text

ServiceName(d) == IF d.logical = NoService THEN SnakeCase(d.name) ELSE d.logical

IsFull(d) == d.body.form = "full"

\* Lists are sequences, and NoService is no type.
ASSUME DeclarationAssumption ==
  \A d \in Declarations : IsFull(d) =>
    /\ d.body.handlers \in Seq(ToSet(d.body.handlers))
    /\ d.body.effects \in Seq(ToSet(d.body.effects))
ASSUME FunctionAssumption ==
  \A name \in DOMAIN Functions : NoService \notin ToSet(Functions[name].inputs)

\* ServiceInput::parse: sections in this order, the last one optional, and an
\* EffectFilterSpec that is known.
DeclarationParses(d) ==
  IsFull(d) =>
    /\ d.body.sections \in {<<"loader", "handlers">>, <<"loader", "handlers", "effects">>}
    /\ \A i \in DOMAIN d.body.effects :
         d.body.effects[i].filter.on \in {"all", "commands", "predicate"}

Handlers(d) == d.body.handlers
Effects(d) == IF "effects" \in ToSet(d.body.sections) THEN d.body.effects ELSE <<>>

LoaderWire(d) == IF d.body.loader.wire = NoService THEN <<"l", "o", "a", "d">> ELSE d.body.loader.wire
HandlerWire(d, i) ==
  IF Handlers(d)[i].wire = NoService THEN SnakeCase(Handlers(d)[i].fn) ELSE Handlers(d)[i].wire

\* Mutant of WireNamesDiffer: the loader's name is not among those seen.
HandlerWiresDiffer(d) ==
  \A i, j \in DOMAIN Handlers(d) : HandlerWire(d, i) = HandlerWire(d, j) => i = j

\* The collision check of generate_full().
WireNamesDiffer(d) ==
  \A i \in DOMAIN Handlers(d) :
    /\ HandlerWire(d, i) # LoaderWire(d)
    /\ \A j \in DOMAIN Handlers(d) : HandlerWire(d, i) = HandlerWire(d, j) => i = j

Commands(d) ==
  IF IsFull(d) THEN [i \in DOMAIN Handlers(d) |-> CommandOf(Handlers(d)[i])] ELSE d.body.commands

\* What the expansion leaves to rustc: no two impls of one trait for one
\* command, no two effect markers of one name, and one state throughout.
ExpansionCompiles(d) ==
  IF ~IsFull(d) THEN IsInjective(d.body.commands)
  ELSE /\ SpecCompiles(d.body.loader.fn, "loader") /\ SpecOf(d.body.loader.fn).state = d.state
       /\ \A i \in DOMAIN Handlers(d) :
            /\ SpecCompiles(Handlers(d)[i].fn, "handler")
            /\ SpecOf(Handlers(d)[i].fn).state = d.state
       /\ IsInjective(Commands(d))
       /\ \A i, j \in DOMAIN Effects(d) : Effects(d)[i].workflow = Effects(d)[j].workflow => i = j

\* The binding's methods: identifiers, wire names and functions are zipped.
LoaderMethod(d) == [wire |-> LoaderWire(d), fn |-> d.body.loader.fn, command |-> NoService]
HandlerMethod(d, i) ==
  [wire |-> HandlerWire(d, i), fn |-> Handlers(d)[i].fn, command |-> CommandOf(Handlers(d)[i])]
Methods(d) == <<LoaderMethod(d)>> \o [i \in DOMAIN Handlers(d) |-> HandlerMethod(d, i)]

\* remaining_type_for_subset(): Needs<first, Needs<second, .. Ready>>, in the
\* order of the declaration.
RemainingEffects(subset) ==
  CHOOSE remaining \in [1..Cardinality(subset) -> subset] :
    \A i, j \in DOMAIN remaining : i < j => remaining[i] < remaining[j]

\* The impls of WithEffect: for each subset, one for each effect in it.
WithEffectImpls(d) ==
  UNION {{[input |-> RemainingEffects(subset), marker |-> i,
           output |-> RemainingEffects(subset \ {i})] : i \in subset} :
           subset \in SUBSET DOMAIN Effects(d)}

----------------------------------------------------------------------------

VARIABLES service,       \* the declaration that was compiled, or NoService
          refused,       \* the declaration that was refused, or NoService
          registration,  \* [remaining, effects], or NoService
          endpoint,      \* what is attached to the endpoint, or NoService
          outcome        \* what the last call came to, or NoService

serviceVars == <<service, refused, registration, endpoint, outcome>>

ServiceInit ==
  /\ service = NoService
  /\ refused = NoService
  /\ registration = NoService
  /\ endpoint = NoService
  /\ outcome = NoService

\* cargo build
Compile(d) ==
  /\ service = NoService /\ refused = NoService
  /\ IF DeclarationParses(d) /\ (IsFull(d) => WireNamesDiffer(d)) /\ ExpansionCompiles(d)
       THEN service' = d /\ UNCHANGED refused
       ELSE refused' = d /\ UNCHANGED service
  /\ UNCHANGED <<registration, endpoint, outcome>>

\* create(), with_store(), with_env(): register().
CreateRegistration ==
  /\ service # NoService /\ IsFull(service)
  /\ registration = NoService /\ endpoint = NoService
  /\ registration' = [remaining |-> RemainingEffects(DOMAIN Effects(service)),
                      effects |-> <<>>]
  /\ UNCHANGED <<service, refused, endpoint, outcome>>

\* with_effect(), if there is an impl of it.
WithEffect(i) ==
  /\ registration # NoService
  /\ \E impl \in WithEffectImpls(service) :
       /\ impl.input = registration.remaining /\ impl.marker = i
       /\ registration' = [remaining |-> impl.output,
                           effects |-> Append(registration.effects, Effects(service)[i].workflow)]
  /\ UNCHANGED <<service, refused, endpoint, outcome>>

\* attach_to(), which only a Registration<.., Ready> has: the object, then the
\* effects one by one.
AttachTo ==
  /\ registration # NoService
  /\ registration.remaining = <<>>
  /\ endpoint' = [object |-> [name |-> ServiceName(service), methods |-> Methods(service)],
                  workflows |-> registration.effects]
  /\ registration' = NoService
  /\ UNCHANGED <<service, refused, outcome>>

----------------------------------------------------------------------------
(* Calls.  A handler that returns unit makes the service load again.       *)

ReturnsUnit(name) == ResultOk(Functions[name].output) = {Unit}

\* dispatch_command() and the closure of a binding's method: the functions
\* that run.
Dispatched(d, fn) ==
  <<d.body.loader.fn, fn>> \o (IF ReturnsUnit(fn) THEN <<d.body.loader.fn>> ELSE <<>>)

Ran(functions) == [kind |-> "ran", functions |-> functions]
Failed(kind) == [kind |-> kind, functions |-> <<>>]

Call(via, command, result) ==
  /\ outcome = NoService
  /\ outcome' = [via |-> via, command |-> command, result |-> result]
  /\ UNCHANGED <<service, refused, registration, endpoint>>

\* execute() of the in-process service: a command without an impl does not
\* compile.
CallInProcess(command) ==
  /\ service # NoService /\ IsFull(service)
  /\ \E i \in DOMAIN Handlers(service) :
       /\ CommandOf(Handlers(service)[i]) = command
       /\ Call("process", command, Ran(Dispatched(service, Handlers(service)[i].fn)))

LoadInProcess ==
  /\ service # NoService /\ IsFull(service)
  /\ Call("process", NoService, Ran(<<service.body.loader.fn>>))

\* The loader's method and the handlers': parse the key, run.
LoadMethod(method, keyParses) == IF keyParses THEN Ran(<<method.fn>>) ELSE Failed("bad_key")
CommandMethod(method, keyParses) ==
  IF keyParses THEN Ran(Dispatched(service, method.fn)) ELSE Failed("bad_key")

\* The ingress looks the object and the method up and decodes the command; the
\* loader's method has none.
Served(name, wire, command, keyParses) ==
  LET at == {m \in ToSet(endpoint.object.methods) : m.wire = wire}
  IN IF endpoint.object.name # name \/ at = {} THEN {Failed("not_found")}
     ELSE {IF m.command # command THEN Failed("undecodable")
           ELSE IF command = NoService THEN LoadMethod(m, keyParses)
           ELSE CommandMethod(m, keyParses) : m \in at}

\* A request to the object, for a wire name.
CallIngress(wire, command, keyParses) ==
  /\ endpoint # NoService
  /\ \E result \in Served(ServiceName(service), wire, command, keyParses) :
       Call("ingress", command, result)

\* names.rs: the services a RestateClient asks for.
ExecutorName(base) == base \o <<"-side-effect-executor">>
LoaderName(base) == base \o <<"-side-effect-loader">>

\* RestateClient: execute() for a command of the definition, and load().
CallClient(command) ==
  /\ endpoint # NoService
  /\ command \in ToSet(Commands(service)) \cup {NoService}
  /\ \E result \in
          IF command = NoService
            THEN Served(LoaderName(ServiceName(service)), <<"l", "o", "a", "d">>, command, TRUE)
            ELSE Served(ExecutorName(ServiceName(service)), <<"r", "u", "n">>, command, TRUE) :
       Call("client", command, result)

CallEnds ==
  /\ outcome # NoService
  /\ outcome' = NoService
  /\ UNCHANGED <<service, refused, registration, endpoint>>

CommandsInUse == {NoService} \cup UNION {ToSet(Commands(d)) : d \in {service} \ {NoService}}
EffectsInUse ==
  IF service # NoService /\ IsFull(service) THEN DOMAIN Effects(service) ELSE {}
WiresInUse == IF endpoint = NoService THEN {} ELSE {m.wire : m \in ToSet(endpoint.object.methods)}

ServiceNext ==
  \/ \E d \in Declarations : Compile(d)
  \/ CreateRegistration
  \/ \E i \in EffectsInUse : WithEffect(i)
  \/ AttachTo
  \/ \E command \in CommandsInUse :
       \/ CallInProcess(command)
       \/ CallClient(command)
       \/ \E wire \in WiresInUse, keyParses \in BOOLEAN : CallIngress(wire, command, keyParses)
  \/ LoadInProcess
  \/ CallEnds

ServiceSpec == ServiceInit /\ [][ServiceNext]_serviceVars

----------------------------------------------------------------------------

\* The handler a declaration has for a command: the one whose signature names it.
HandlerFor(d, command) ==
  {h.fn : h \in {h \in ToSet(Handlers(d)) : Last(Functions[h.fn].inputs) = command}}

\* Effects can be registered in whatever order: the types of the registration
\* let any one that is missing come next, never leave what is missing without
\* an impl, and let each come once, whatever the subset that is left.
AnyOrderRegisters ==
  registration # NoService =>
    /\ IsInjective(registration.effects)
    /\ ToSet(registration.effects)
         = {Effects(service)[i].workflow :
              i \in DOMAIN Effects(service) \ ToSet(registration.remaining)}
    /\ \A i \in ToSet(registration.remaining) :
         \E impl \in WithEffectImpls(service) :
           /\ impl.input = registration.remaining /\ impl.marker = i
           /\ ToSet(impl.output) = ToSet(registration.remaining) \ {i}

\* What an endpoint serves is what was declared, although names are derived,
\* zipped and compared by the macro: each wire name leads to one function, each
\* command to the one handler that takes it, and each effect is attached once.
EndpointIsDeclared ==
  endpoint # NoService =>
    LET methods == endpoint.object.methods
        declared == {service.body.loader.fn} \cup {h.fn : h \in ToSet(Handlers(service))}
    IN /\ \A i, j \in DOMAIN methods : methods[i].wire = methods[j].wire => i = j
       /\ {m.fn : m \in ToSet(methods)} = declared
       /\ \A m \in ToSet(methods) :
            m.command # NoService => HandlerFor(service, m.command) = {m.fn}
       /\ IsInjective(endpoint.workflows)
       /\ ToSet(endpoint.workflows) = {e.workflow : e \in ToSet(Effects(service))}

\* What is served is what was declared, however it was put together.
ServedAsDeclared == EndpointIsDeclared /\ AnyOrderRegisters

\* README.md: "Generated in-process services and Restate clients implement
\* TypedService<S> + Handles<C>, so business logic can be written once and work
\* with either backend": what a RestateClient sends runs.
ClientReachesBinding ==
  outcome # NoService /\ outcome.via = "client" => outcome.result.kind = "ran"

=============================================================================
