------------------------------ MODULE MCParts ------------------------------
(* TLC instance of the parts that share no state with a store's inside: one *)
(* run looks at the renderer, at names, at the macros, at the remote client *)
(* or at services, as `subject' says from the start; the others stand still. *)
EXTENDS Renderer, PartitionNames, ServiceMacro, RestateClient, Service

CONSTANTS Subjects, pay, refund, ping, k1

VARIABLE subject

partsVars ==
  <<subject, rendererVars, namesVars, serviceVars, clientVars, vars>>

PartsInit ==
  /\ subject \in Subjects
  /\ RendererInit /\ ServiceInit /\ ClientInit /\ Init
  /\ NamesInit
  /\ subject # "names" => strategy = "global" /\ catalog = "single"

PartsNext ==
  /\ UNCHANGED subject
  /\ \/ /\ subject = "renderer" /\ RendererNext
        /\ UNCHANGED <<namesVars, serviceVars, clientVars, vars>>
     \/ /\ subject = "names" /\ NamesNext
        /\ UNCHANGED <<rendererVars, serviceVars, clientVars, vars>>
     \/ /\ subject = "macro" /\ ServiceNext
        /\ UNCHANGED <<rendererVars, namesVars, clientVars, vars>>
     \/ /\ subject = "client" /\ ClientNext
        /\ UNCHANGED <<rendererVars, namesVars, serviceVars, vars>>
     \/ /\ subject = "service" /\ Next
        /\ UNCHANGED <<rendererVars, namesVars, serviceVars, clientVars>>

PartsSpec == PartsInit /\ [][PartsNext]_partsVars /\ RendererFairness

----------------------------------------------------------------------------
(* The renderer *)

SeqsUpTo(S, n) == UNION {[1..m -> S] : m \in 0..n}

\* One glob pattern against one event type: all patterns there are over two
\* letters and the star, up to four characters; all event types of four letters,
\* and those of two characters that may be stars.
DeepRules ==
  [kind : {"glob"}, text : SeqsUpTo({"a", "b", Star}, 4) \ {<<>>}, action : {"reduce"}]
DeepStreams ==
  {<<[type |-> t, valid |-> TRUE]>> :
     t \in SeqsUpTo({"a", "b"}, 4) \cup SeqsUpTo({"a", "b", Star}, 2)}

\* Up to two rules that overlap, on streams of up to two events.
WideRules ==
  {[kind |-> p[1], text |-> p[2], action |-> act] :
     p \in {<<"exact", <<"a">> >>, <<"exact", <<"a", "b">> >>,
            <<"glob", <<"a", Star>> >>, <<"glob", <<Star, "b">> >>},
     act \in {"reduce", "ignore"}}
WideStreams ==
  SeqsUpTo([type : {<<"a">>, <<"a", "b">>, <<"b">>}, valid : BOOLEAN], 2)

RulesToAdd(rs) ==
  IF rs = <<>> THEN DeepRules \cup WideRules
  ELSE IF Len(rs) = 1 /\ rs[1] \in WideRules THEN WideRules ELSE {}
StreamsToRender(rs) ==
  IF Len(rs) = 1 /\ rs[1] \in DeepRules THEN DeepStreams \cup WideStreams ELSE WideStreams

----------------------------------------------------------------------------
(* Names: types and keys with colons, or that differ only beyond the       *)
(* limit; a partitioner that gives an empty name; prefixes that sanitize *)
(* alike                                                                   *)

Id(t, k) == [type |-> t, key |-> k]
Long(c) == [i \in 1..24 |-> "a"] \o <<c>>
TheIds ==
  {Id(<<"a">>, <<":", "b">>), Id(<<"a">>, <<"b", ":", "a">>), Id(<<"a", ":", "b">>, <<"a">>),
   Id(Long("a"), <<"a">>), Id(Long("b"), <<"a">>)}
TheApps == {<<"a">>, <<"A", "_">>}
LowerLetters ==
  [c \in {"a", "b", "c", "d", "e", "k", "t", "u", "0", "1"} |-> c] @@ [c \in {"A"} |-> "a"]
Bucket(id) == IF Len(id.key) = 1 THEN "0" ELSE "1"
UpToColon(id) ==
  IF Colons(id.key) = {} THEN id.key ELSE SubSeq(id.key, 1, FirstColon(id.key) - 1)

----------------------------------------------------------------------------
(* Declarations: handlers that fit, that share a wire name or a command, that *)
(* are for another state, have a foreign error or lack their command       *)

T(p) == Type(p, <<>>)
EntityOf(s) == Type("Entity", <<s>>)
UnitResult == Type("Result", <<Unit>>)
Arg(k, v) == [key |-> k, value |-> v]
NeedsPublisher == Arg("requires", {"HasPublisher"})
Fn(kind, args, inputs, output) ==
  [kind |-> kind, args |-> args, generic |-> TRUE, inputs |-> inputs, output |-> output,
   error |-> WeeError, bounds |-> {"HasPublisher"}]
HandlerFn(args, s, c, output) ==
  Fn("handler", Append(args, NeedsPublisher), <<Ref(EntityOf(T(s))), T(c)>>, output)
For(c) == <<Arg("command", T(c))>>
TheFunctions ==
  <<"i", "n", "c">> :> HandlerFn(For("Inc"), "Counter", "Inc", UnitResult)
  @@ <<"i", "N", "c">> :> HandlerFn(For("Dec") \o For("Inc"), "Counter", "Inc",
                                    Type("Result", <<EntityOf(T("Counter"))>>))
  @@ <<"i", "_", "n", "c">> :> HandlerFn(For("Dec"), "Counter", "Dec",
                                         Type("Result", <<EntityOf(T("Counter")), WeeError>>))
  @@ <<"d", "e", "c">> :> HandlerFn(For("Dec"), "Counter", "Dec", UnitResult)
  @@ <<"o", "d", "d">> :> HandlerFn(For("Dec"), "Other", "Dec", UnitResult)
  @@ <<"b", "a", "d">> :> HandlerFn(<<>>, "Counter", "Dec", UnitResult)
  @@ <<"e", "r", "r">> :> [HandlerFn(For("Dec"), "Counter", "Dec", UnitResult)
                             EXCEPT !.error = T("MyError")]
  @@ <<"l", "o", "a", "d">> :> Fn("loader", <<NeedsPublisher>>, <<Ref(AggregateId)>>,
                                  Type("Result", <<EntityOf(T("Counter"))>>))

TheHandlers ==
  [fn : DOMAIN TheFunctions \ {<<"l", "o", "a", "d">>},
   wire : {NoService, <<"l", "o", "a", "d">>, <<"i", "n", "c">>}]
Effect(w, on) == [workflow |-> w, filter |-> [on |-> on]]
FullBodies(sections, handlers, effects) ==
  [form : {"full"}, sections : sections,
   loader : [fn : {<<"l", "o", "a", "d">>}, wire : {NoService, <<"i", "n", "c">>}],
   handlers : handlers, effects : effects]
Bodies ==
  FullBodies({<<"loader", "handlers">>}, UNION {[1..n -> TheHandlers] : n \in 0..2}, {<<>>})
  \cup FullBodies({<<"loader", "handlers", "effects">>, <<"handlers", "loader">>},
         {<<[fn |-> <<"i", "n", "c">>, wire |-> NoService],
            [fn |-> <<"d", "e", "c">>, wire |-> NoService]>>},
         {<<>>, <<Effect("Audit", "all")>>, <<Effect("Audit", "any")>>,
          <<Effect("Audit", "all"), Effect("Audit", "commands")>>,
          <<Effect("Audit", "all"), Effect("Notify", "commands"), Effect("Bill", "predicate")>>})
  \cup [form : {"commands"}, commands : {<<T("Inc"), T("Dec")>>, <<T("Inc"), T("Inc")>>}]
TheDeclarations ==
  [name : {<<"C", "S">>}, logical : {NoService}, state : {T("Counter")}, body : Bodies]
LowerCase == ("C" :> "c") @@ ("N" :> "n") @@ ("S" :> "s")

----------------------------------------------------------------------------
(* The client: two intents under one key, and one without                  *)

Keys == (pay :> k1) @@ (refund :> k1) @@ (ping :> NoKey)

=============================================================================
