------------------------------ MODULE Renderer ------------------------------
(***************************************************************************)
(* The projection engine: crates/wee-events/src/renderer.rs.               *)
(*                                                                         *)
(* A renderer is a list of rules, each a pattern and what to do with an    *)
(* event that matches it.  render() walks an aggregate's events; for each  *)
(* it walks the rules, in the order of their registration, and the first   *)
(* that matches decides.  A glob pattern is matched by a loop over two     *)
(* indexes that goes back to the last star it has met.                     *)
(*                                                                         *)
(* Event types and patterns are sequences of characters.  The state of an  *)
(* entity is abstracted to the list of the reductions that led to it: which *)
(* rule reduced which event.                                               *)
(***************************************************************************)
EXTENDS Naturals, Sequences

CONSTANTS Star,           \* the character '*'
          RulesAfter(_),  \* bound: the rules to register next after some rules
          StreamsFor(_),  \* bound: the streams to render with some rules
          Characters,     \* what event types and patterns are made of
          NoEntity        \* no call, no answer

\* A pattern, and Action::ReduceEvent or Action::Ignore.  EventPattern::glob()
\* refuses an empty pattern; an exact pattern may be any event type.
Rule == [kind : {"exact", "glob"}, text : Seq(Characters), action : {"reduce", "ignore"}]
IsRule(rule) == rule \in Rule /\ (rule.kind = "glob" => rule.text # <<>>)

\* An event's type, and whether its reducer can decode it and takes it.
Stream == Seq([type : Seq(Characters), valid : BOOLEAN])

VARIABLES rules,          \* the registered rules
          events,         \* the stream render() was called with, or NoEntity
          event,          \* index of the event it is at
          rule,           \* index of the rule it is trying
          stage,           \* where it is
          pattern_idx,    \* glob_matches: position in the pattern,
          text_idx,       \*   in the event type,
          star_idx,       \*   of the last star met, with its place
          star_text_idx,  \*   in the event type
          state,          \* the reductions made: pairs of rule and event
          rendered        \* what render() returned, or NoEntity

globVars == <<pattern_idx, text_idx, star_idx, star_text_idx>>
rendererVars == <<rules, events, event, rule, stage, globVars, state, rendered>>

NoStar == 0

\* The variables of glob_matches are local to it.
GlobStart ==
  /\ pattern_idx = 0 /\ text_idx = 0 /\ star_idx = NoStar /\ star_text_idx = 0
LeaveGlob ==
  /\ pattern_idx' = 0 /\ text_idx' = 0 /\ star_idx' = NoStar /\ star_text_idx' = 0

RendererInit ==
  /\ rules = <<>>
  /\ events = NoEntity
  /\ event = 1
  /\ rule = 1
  /\ stage = "idle"
  /\ GlobStart
  /\ state = <<>>
  /\ rendered = NoEntity

\* with(), register(), ignore(), register_ignore(): one rule more, after the
\* rules there are.
Register(r) ==
  /\ stage = "idle" /\ rendered = NoEntity
  /\ IsRule(r)
  /\ rules' = Append(rules, r)
  /\ UNCHANGED <<events, event, rule, stage, globVars, state, rendered>>

\* render(): from the default state and the first event.
RenderStream(stream) ==
  /\ stage = "idle" /\ rendered = NoEntity
  /\ stream \in Stream
  /\ events' = stream
  /\ event' = 1
  /\ rule' = 1
  /\ state' = <<>>
  /\ stage' = "event"
  /\ UNCHANGED <<rules, globVars, rendered>>

Pattern == rules[rule].text
Text == events[event].type

RenderAnswers(answer) ==
  /\ rendered' = answer
  /\ events' = NoEntity
  /\ event' = 1
  /\ rule' = 1
  /\ state' = <<>>
  /\ stage' = "idle"
  /\ UNCHANGED rules

\* Every event is through: the entity, at the revision of the aggregate.
Rendered ==
  /\ stage = "event"
  /\ event > Len(events)
  /\ RenderAnswers([stream |-> events, kind |-> "entity", at |-> Len(events), state |-> state])
  /\ UNCHANGED globVars

\* No rule is left: rendering is strict.
UnhandledEventType ==
  /\ stage = "event"
  /\ event <= Len(events)
  /\ rule > Len(rules)
  /\ RenderAnswers([stream |-> events, kind |-> "unhandled", at |-> event, state |-> <<>>])
  /\ UNCHANGED globVars

Fires == stage' = "fire" /\ UNCHANGED rule
NextRule == stage' = "event" /\ rule' = rule + 1

\* EventPattern::Exact
MatchExact ==
  /\ stage = "event"
  /\ event <= Len(events) /\ rule <= Len(rules)
  /\ rules[rule].kind = "exact"
  /\ IF Pattern = Text THEN Fires ELSE NextRule
  /\ UNCHANGED <<rules, events, event, globVars, state, rendered>>

\* EventPattern::Glob: call glob_matches.
StartGlob ==
  /\ stage = "event"
  /\ event <= Len(events) /\ rule <= Len(rules)
  /\ rules[rule].kind = "glob"
  /\ stage' = "glob"
  /\ UNCHANGED <<rules, events, event, rule, globVars, state, rendered>>

----------------------------------------------------------------------------
(* glob_matches(): indexes count from 0, sequences from 1; star_idx is the  *)
(* star's position counted from 1.                                         *)

InText == stage = "glob" /\ text_idx < Len(Text)
SameCharacter ==
  pattern_idx < Len(Pattern) /\ Pattern[pattern_idx + 1] = Text[text_idx + 1]
AtStar == pattern_idx < Len(Pattern) /\ Pattern[pattern_idx + 1] = Star

GlobUnchanged == UNCHANGED <<rules, events, event, state, rendered>>

MatchCharacter ==
  /\ InText /\ SameCharacter
  /\ pattern_idx' = pattern_idx + 1
  /\ text_idx' = text_idx + 1
  /\ UNCHANGED <<star_idx, star_text_idx, stage, rule>> /\ GlobUnchanged

\* Mutant of TakeStar: when it is tried again, it has already taken a character.
TakeStarPast ==
  /\ InText /\ ~SameCharacter /\ AtStar
  /\ star_idx' = pattern_idx + 1
  /\ pattern_idx' = pattern_idx + 1
  /\ star_text_idx' = text_idx + 1
  /\ UNCHANGED <<text_idx, stage, rule>> /\ GlobUnchanged

\* A star: try it as nothing, and remember where it was.
TakeStar ==
  /\ InText /\ ~SameCharacter /\ AtStar
  /\ star_idx' = pattern_idx + 1
  /\ pattern_idx' = pattern_idx + 1
  /\ star_text_idx' = text_idx
  /\ UNCHANGED <<text_idx, stage, rule>> /\ GlobUnchanged

\* Mutant of Backtrack: the star is tried again as it was.
BacktrackInPlace ==
  /\ InText /\ ~SameCharacter /\ ~AtStar /\ star_idx # NoStar
  /\ pattern_idx' = star_idx
  /\ text_idx' = star_text_idx
  /\ UNCHANGED <<star_idx, star_text_idx, stage, rule>> /\ GlobUnchanged

\* A dead end: let the last star take one character more.
Backtrack ==
  /\ InText /\ ~SameCharacter /\ ~AtStar /\ star_idx # NoStar
  /\ pattern_idx' = star_idx
  /\ star_text_idx' = star_text_idx + 1
  /\ text_idx' = star_text_idx + 1
  /\ UNCHANGED <<star_idx, stage, rule>> /\ GlobUnchanged

NoMatch ==
  /\ InText /\ ~SameCharacter /\ ~AtStar /\ star_idx = NoStar
  /\ NextRule
  /\ LeaveGlob /\ GlobUnchanged

\* The text is used up: stars that are left match nothing.
SkipStar ==
  /\ stage = "glob" /\ text_idx = Len(Text)
  /\ AtStar
  /\ pattern_idx' = pattern_idx + 1
  /\ UNCHANGED <<text_idx, star_idx, star_text_idx, stage, rule>> /\ GlobUnchanged

\* What is left of the pattern decides.
PatternUsedUp ==
  /\ stage = "glob" /\ text_idx = Len(Text)
  /\ ~AtStar
  /\ IF pattern_idx = Len(Pattern) THEN Fires ELSE NextRule
  /\ LeaveGlob /\ GlobUnchanged

----------------------------------------------------------------------------

NextEvent ==
  /\ event' = event + 1
  /\ rule' = 1
  /\ stage' = "event"
  /\ UNCHANGED <<rules, events, globVars, rendered>>

ReduceEvent ==
  /\ stage = "fire"
  /\ rules[rule].action = "reduce" /\ events[event].valid
  /\ state' = Append(state, <<rule, event>>)
  /\ NextEvent

Ignore ==
  /\ stage = "fire"
  /\ rules[rule].action = "ignore"
  /\ NextEvent
  /\ UNCHANGED state

\* The reducer cannot decode the payload, or refuses it.
ApplyFailed ==
  /\ stage = "fire"
  /\ rules[rule].action = "reduce" /\ ~events[event].valid
  /\ RenderAnswers([stream |-> events, kind |-> "failed", at |-> event, state |-> <<>>])
  /\ UNCHANGED globVars

\* The caller has the answer, and may use the renderer again.
TakeAnswer ==
  /\ rendered # NoEntity
  /\ rendered' = NoEntity
  /\ UNCHANGED <<rules, events, event, rule, stage, globVars, state>>

RenderStep ==
  \/ Rendered \/ UnhandledEventType \/ MatchExact \/ StartGlob
  \/ MatchCharacter \/ TakeStar \/ Backtrack \/ NoMatch \/ SkipStar \/ PatternUsedUp
  \/ ReduceEvent \/ Ignore \/ ApplyFailed

RendererNext ==
  \/ \E r \in RulesAfter(rules) : Register(r)
  \/ \E stream \in StreamsFor(rules) : RenderStream(stream)
  \/ RenderStep
  \/ TakeAnswer

RendererFairness == WF_rendererVars(RenderStep)

RendererSpec == RendererInit /\ [][RendererNext]_rendererVars /\ RendererFairness

----------------------------------------------------------------------------
(* What rendering should come to, said without indexes that move.          *)

\* The text can be cut into one piece per character of the pattern: a star's
\* piece is anything, any other character's is that character.
GlobDenotes(pattern, text) ==
  \E cut \in [0..Len(pattern) -> 0..Len(text)] :
    /\ cut[0] = 0
    /\ cut[Len(pattern)] = Len(text)
    /\ \A i \in 1..Len(pattern) :
         IF pattern[i] = Star
           THEN cut[i - 1] <= cut[i]
           ELSE cut[i] = cut[i - 1] + 1 /\ text[cut[i]] = pattern[i]

Denotes(r, type) == IF r.kind = "exact" THEN r.text = type ELSE GlobDenotes(r.text, type)

\* The rule whose match decides about an event type, or 0.
FirstMatch(among, type) ==
  LET matching == {i \in 1..Len(among) : Denotes(among[i], type)}
  IN IF matching = {} THEN 0 ELSE CHOOSE i \in matching : \A j \in matching : i <= j

\* Whether an event is reduced, and not ignored.
IsReduced(among, type) ==
  FirstMatch(among, type) # 0 /\ among[FirstMatch(among, type)].action = "reduce"

\* Whether rendering has to stop at an event.
IsObstacle(among, e) ==
  FirstMatch(among, e.type) = 0 \/ (IsReduced(among, e.type) /\ ~e.valid)

\* These are the reductions of the first n events of a stream, in their order.
AreReductions(among, made, stream, n) ==
  /\ {made[k] : k \in 1..Len(made)} =
       {<<FirstMatch(among, stream[i].type), i>> :
          i \in {i \in 1..n : IsReduced(among, stream[i].type)}}
  /\ \A k, l \in 1..Len(made) : k < l => made[k][2] < made[l][2]

\* What render() returns is what the rules say: each event is reduced or
\* ignored by the first rule that matches its type, in the order of the
\* stream, and the first event no rule matches or whose reducer fails is the
\* one reported.  No answer depends on an earlier call.  Event types that hold
\* a '*' themselves are left out: glob_matches compares characters before it
\* looks for stars, so there a star of the pattern may be spent on the text's.
RenderIsReference ==
  rendered # NoEntity =>
    LET stream == rendered.stream
        obstacles == {i \in 1..Len(stream) : IsObstacle(rules, stream[i])}
    IN (\A i \in 1..Len(stream) : \A j \in 1..Len(stream[i].type) :
          stream[i].type[j] # Star) =>
       IF obstacles = {}
         THEN /\ rendered.kind = "entity"
              /\ AreReductions(rules, rendered.state, stream, Len(stream))
         ELSE /\ rendered.at \in obstacles
              /\ \A i \in obstacles : rendered.at <= i
              /\ rendered.kind = IF FirstMatch(rules, stream[rendered.at].type) = 0
                                   THEN "unhandled" ELSE "failed"

\* Every render ends: whatever the pattern and the event type, the loop of
\* glob_matches stops going back to its star.
EveryRenderEnds == events # NoEntity ~> events = NoEntity

=============================================================================
