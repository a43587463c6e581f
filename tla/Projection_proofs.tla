------------------------- MODULE Projection_proofs -------------------------
(***************************************************************************)
(* What the document store and the projections promise, for any number of  *)
(* tasks, aggregates, revisions, deletions and failures; and what the       *)
(* renderer promises, for any rules, patterns and streams.                  *)
(***************************************************************************)
EXTENDS Projection, Renderer, TLAPS

\* What a task is at was loaded no earlier than its job began.
LoadedIsFresh ==
  \A t \in Tasks : pc[t] \in {"get", "upsert"} =>
    /\ current[t] \in Aggregates
    /\ due[t][current[t]] <= loaded[t]
    /\ loaded[t] <= revision[current[t]]

\* A change set or a rebuild is not ahead of the stream.
DueIsPublished ==
  \A t \in Tasks, a \in Aggregates : due[t][a] <= revision[a]

\* What a job has to show is still to be done, under way, or done.
Accounted ==
  \A t \in Tasks : pc[t] # "idle" =>
    \A a \in Aggregates \ deleted[t] : due[t][a] > 0 =>
      \/ a \in todo[t]
      \/ pc[t] \in {"get", "upsert"} /\ current[t] = a
      \/ docs[a] # None /\ docs[a].rev >= due[t][a]

IInv == /\ TypeOK
        /\ DocumentMatchesRevision
        /\ LoadedIsFresh
        /\ DueIsPublished
        /\ Accounted

----------------------------------------------------------------------------

LEMMA InitIInv == Init => IInv
<1> SUFFICES ASSUME Init PROVE IInv
  OBVIOUS
<1>1. TypeOK
  BY BoundAssumption DEF Init, TypeOK, Nothing
<1>2. DocumentMatchesRevision /\ LoadedIsFresh /\ DueIsPublished /\ Accounted
  BY DEF Init, DocumentMatchesRevision, LoadedIsFresh, DueIsPublished, Accounted, Nothing
<1> QED
  BY <1>1, <1>2 DEF IInv

\* What Begin does to the task and leaves alone.
LEMMA BeginTask ==
  ASSUME IInv, NEW t \in Tasks, NEW kind \in {"apply", "rebuild"},
         NEW aggregates \in SUBSET Aggregates, Begin(t, kind, aggregates),
         revision' \in [Aggregates -> 0..MaxRevision],
         \A a \in Aggregates : revision[a] <= revision'[a],
         NEW d \in [Aggregates -> 0..MaxRevision],
         due' = [due EXCEPT ![t] = d],
         \A a \in Aggregates : d[a] <= revision'[a] /\ (d[a] > 0 => a \in aggregates)
  PROVE  IInv'
<1> USE DEF IInv, Begin, bounds
<1>1. TypeOK'
  BY BoundAssumption DEF TypeOK
<1>2. DocumentMatchesRevision'
  BY DEF TypeOK, DocumentMatchesRevision
<1>3. LoadedIsFresh'
  BY DEF TypeOK, LoadedIsFresh
<1>4. DueIsPublished'
  BY DEF TypeOK, DueIsPublished
<1>5. Accounted'
  <2> SUFFICES ASSUME NEW u \in Tasks, pc'[u] # "idle",
                      NEW a \in Aggregates \ deleted'[u], due'[u][a] > 0
               PROVE  \/ a \in todo'[u]
                      \/ pc'[u] \in {"get", "upsert"} /\ current'[u] = a
                      \/ docs'[a] # None /\ docs'[a].rev >= due'[u][a]
    BY DEF Accounted
  <2>1. CASE u = t
    BY <2>1 DEF TypeOK
  <2>2. CASE u # t
    BY <2>2 DEF TypeOK, Accounted
  <2> QED
    BY <2>1, <2>2
<1> QED
  BY <1>1, <1>2, <1>3, <1>4, <1>5

LEMMA PublishAndApplyIInv ==
  ASSUME IInv, NEW t \in Tasks, NEW a \in Aggregates, NEW n \in {0, 1},
         PublishAndApply(t, a, n)
  PROVE  IInv'
<1> DEFINE d == [Nothing EXCEPT ![a] = revision[a] + n]
<1>1. revision \in [Aggregates -> 0..MaxRevision] /\ revision[a] + n \in 0..MaxRevision
  BY BoundAssumption DEF IInv, TypeOK, PublishAndApply
<1>2. /\ revision' \in [Aggregates -> 0..MaxRevision]
      /\ \A b \in Aggregates : revision[b] <= revision'[b]
      /\ revision'[a] = revision[a] + n
  BY <1>1 DEF PublishAndApply
<1>3. /\ d \in [Aggregates -> 0..MaxRevision]
      /\ \A b \in Aggregates : d[b] <= revision'[b] /\ (d[b] > 0 => b \in {a})
  BY <1>1, <1>2, BoundAssumption DEF Nothing
<1>4. Begin(t, "apply", {a}) /\ due' = [due EXCEPT ![t] = d]
  BY DEF PublishAndApply
<1>5. {a} \in SUBSET Aggregates
  OBVIOUS
<1> HIDE DEF d
<1> QED
  BY <1>2, <1>3, <1>4, <1>5, BeginTask

LEMMA RebuildIInv ==
  ASSUME IInv, NEW t \in Tasks, NEW found \in SUBSET Aggregates, Rebuild(t, found)
  PROVE  IInv'
<1>1. revision \in [Aggregates -> 0..MaxRevision] /\ revision' = revision
  BY DEF IInv, TypeOK, Rebuild
<1>2. \A b \in Aggregates : revision[b] <= revision'[b]
                           /\ (revision[b] > 0 => b \in found)
  BY <1>1 DEF Rebuild
<1>3. Begin(t, "rebuild", found) /\ due' = [due EXCEPT ![t] = revision]
  BY DEF Rebuild
<1> QED
  BY <1>1, <1>2, <1>3, BeginTask

LEMMA LoadIInv ==
  ASSUME IInv, NEW t \in Tasks, NEW a \in Aggregates, Load(t, a)
  PROVE  IInv'
<1> USE DEF IInv, Load, bounds
<1>1. TypeOK'
  BY DEF TypeOK
<1>2. DocumentMatchesRevision' /\ DueIsPublished'
  BY DEF DocumentMatchesRevision, DueIsPublished
<1>3. LoadedIsFresh'
  BY DEF TypeOK, LoadedIsFresh, DueIsPublished
<1>4. Accounted'
  BY DEF TypeOK, Accounted
<1> QED
  BY <1>1, <1>2, <1>3, <1>4

LEMMA GetIInv ==
  ASSUME IInv, NEW t \in Tasks, Get(t)
  PROVE  IInv'
<1> USE DEF IInv, Get, bounds
<1>1. TypeOK'
  BY DEF TypeOK
<1>2. DocumentMatchesRevision' /\ DueIsPublished'
  BY DEF DocumentMatchesRevision, DueIsPublished
<1>3. LoadedIsFresh'
  BY DEF TypeOK, LoadedIsFresh
<1>4. Accounted'
  BY DEF TypeOK, Accounted, LoadedIsFresh, UpToDate
<1> QED
  BY <1>1, <1>2, <1>3, <1>4

LEMMA UpsertIInv ==
  ASSUME IInv, NEW t \in Tasks, Upsert(t)
  PROVE  IInv'
<1> DEFINE a == current[t]
<1> USE DEF IInv, Upsert, bounds
<1>1. a \in Aggregates /\ loaded[t] \in Nat /\ revision[a] \in Nat
      /\ due[t][a] <= loaded[t] /\ loaded[t] <= revision[a]
  BY BoundAssumption DEF LoadedIsFresh, TypeOK
<1>2. DocumentOf(loaded[t]) = [rev |-> loaded[t], data |-> loaded[t]]
      /\ DocumentOf(loaded[t]) \in [rev : Nat, data : Nat]
      /\ DocumentOf(loaded[t]).rev = loaded[t]
      /\ DocumentOf(loaded[t]) # None
  BY <1>1, NoneAssumption DEF DocumentOf
<1>3. TypeOK'
  BY <1>1, <1>2 DEF TypeOK
<1>4. DocumentMatchesRevision'
  BY <1>1, <1>2 DEF TypeOK, DocumentMatchesRevision
<1>5. LoadedIsFresh' /\ DueIsPublished'
  BY DEF TypeOK, LoadedIsFresh, DueIsPublished
<1>6. Accounted'
  <2>1. docs'[a] # None /\ docs'[a].rev >= loaded[t]
    BY <1>1, <1>2 DEF TypeOK, Newer
  <2>2. \A b \in Aggregates : docs[b] # None =>
          docs'[b] # None /\ docs'[b].rev >= docs[b].rev
    BY <1>1, <1>2 DEF TypeOK, Newer
  <2> SUFFICES ASSUME NEW u \in Tasks, pc'[u] # "idle",
                      NEW b \in Aggregates \ deleted'[u], due'[u][b] > 0
               PROVE  \/ b \in todo'[u]
                      \/ pc'[u] \in {"get", "upsert"} /\ current'[u] = b
                      \/ docs'[b] # None /\ docs'[b].rev >= due'[u][b]
    BY DEF Accounted
  <2>3. docs'[b] \in [rev : Nat, data : Nat] \cup {None} /\ due[u][b] \in Nat
    BY <1>3, BoundAssumption DEF TypeOK
  <2>4. \/ b \in todo[u]
        \/ pc[u] \in {"get", "upsert"} /\ current[u] = b
        \/ docs[b] # None /\ docs[b].rev >= due[u][b]
    BY DEF TypeOK, Accounted
  <2>5. CASE docs[b] # None /\ docs[b].rev >= due[u][b]
    BY <2>2, <2>3, <2>5 DEF TypeOK
  <2>6. CASE u = t /\ current[u] = b
    BY <1>1, <2>1, <2>3, <2>6
  <2> QED
    BY <2>4, <2>5, <2>6 DEF TypeOK
<1> QED
  BY <1>3, <1>4, <1>5, <1>6

LEMMA EndIInv ==
  ASSUME IInv, NEW t \in Tasks, End(t), failures' \in 0..MaxFailures
  PROVE  IInv'
<1> USE DEF IInv, End, bounds
<1>1. TypeOK'
  BY BoundAssumption DEF TypeOK, Nothing
<1>2. DocumentMatchesRevision' /\ LoadedIsFresh' /\ DueIsPublished'
  BY BoundAssumption
  DEF TypeOK, DocumentMatchesRevision, LoadedIsFresh, DueIsPublished, Nothing
<1>3. Accounted'
  BY DEF TypeOK, Accounted
<1> QED
  BY <1>1, <1>2, <1>3

LEMMA DeleteIInv ==
  ASSUME IInv, NEW a \in Aggregates, Delete(a)
  PROVE  IInv'
<1> USE DEF IInv, Delete, bounds
<1>1. TypeOK'
  BY BoundAssumption DEF TypeOK
<1>2. DocumentMatchesRevision' /\ LoadedIsFresh' /\ DueIsPublished'
  BY DEF TypeOK, DocumentMatchesRevision, LoadedIsFresh, DueIsPublished
<1>3. Accounted'
  BY DEF TypeOK, Accounted
<1> QED
  BY <1>1, <1>2, <1>3

LEMMA NextIInv == IInv /\ [Next]_vars => IInv'
<1> SUFFICES ASSUME IInv, [Next]_vars PROVE IInv'
  OBVIOUS
<1>1. CASE UNCHANGED vars
  BY <1>1 DEF vars, taskVars, bounds, IInv, TypeOK, DocumentMatchesRevision,
              LoadedIsFresh, DueIsPublished, Accounted
<1>2. CASE \E t \in Tasks, a \in Aggregates, n \in {0, 1} : PublishAndApply(t, a, n)
  BY <1>2, PublishAndApplyIInv
<1>3. CASE \E t \in Tasks, found \in SUBSET Aggregates : Rebuild(t, found)
  BY <1>3, RebuildIInv
<1>4. CASE \E t \in Tasks, a \in Aggregates : Load(t, a)
  BY <1>4, LoadIInv
<1>5. CASE \E t \in Tasks : Get(t)
  BY <1>5, GetIInv
<1>6. CASE \E t \in Tasks : Upsert(t)
  BY <1>6, UpsertIInv
<1>7. CASE \E t \in Tasks : Return(t)
  <2> PICK t \in Tasks : Return(t)
    BY <1>7
  <2>1. End(t) /\ failures' \in 0..MaxFailures
    BY DEF Return, IInv, TypeOK
  <2> QED
    BY <2>1, EndIInv
<1>8. CASE \E t \in Tasks : Fail(t)
  <2> PICK t \in Tasks : Fail(t)
    BY <1>8
  <2>1. End(t) /\ failures' \in 0..MaxFailures
    BY BoundAssumption DEF Fail, IInv, TypeOK
  <2> QED
    BY <2>1, EndIInv
<1>9. CASE \E a \in Aggregates : Delete(a)
  BY <1>9, DeleteIInv
<1> QED
  BY <1>1, <1>2, <1>3, <1>4, <1>5, <1>6, <1>7, <1>8, <1>9 DEF Next, Proceed

LEMMA Invariant == Spec => []IInv
<1> QED
  BY InitIInv, NextIInv, PTL DEF Spec

----------------------------------------------------------------------------

\* The data of every document is the state at its revision, and no document
\* is ahead of its stream (projections.rs: entity.revision goes with
\* entity.state).
THEOREM DocumentsMatch == Spec => [](TypeOK /\ DocumentMatchesRevision)
<1>1. IInv => TypeOK /\ DocumentMatchesRevision
  BY DEF IInv
<1> QED
  BY <1>1, Invariant, PTL

\* A projection that answered Ok is visible, however publishes, rebuilds,
\* deletions and failures interleave (apply_projection, rebuild_projection).
THEOREM Coverage == Spec => []ProjectionCovers
<1>1. IInv => ProjectionCovers
  <2> SUFFICES ASSUME IInv, NEW t \in Tasks, Done(t),
                      NEW a \in Aggregates \ deleted[t], due[t][a] > 0
               PROVE  docs[a] # None /\ docs[a].rev >= due[t][a]
    BY DEF ProjectionCovers
  <2> QED
    BY DEF IInv, Accounted, Done
<1> QED
  BY <1>1, Invariant, PTL

\* No document goes back to an earlier revision (DocumentStore::upsert's WHERE
\* clause), whatever order projections reach it in.
THEOREM NeverBack == Spec => DocumentNeverGoesBack
<1> DEFINE Step == \A a \in Aggregates :
      docs[a] # None /\ docs'[a] # None => docs[a].rev <= docs'[a].rev
<1>1. ASSUME IInv, Next PROVE Step
  <2>1. CASE UNCHANGED docs
    BY <1>1, <2>1 DEF IInv, TypeOK
  <2>2. CASE \E t \in Tasks : Upsert(t)
    <3> PICK t \in Tasks : Upsert(t)
      BY <2>2
    <3>1. DocumentOf(loaded[t]).rev = loaded[t] /\ loaded[t] \in Nat
      BY <1>1, BoundAssumption DEF DocumentOf, IInv, TypeOK
    <3> QED
      BY <1>1, <3>1 DEF Upsert, Newer, IInv, TypeOK
  <2>3. CASE \E a \in Aggregates : Delete(a)
    BY <1>1, <2>3 DEF Delete, IInv, TypeOK
  <2> QED
    BY <1>1, <2>1, <2>2, <2>3 DEF Next, Proceed, PublishAndApply, Rebuild, Begin,
       Load, Get, Return, Fail, End
<1>2. IInv /\ [Next]_vars => [Step]_vars
  BY <1>1
<1> QED
  BY <1>2, Invariant, PTL DEF Spec, DocumentNeverGoesBack

----------------------------------------------------------------------------
(* Renderer: a pattern's characters against a text's.  A cut says where in *)
(* the text the piece of each character of the pattern ends.               *)

\* Cut c gives the i-th character of the pattern a piece it matches.
Piece(c, p, t, i) ==
  IF p[i] = Star THEN c[i - 1] <= c[i] ELSE c[i] = c[i - 1] + 1 /\ t[c[i]] = p[i]

\* The first m characters of the pattern match the first n of the text.
Matches(p, t, m, n) ==
  \E c \in [0..m -> 0..Len(t)] : c[0] = 0 /\ c[m] = n /\ \A i \in 1..m : Piece(c, p, t, i)

\* The cuts of the whole text by the whole pattern.
WholeCuts(p, t) ==
  {c \in [0..Len(p) -> 0..Len(t)] :
     c[0] = 0 /\ c[Len(p)] = Len(t) /\ \A i \in 1..Len(p) : Piece(c, p, t, i)}

LEMMA DenotesIsWhole ==
  ASSUME NEW p, NEW t
  PROVE  /\ GlobDenotes(p, t) <=> WholeCuts(p, t) # {}
         /\ GlobDenotes(p, t) <=> Matches(p, t, Len(p), Len(t))
<1>1. GlobDenotes(p, t) <=> WholeCuts(p, t) # {}
  BY DEF GlobDenotes, WholeCuts, Piece
<1>2. GlobDenotes(p, t) <=> Matches(p, t, Len(p), Len(t))
  BY DEF GlobDenotes, Matches, Piece
<1> QED
  BY <1>1, <1>2

LEMMA NothingMatchesNothing ==
  ASSUME NEW p, NEW t, Len(t) \in Nat
  PROVE  Matches(p, t, 0, 0)
<1> DEFINE c == [i \in 0..0 |-> 0]
<1>1. c \in [0..0 -> 0..Len(t)] /\ c[0] = 0 /\ \A i \in 1..0 : Piece(c, p, t, i)
  OBVIOUS
<1> QED
  BY <1>1 DEF Matches

\* One character more of the pattern.
LEMMA MatchesNext ==
  ASSUME NEW p, NEW t, NEW m \in Nat, NEW n \in Nat, NEW k \in 0..Len(t), Len(t) \in Nat,
         Matches(p, t, m, n),
         IF p[m + 1] = Star THEN n <= k ELSE k = n + 1 /\ t[k] = p[m + 1]
  PROVE  Matches(p, t, m + 1, k)
<1>1. PICK c \in [0..m -> 0..Len(t)] : /\ c[0] = 0 /\ c[m] = n
                                       /\ \A i \in 1..m : Piece(c, p, t, i)
  BY DEF Matches
<1> DEFINE d == [i \in 0..(m + 1) |-> IF i <= m THEN c[i] ELSE k]
<1>2. d \in [0..(m + 1) -> 0..Len(t)] /\ d[0] = 0 /\ d[m + 1] = k /\ d[m] = n
      /\ \A i \in 0..m : d[i] = c[i]
  BY <1>1
<1> HIDE DEF d
<1>3. ASSUME NEW i \in 1..(m + 1) PROVE Piece(d, p, t, i)
  <2>1. CASE i = m + 1
    BY <1>2, <2>1 DEF Piece
  <2>2. CASE i # m + 1
    <3>1. i \in 1..m /\ i \in 0..m /\ i - 1 \in 0..m
      BY <2>2
    <3>2. d[i] = c[i] /\ d[i - 1] = c[i - 1] /\ Piece(c, p, t, i)
      BY <1>1, <1>2, <3>1
    <3> QED
      BY <3>2 DEF Piece
  <2> QED
    BY <2>1, <2>2
<1> QED
  BY <1>2, <1>3 DEF Matches

\* A star takes more.
LEMMA StarTakesMore ==
  ASSUME NEW p, NEW t, NEW m \in Nat \ {0}, NEW n \in Nat, NEW k \in 0..Len(t), Len(t) \in Nat,
         Matches(p, t, m, n), p[m] = Star, n <= k
  PROVE  Matches(p, t, m, k)
<1>1. PICK c \in [0..m -> 0..Len(t)] : /\ c[0] = 0 /\ c[m] = n
                                       /\ \A i \in 1..m : Piece(c, p, t, i)
  BY DEF Matches
<1> DEFINE d == [i \in 0..m |-> IF i < m THEN c[i] ELSE k]
<1>2. d \in [0..m -> 0..Len(t)] /\ d[0] = 0 /\ d[m] = k
      /\ \A i \in 0..(m - 1) : d[i] = c[i]
  BY <1>1
<1> HIDE DEF d
<1>3. ASSUME NEW i \in 1..m PROVE Piece(d, p, t, i)
  <2>1. CASE i = m
    <3>1. c[m - 1] \in Nat /\ c[m - 1] <= c[m] /\ d[m - 1] = c[m - 1]
      BY <1>1, <1>2 DEF Piece
    <3> QED
      BY <1>1, <1>2, <2>1, <3>1 DEF Piece
  <2>2. CASE i # m
    <3>1. i \in 1..m /\ i \in 0..(m - 1) /\ i - 1 \in 0..(m - 1)
      BY <2>2
    <3>2. d[i] = c[i] /\ d[i - 1] = c[i - 1] /\ Piece(c, p, t, i)
      BY <1>1, <1>2, <3>1
    <3> QED
      BY <3>2 DEF Piece
  <2> QED
    BY <2>1, <2>2
<1> QED
  BY <1>2, <1>3 DEF Matches

\* How a cut of the whole text goes on after m characters of the pattern.
LEMMA CutGoesOn ==
  ASSUME NEW p, NEW t, Len(p) \in Nat, Len(t) \in Nat, NEW c \in WholeCuts(p, t),
         NEW m \in 0..Len(p)
  PROVE  /\ c[m] \in 0..Len(t)
         /\ m = Len(p) => c[m] = Len(t)
         /\ m < Len(p) /\ p[m + 1] = Star => c[m] <= c[m + 1]
         /\ m < Len(p) /\ p[m + 1] # Star => c[m + 1] = c[m] + 1 /\ t[c[m + 1]] = p[m + 1]
<1>1. c \in [0..Len(p) -> 0..Len(t)] /\ c[Len(p)] = Len(t)
      /\ \A i \in 1..Len(p) : Piece(c, p, t, i)
  BY DEF WholeCuts
<1>2. m < Len(p) => m + 1 \in 1..Len(p) /\ m + 1 - 1 = m
  OBVIOUS
<1>3. m < Len(p) => Piece(c, p, t, m + 1)
  BY <1>1, <1>2
<1> QED
  BY <1>1, <1>2, <1>3 DEF Piece

----------------------------------------------------------------------------
(* Renderer: the loop of glob_matches                                      *)

PlainText(t) == \A j \in 1..Len(t) : t[j] # Star

GlobIndexes(p, t) ==
  /\ pattern_idx \in 0..Len(p) /\ text_idx \in 0..Len(t)
  /\ star_idx \in 0..pattern_idx /\ star_text_idx \in 0..text_idx

\* What is behind matches, and a star can take what it has been given.
GlobSound(p, t) ==
  /\ Matches(p, t, pattern_idx, text_idx)
  /\ star_idx # NoStar => p[star_idx] = Star /\ Matches(p, t, star_idx, star_text_idx)

\* Nothing was given up that could have been part of a match: no match of the
\* whole has got less far, and none gives the last star less.
GlobComplete(p, t) ==
  \A c \in WholeCuts(p, t) :
    /\ text_idx <= c[pattern_idx]
    /\ text_idx < Len(t) =>
         IF star_idx = NoStar THEN c[pattern_idx] = text_idx
         ELSE /\ star_text_idx <= c[star_idx]
              /\ c[pattern_idx] - c[star_idx] = text_idx - star_text_idx

GlobOf(p, t) ==
  GlobIndexes(p, t) /\ GlobSound(p, t) /\ (PlainText(t) => GlobComplete(p, t))

LEMMA GlobBegins ==
  ASSUME GlobStart, NEW p, NEW t, Len(p) \in Nat, Len(t) \in Nat
  PROVE  GlobOf(p, t)
<1>1. pattern_idx = 0 /\ text_idx = 0 /\ star_idx = 0 /\ star_text_idx = 0
  BY DEF GlobStart, NoStar
<1>2. \A c \in WholeCuts(p, t) : c[0] = 0
  BY DEF WholeCuts
<1> QED
  BY <1>1, <1>2, NothingMatchesNothing
  DEF GlobOf, GlobIndexes, GlobSound, GlobComplete, NoStar

\* A dead end: no whole match gives the last star what it has now, and none is
\* left when there is no star.
LEMMA DeadEnd ==
  ASSUME NEW p, NEW t, Len(p) \in Nat, Len(t) \in Nat, p = Pattern, t = Text, GlobIndexes(p, t),
         GlobComplete(p, t), text_idx < Len(t), ~SameCharacter, ~AtStar,
         NEW c \in WholeCuts(p, t)
  PROVE  star_idx # NoStar /\ star_text_idx + 1 <= c[star_idx]
<1>1. /\ pattern_idx \in 0..Len(p) /\ text_idx \in Nat /\ star_idx \in 0..Len(p)
      /\ star_text_idx \in Nat
  BY DEF GlobIndexes
<1>2. /\ c[pattern_idx] \in Nat /\ c[star_idx] \in Nat
      /\ pattern_idx = Len(p) => c[pattern_idx] = Len(t)
      /\ pattern_idx < Len(p) /\ p[pattern_idx + 1] # Star =>
           c[pattern_idx + 1] = c[pattern_idx] + 1 /\ t[c[pattern_idx + 1]] = p[pattern_idx + 1]
  BY <1>1, CutGoesOn
<1>3. c[pattern_idx] # text_idx
  BY <1>1, <1>2 DEF SameCharacter, AtStar
<1>4. /\ star_idx = NoStar => c[pattern_idx] = text_idx
      /\ star_idx # NoStar => /\ star_text_idx <= c[star_idx]
                              /\ c[pattern_idx] - c[star_idx] = text_idx - star_text_idx
  BY DEF GlobComplete
<1> QED
  BY <1>1, <1>2, <1>3, <1>4

\* A step of the loop.
LEMMA GlobSteps ==
  ASSUME NEW p, NEW t, Len(p) \in Nat, Len(t) \in Nat, p = Pattern, t = Text, GlobOf(p, t),
         MatchCharacter \/ TakeStar \/ Backtrack \/ SkipStar
  PROVE  GlobOf(p, t)'
<1>1. /\ pattern_idx \in 0..Len(p) /\ text_idx \in 0..Len(t)
      /\ star_idx \in 0..pattern_idx /\ star_text_idx \in 0..text_idx
      /\ pattern_idx \in Nat /\ text_idx \in Nat
      /\ Matches(p, t, pattern_idx, text_idx)
      /\ star_idx # NoStar => p[star_idx] = Star /\ Matches(p, t, star_idx, star_text_idx)
  BY DEF GlobOf, GlobIndexes, GlobSound
<1>2. ASSUME PlainText(t), NEW c \in WholeCuts(p, t)
      PROVE  /\ text_idx <= c[pattern_idx]
             /\ text_idx < Len(t) =>
                  IF star_idx = NoStar THEN c[pattern_idx] = text_idx
                  ELSE /\ star_text_idx <= c[star_idx]
                       /\ c[pattern_idx] - c[star_idx] = text_idx - star_text_idx
             /\ c[pattern_idx] \in 0..Len(t) /\ c[star_idx] \in 0..Len(t)
             /\ pattern_idx < Len(p) /\ p[pattern_idx + 1] = Star =>
                  c[pattern_idx] <= c[pattern_idx + 1]
             /\ pattern_idx < Len(p) /\ p[pattern_idx + 1] # Star =>
                  c[pattern_idx + 1] = c[pattern_idx] + 1
             /\ pattern_idx < Len(p) => c[pattern_idx + 1] \in 0..Len(t)
  <2>1. GlobComplete(p, t)
    BY <1>2 DEF GlobOf
  <2>2. star_idx \in 0..Len(p) /\ (pattern_idx < Len(p) => pattern_idx + 1 \in 0..Len(p))
    BY <1>1
  <2>3. \A m \in 0..Len(p) : c[m] \in 0..Len(t)
    BY <1>2, CutGoesOn
  <2>4. /\ pattern_idx < Len(p) /\ p[pattern_idx + 1] = Star =>
             c[pattern_idx] <= c[pattern_idx + 1]
        /\ pattern_idx < Len(p) /\ p[pattern_idx + 1] # Star =>
             c[pattern_idx + 1] = c[pattern_idx] + 1
    BY <1>1, <1>2, CutGoesOn
  <2> QED
    BY <1>1, <1>2, <2>1, <2>2, <2>3, <2>4 DEF GlobComplete
<1>3. CASE MatchCharacter
  <2>1. /\ text_idx < Len(t) /\ pattern_idx < Len(p) /\ p[pattern_idx + 1] = t[text_idx + 1]
        /\ pattern_idx' = pattern_idx + 1 /\ text_idx' = text_idx + 1
        /\ star_idx' = star_idx /\ star_text_idx' = star_text_idx
    BY <1>3 DEF MatchCharacter, InText, SameCharacter
  <2>2. Matches(p, t, pattern_idx + 1, text_idx + 1)
    BY <1>1, <2>1, MatchesNext
  <2>3. PlainText(t) => p[pattern_idx + 1] # Star
    BY <1>1, <2>1 DEF PlainText
  <2>4. PlainText(t) => GlobComplete(p, t)'
    <3> SUFFICES ASSUME PlainText(t), NEW c \in WholeCuts(p, t)
                 PROVE  /\ text_idx' <= c[pattern_idx']
                        /\ text_idx' < Len(t) =>
                             IF star_idx' = NoStar THEN c[pattern_idx'] = text_idx'
                             ELSE /\ star_text_idx' <= c[star_idx']
                                  /\ c[pattern_idx'] - c[star_idx'] = text_idx' - star_text_idx'
      BY DEF GlobComplete
    <3>1. /\ text_idx <= c[pattern_idx]
          /\ IF star_idx = NoStar THEN c[pattern_idx] = text_idx
             ELSE /\ star_text_idx <= c[star_idx]
                  /\ c[pattern_idx] - c[star_idx] = text_idx - star_text_idx
          /\ c[pattern_idx] \in Nat /\ c[star_idx] \in Nat
          /\ c[pattern_idx + 1] = c[pattern_idx] + 1
      BY <1>2, <2>1, <2>3
    <3>2. c[pattern_idx'] = c[pattern_idx] + 1 /\ c[star_idx'] = c[star_idx]
      BY <2>1, <3>1
    <3>3. text_idx' = text_idx + 1 /\ star_idx' = star_idx /\ star_text_idx' = star_text_idx
          /\ text_idx \in Nat /\ star_text_idx \in Nat
      BY <1>1, <2>1
    <3>4. text_idx' <= c[pattern_idx']
      BY <3>1, <3>2, <3>3
    <3>5. CASE star_idx = NoStar
      BY <3>1, <3>2, <3>3, <3>4, <3>5
    <3>6. CASE star_idx # NoStar
      <4>1. star_text_idx' <= c[star_idx']
        BY <3>1, <3>2, <3>3, <3>6
      <4>2. c[pattern_idx'] - c[star_idx'] = text_idx' - star_text_idx'
        BY <3>1, <3>2, <3>3, <3>6
      <4> QED
        BY <3>3, <3>4, <3>6, <4>1, <4>2
    <3> QED
      BY <3>5, <3>6
  <2> QED
    BY <1>1, <2>1, <2>2, <2>4 DEF GlobOf, GlobIndexes, GlobSound
<1>4. CASE TakeStar
  <2>1. /\ text_idx < Len(t) /\ pattern_idx < Len(p) /\ p[pattern_idx + 1] = Star
        /\ pattern_idx' = pattern_idx + 1 /\ text_idx' = text_idx
        /\ star_idx' = pattern_idx + 1 /\ star_text_idx' = text_idx
    BY <1>4 DEF TakeStar, InText, AtStar
  <2>2. Matches(p, t, pattern_idx + 1, text_idx)
    BY <1>1, <2>1, MatchesNext
  <2>3. PlainText(t) => GlobComplete(p, t)'
    <3> SUFFICES ASSUME PlainText(t), NEW c \in WholeCuts(p, t)
                 PROVE  /\ text_idx' <= c[pattern_idx']
                        /\ text_idx' < Len(t) =>
                             IF star_idx' = NoStar THEN c[pattern_idx'] = text_idx'
                             ELSE /\ star_text_idx' <= c[star_idx']
                                  /\ c[pattern_idx'] - c[star_idx'] = text_idx' - star_text_idx'
      BY DEF GlobComplete
    <3> QED
      BY <1>1, <1>2, <2>1 DEF NoStar
  <2> QED
    BY <1>1, <2>1, <2>2, <2>3 DEF GlobOf, GlobIndexes, GlobSound
<1>5. CASE Backtrack
  <2>1. /\ text_idx < Len(t) /\ ~SameCharacter /\ ~AtStar /\ star_idx # NoStar
        /\ pattern_idx' = star_idx /\ text_idx' = star_text_idx + 1
        /\ star_idx' = star_idx /\ star_text_idx' = star_text_idx + 1
    BY <1>5 DEF Backtrack, InText
  <2>2. Matches(p, t, star_idx, star_text_idx + 1)
    BY <1>1, <2>1, StarTakesMore DEF NoStar
  <2>3. PlainText(t) => GlobComplete(p, t)'
    <3> SUFFICES ASSUME PlainText(t), NEW c \in WholeCuts(p, t)
                 PROVE  /\ text_idx' <= c[pattern_idx']
                        /\ text_idx' < Len(t) =>
                             IF star_idx' = NoStar THEN c[pattern_idx'] = text_idx'
                             ELSE /\ star_text_idx' <= c[star_idx']
                                  /\ c[pattern_idx'] - c[star_idx'] = text_idx' - star_text_idx'
      BY DEF GlobComplete
    <3>1. star_text_idx + 1 <= c[star_idx]
      BY <2>1, DeadEnd DEF GlobOf
    <3> QED
      BY <1>1, <1>2, <2>1, <3>1
  <2> QED
    BY <1>1, <2>1, <2>2, <2>3 DEF GlobOf, GlobIndexes, GlobSound
<1>6. CASE SkipStar
  <2>1. /\ text_idx = Len(t) /\ pattern_idx < Len(p) /\ p[pattern_idx + 1] = Star
        /\ pattern_idx' = pattern_idx + 1 /\ text_idx' = text_idx
        /\ star_idx' = star_idx /\ star_text_idx' = star_text_idx
    BY <1>6 DEF SkipStar, AtStar
  <2>2. Matches(p, t, pattern_idx + 1, text_idx)
    BY <1>1, <2>1, MatchesNext
  <2>3. PlainText(t) => GlobComplete(p, t)'
    <3> SUFFICES ASSUME PlainText(t), NEW c \in WholeCuts(p, t) PROVE text_idx' <= c[pattern_idx']
      BY <2>1 DEF GlobComplete
    <3> QED
      BY <1>1, <1>2, <2>1
  <2> QED
    BY <1>1, <2>1, <2>2, <2>3 DEF GlobOf, GlobIndexes, GlobSound
<1> QED
  BY <1>3, <1>4, <1>5, <1>6

\* What the loop comes to: that the pattern denotes the text, or, of a text
\* without stars, that it does not.
LEMMA GlobDecides ==
  ASSUME NEW p, NEW t, Len(p) \in Nat, Len(t) \in Nat, p = Pattern, t = Text, GlobOf(p, t)
  PROVE  /\ PatternUsedUp /\ pattern_idx = Len(p) => GlobDenotes(p, t)
         /\ PatternUsedUp /\ pattern_idx # Len(p) /\ PlainText(t) => ~GlobDenotes(p, t)
         /\ NoMatch /\ PlainText(t) => ~GlobDenotes(p, t)
<1>1. pattern_idx \in 0..Len(p) /\ Matches(p, t, pattern_idx, text_idx)
  BY DEF GlobOf, GlobIndexes, GlobSound
<1>2. ASSUME PatternUsedUp, pattern_idx = Len(p) PROVE GlobDenotes(p, t)
  <2>1. text_idx = Len(t)
    BY <1>2 DEF PatternUsedUp
  <2> QED
    BY <1>1, <1>2, <2>1, DenotesIsWhole
<1>3. ASSUME PatternUsedUp, pattern_idx # Len(p), PlainText(t) PROVE ~GlobDenotes(p, t)
  <2> SUFFICES ASSUME NEW c \in WholeCuts(p, t) PROVE FALSE
    BY DenotesIsWhole
  <2>1. /\ text_idx = Len(t) /\ pattern_idx < Len(p) /\ p[pattern_idx + 1] # Star
        /\ pattern_idx + 1 \in 0..Len(p)
    BY <1>1, <1>3 DEF PatternUsedUp, AtStar
  <2>2. Len(t) <= c[pattern_idx]
    BY <1>3, <2>1 DEF GlobOf, GlobComplete
  <2>3. c[pattern_idx] \in 0..Len(t) /\ c[pattern_idx + 1] = c[pattern_idx] + 1
    BY <1>1, <2>1, CutGoesOn
  <2>4. c[pattern_idx + 1] \in 0..Len(t)
    BY <2>1, CutGoesOn
  <2> QED
    BY <2>2, <2>3, <2>4
<1>4. ASSUME NoMatch, PlainText(t) PROVE ~GlobDenotes(p, t)
  <2> SUFFICES ASSUME NEW c \in WholeCuts(p, t) PROVE FALSE
    BY DenotesIsWhole
  <2>1. text_idx < Len(t) /\ ~SameCharacter /\ ~AtStar /\ star_idx = NoStar
    BY <1>4 DEF NoMatch, InText
  <2> QED
    BY <1>4, <2>1, DeadEnd DEF GlobOf
<1> QED
  BY <1>2, <1>3, <1>4

----------------------------------------------------------------------------
(* Renderer: the rules of a stream                                         *)

\* The first rule that matches decides, and there is one or none.
LEMMA FirstIs ==
  ASSUME NEW rs \in Seq(Rule), NEW type, NEW r \in 1..Len(rs), Denotes(rs[r], type),
         \A i \in 1..(r - 1) : ~Denotes(rs[i], type)
  PROVE  FirstMatch(rs, type) = r
<1> DEFINE matching == {i \in 1..Len(rs) : Denotes(rs[i], type)}
           IsFirst(i) == i \in matching /\ \A j \in matching : i <= j
<1>1. Len(rs) \in Nat
  OBVIOUS
<1>2. \A i \in matching : i \in Nat /\ ~(i < r)
  BY <1>1
<1>3. IsFirst(r)
  BY <1>1, <1>2
<1>4. \A i : IsFirst(i) => i = r
  BY <1>2, <1>3
<1>5. matching # {}
  BY <1>3
<1>6. FirstMatch(rs, type) = CHOOSE i \in matching : \A j \in matching : i <= j
  BY <1>5 DEF FirstMatch
<1>7. (CHOOSE i \in matching : \A j \in matching : i <= j) = r
  <2> HIDE DEF matching
  <2> QED
    BY <1>3, <1>4
<1> QED
  BY <1>6, <1>7

LEMMA NoFirst ==
  ASSUME NEW rs, NEW type, \A i \in 1..Len(rs) : ~Denotes(rs[i], type)
  PROVE  FirstMatch(rs, type) = 0
  BY DEF FirstMatch

\* An event more that is not reduced.
LEMMA ReductionsSkip ==
  ASSUME NEW rs, NEW made, NEW stream, NEW n \in Nat, AreReductions(rs, made, stream, n),
         ~IsReduced(rs, stream[n + 1].type)
  PROVE  AreReductions(rs, made, stream, n + 1)
<1>1. {i \in 1..(n + 1) : IsReduced(rs, stream[i].type)} =
        {i \in 1..n : IsReduced(rs, stream[i].type)}
  <2>1. 1..(n + 1) = (1..n) \cup {n + 1}
    OBVIOUS
  <2> QED
    BY <2>1
<1> QED
  BY <1>1 DEF AreReductions

\* An event more that is reduced.
LEMMA ReductionsGoOn ==
  ASSUME NEW rs, NEW made \in Seq(Nat \X Nat), NEW stream, NEW n \in Nat,
         AreReductions(rs, made, stream, n), IsReduced(rs, stream[n + 1].type),
         NEW next \in Nat \X Nat, next = <<FirstMatch(rs, stream[n + 1].type), n + 1>>
  PROVE  AreReductions(rs, Append(made, next), stream, n + 1)
<1> DEFINE more == Append(made, next)
           Pair(i) == <<FirstMatch(rs, stream[i].type), i>>
           Reduced(m) == {i \in 1..m : IsReduced(rs, stream[i].type)}
<1>1. /\ Len(made) \in Nat /\ Len(more) = Len(made) + 1 /\ more[Len(more)] = next
      /\ \A k \in 1..Len(made) : more[k] = made[k]
  OBVIOUS
<1>2. /\ {made[k] : k \in 1..Len(made)} = {Pair(i) : i \in Reduced(n)}
      /\ \A k, l \in 1..Len(made) : k < l => made[k][2] < made[l][2]
  BY DEF AreReductions
<1>3. Reduced(n + 1) = Reduced(n) \cup {n + 1}
  <2>1. 1..(n + 1) = (1..n) \cup {n + 1}
    OBVIOUS
  <2> QED
    BY <2>1
<1>4. next = Pair(n + 1) /\ next[2] = n + 1 /\ \A i \in Reduced(n) : Pair(i)[2] = i
  OBVIOUS
<1>5. \A k \in 1..Len(made) : made[k][2] \in 1..n
  <2> SUFFICES ASSUME NEW k \in 1..Len(made) PROVE made[k][2] \in 1..n
    OBVIOUS
  <2>1. made[k] \in {Pair(i) : i \in Reduced(n)}
    BY <1>2
  <2>2. PICK i \in Reduced(n) : made[k] = Pair(i)
    BY <2>1
  <2> QED
    BY <2>2, <1>4
<1> HIDE DEF more, Pair, Reduced
<1>6. 1..Len(more) = (1..Len(made)) \cup {Len(more)}
  BY <1>1
<1>7. {more[k] : k \in 1..Len(more)} = {made[k] : k \in 1..Len(made)} \cup {next}
  <2>1. ASSUME NEW x \in {more[k] : k \in 1..Len(more)}
        PROVE  x \in {made[k] : k \in 1..Len(made)} \cup {next}
    <3>1. PICK k \in 1..Len(more) : x = more[k]
      OBVIOUS
    <3>2. CASE k = Len(more)
      BY <1>1, <3>1, <3>2
    <3>3. CASE k \in 1..Len(made)
      BY <1>1, <3>1, <3>3
    <3> QED
      BY <1>6, <3>1, <3>2, <3>3
  <2>2. ASSUME NEW x \in {made[k] : k \in 1..Len(made)} PROVE x \in {more[k] : k \in 1..Len(more)}
    <3>1. PICK k \in 1..Len(made) : x = made[k]
      OBVIOUS
    <3>2. k \in 1..Len(more) /\ x = more[k]
      BY <1>1, <1>6, <3>1
    <3> QED
      BY <3>2
  <2>3. next \in {more[k] : k \in 1..Len(more)}
    BY <1>1, <1>6
  <2> QED
    BY <2>1, <2>2, <2>3
<1>8. {Pair(i) : i \in Reduced(n + 1)} = {Pair(i) : i \in Reduced(n)} \cup {next}
  BY <1>3, <1>4
<1>9. ASSUME NEW k \in 1..Len(more), NEW l \in 1..Len(more), k < l
      PROVE  more[k][2] < more[l][2]
  <2>1. k \in 1..Len(made) /\ more[k] = made[k] /\ made[k][2] \in 1..n
    BY <1>1, <1>5, <1>9
  <2>2. CASE l \in 1..Len(made)
    BY <1>1, <1>2, <1>9, <2>1, <2>2
  <2>3. CASE l = Len(more)
    BY <1>1, <1>4, <2>1, <2>3
  <2> QED
    BY <1>6, <2>2, <2>3
<1> QED
  BY <1>2, <1>7, <1>8, <1>9 DEF AreReductions, more, Pair, Reduced

----------------------------------------------------------------------------
(* Renderer: the invariant                                                 *)

PlainTypes(stream) == \A i \in 1..Len(stream) : PlainText(stream[i].type)

\* The events before the e-th are through, with these reductions.
AreThrough(rs, stream, e, made) ==
  /\ \A i \in 1..(e - 1) : ~IsObstacle(rs, stream[i])
  /\ AreReductions(rs, made, stream, e - 1)

NoneBefore(rs, r, type) == \A i \in 1..(r - 1) : ~Denotes(rs[i], type)

RendererTypes ==
  /\ rules \in Seq(Rule) /\ state \in Seq(Nat \X Nat)
  /\ stage \in {"idle", "event", "glob", "fire"}
  /\ stage # "idle" => /\ events \in Stream /\ event \in 1..(Len(events) + 1)
                       /\ rule \in 1..(Len(rules) + 1)
  /\ stage \in {"glob", "fire"} => event <= Len(events) /\ rule <= Len(rules)

GlobInv ==
  /\ stage = "glob" => rules[rule].kind = "glob" /\ GlobOf(Pattern, Text)
  /\ stage # "glob" => GlobStart

\* The events before this one are through, the rules before this one do not
\* match it, and the rule that fires does.
RenderProgress ==
  stage # "idle" /\ PlainTypes(events) =>
    /\ AreThrough(rules, events, event, state)
    /\ event <= Len(events) => NoneBefore(rules, rule, events[event].type)
    /\ stage = "fire" => Denotes(rules[rule], events[event].type)

RendererInv == RendererTypes /\ GlobInv /\ RenderProgress /\ RenderIsReference

LEMMA RendererBegins ==
  ASSUME RendererInit
  PROVE  RendererInv
  BY DEF RendererInit, RendererInv, RendererTypes, GlobInv, RenderProgress, RenderIsReference

LEMMA ElementIsIn ==
  ASSUME NEW S, NEW s \in Seq(S), NEW i \in 1..Len(s)
  PROVE  s[i] \in S
  OBVIOUS

LEMMA AppendIsIn ==
  ASSUME NEW S, NEW s \in Seq(S), NEW x \in S
  PROVE  Append(s, x) \in Seq(S)
  OBVIOUS

\* The sequences a render walks, when it is at an event and a rule.
LEMMA AtEventAndRule ==
  ASSUME RendererTypes, stage # "idle", event <= Len(events), rule <= Len(rules)
  PROVE  /\ Len(events) \in Nat /\ Len(rules) \in Nat
         /\ event \in 1..Len(events) /\ rule \in 1..Len(rules)
         /\ rules[rule] \in Rule /\ Pattern \in Seq(Characters)
         /\ Text = events[event].type /\ Text \in Seq(Characters)
         /\ Len(Pattern) \in Nat /\ Len(Text) \in Nat
         /\ PlainTypes(events) => PlainText(Text)
<1>1. /\ Len(events) \in Nat /\ Len(rules) \in Nat
      /\ event \in 1..Len(events) /\ rule \in 1..Len(rules)
  BY DEF RendererTypes, Stream
<1>2. rules[rule] \in Rule /\ events[event] \in [type : Seq(Characters), valid : BOOLEAN]
  <2>1. rules \in Seq(Rule) /\ events \in Seq([type : Seq(Characters), valid : BOOLEAN])
    BY DEF RendererTypes, Stream
  <2> QED
    BY <1>1, <2>1, ElementIsIn
<1>3. Pattern \in Seq(Characters) /\ Text = events[event].type /\ Text \in Seq(Characters)
  BY <1>2 DEF Pattern, Text, Rule
<1> QED
  BY <1>1, <1>2, <1>3 DEF PlainTypes

\* The loop of glob_matches touches nothing but its indexes.
LEMMA LoopKeeps ==
  ASSUME RendererInv, MatchCharacter \/ TakeStar \/ Backtrack \/ SkipStar
  PROVE  RendererInv'
<1>1. stage = "glob" /\ stage' = "glob" /\ UNCHANGED <<rules, events, event, rule, state, rendered>>
  BY DEF MatchCharacter, TakeStar, Backtrack, SkipStar, InText, GlobUnchanged
<1>2. RendererTypes'
  BY <1>1 DEF RendererInv, RendererTypes
<1>3. GlobInv'
  <2>1. event <= Len(events) /\ rule <= Len(rules)
    BY <1>1 DEF RendererInv, RendererTypes
  <2>2. Len(Pattern) \in Nat /\ Len(Text) \in Nat
    BY <1>1, <2>1, AtEventAndRule DEF RendererInv
  <2>3. PICK p, t : p = Pattern /\ t = Text
    OBVIOUS
  <2>4. GlobOf(p, t)
    BY <1>1, <2>3 DEF RendererInv, GlobInv
  <2>5. GlobOf(p, t)'
    BY <2>2, <2>3, <2>4, GlobSteps
  <2>6. Pattern' = p /\ Text' = t
    BY <1>1, <2>3 DEF Pattern, Text
  <2>7. GlobOf(Pattern, Text)'
    BY <2>5, <2>6 DEF GlobOf, GlobIndexes, GlobSound, GlobComplete
  <2> QED
    BY <1>1, <2>7 DEF RendererInv, GlobInv
<1>4. RenderProgress' /\ RenderIsReference'
  BY <1>1 DEF RendererInv, RenderProgress, RenderIsReference
<1> QED
  BY <1>2, <1>3, <1>4 DEF RendererInv

\* A rule has matched and fires, or it has not and the next one's turn has come.
LEMMA DecisionKeeps ==
  ASSUME RendererInv, stage \in {"event", "glob"}, event <= Len(events), rule <= Len(rules),
         UNCHANGED <<rules, events, event, state, rendered>>, GlobStart',
         \/ Fires /\ (PlainTypes(events) => Denotes(rules[rule], Text))
         \/ NextRule /\ (PlainTypes(events) => ~Denotes(rules[rule], Text))
  PROVE  RendererInv'
<1>1. /\ Len(events) \in Nat /\ Len(rules) \in Nat
      /\ event \in 1..Len(events) /\ rule \in 1..Len(rules) /\ Text = events[event].type
  BY AtEventAndRule DEF RendererInv
<1>2. RendererTypes'
  BY <1>1 DEF RendererInv, RendererTypes, Fires, NextRule
<1>3. GlobInv'
  BY DEF GlobInv, Fires, NextRule
<1>4. RenderIsReference'
  BY DEF RendererInv, RenderIsReference
<1>5. RenderProgress'
  <2> SUFFICES ASSUME PlainTypes(events)
               PROVE  /\ AreThrough(rules, events, event, state)
                      /\ NoneBefore(rules, rule', events[event].type)
                      /\ stage' = "fire" => Denotes(rules[rule'], events[event].type)
    BY DEF RenderProgress
  <2>1. AreThrough(rules, events, event, state) /\ NoneBefore(rules, rule, events[event].type)
    BY <1>1 DEF RendererInv, RenderProgress
  <2>2. CASE Fires
    <3>1. Denotes(rules[rule], Text)
      BY <2>2 DEF Fires, NextRule
    <3> QED
      BY <1>1, <2>1, <2>2, <3>1 DEF Fires
  <2>3. CASE NextRule
    <3>1. ~Denotes(rules[rule], Text) /\ rule' = rule + 1 /\ stage' = "event"
      BY <2>3 DEF Fires, NextRule
    <3>2. \A i \in 1..(rule' - 1) : i \in 1..(rule - 1) \/ i = rule
      BY <1>1, <3>1
    <3> QED
      BY <1>1, <2>1, <3>1, <3>2 DEF NoneBefore
  <2> QED
    BY <2>2, <2>3
<1> QED
  BY <1>2, <1>3, <1>4, <1>5 DEF RendererInv

LEMMA MatchExactKeeps ==
  ASSUME RendererInv, MatchExact
  PROVE  RendererInv'
<1>1. /\ stage = "event" /\ event <= Len(events) /\ rule <= Len(rules)
      /\ rules[rule].kind = "exact"
      /\ IF Pattern = Text THEN Fires ELSE NextRule
      /\ UNCHANGED <<rules, events, event, globVars, state, rendered>>
  BY DEF MatchExact
<1>2. GlobStart'
  BY <1>1 DEF RendererInv, GlobInv, GlobStart, globVars
<1>3. Denotes(rules[rule], Text) <=> Pattern = Text
  BY <1>1 DEF Denotes, Pattern
<1> QED
  BY <1>1, <1>2, <1>3, DecisionKeeps

LEMMA StartGlobKeeps ==
  ASSUME RendererInv, StartGlob
  PROVE  RendererInv'
<1>1. /\ stage = "event" /\ event <= Len(events) /\ rule <= Len(rules)
      /\ rules[rule].kind = "glob" /\ stage' = "glob"
      /\ UNCHANGED <<rules, events, event, rule, globVars, state, rendered>>
  BY DEF StartGlob
<1>2. Len(Pattern) \in Nat /\ Len(Text) \in Nat
  BY <1>1, AtEventAndRule DEF RendererInv
<1>3. GlobOf(Pattern, Text)
  <2>1. PICK p, t : p = Pattern /\ t = Text
    OBVIOUS
  <2>2. GlobStart
    BY <1>1 DEF RendererInv, GlobInv
  <2>3. GlobOf(p, t)
    BY <1>2, <2>1, <2>2, GlobBegins
  <2> QED
    BY <2>1, <2>3
<1>4. GlobOf(Pattern, Text)'
  BY <1>1, <1>3 DEF GlobOf, GlobIndexes, GlobSound, GlobComplete, globVars, Pattern, Text
<1>5. GlobInv'
  BY <1>1, <1>4 DEF GlobInv
<1>6. RendererTypes' /\ RenderProgress' /\ RenderIsReference'
  BY <1>1 DEF RendererInv, RendererTypes, RenderProgress, RenderIsReference
<1> QED
  BY <1>5, <1>6 DEF RendererInv

\* The loop has come to its answer.
LEMMA LoopEndKeeps ==
  ASSUME RendererInv, NoMatch \/ PatternUsedUp
  PROVE  RendererInv'
<1>1. stage = "glob" /\ UNCHANGED <<rules, events, event, state, rendered>> /\ GlobStart'
  BY DEF NoMatch, PatternUsedUp, InText, GlobUnchanged, LeaveGlob, GlobStart
<1>2. event <= Len(events) /\ rule <= Len(rules) /\ rules[rule].kind = "glob"
      /\ GlobOf(Pattern, Text)
  BY <1>1 DEF RendererInv, RendererTypes, GlobInv
<1>3. /\ Len(Pattern) \in Nat /\ Len(Text) \in Nat
      /\ PlainTypes(events) => PlainText(Text)
  BY <1>1, <1>2, AtEventAndRule DEF RendererInv
<1>4. Denotes(rules[rule], Text) <=> GlobDenotes(Pattern, Text)
  BY <1>2 DEF Denotes, Pattern
<1>5. PICK p, t : p = Pattern /\ t = Text
  OBVIOUS
<1>6. /\ PatternUsedUp /\ pattern_idx = Len(p) => GlobDenotes(p, t)
      /\ PatternUsedUp /\ pattern_idx # Len(p) /\ PlainText(t) => ~GlobDenotes(p, t)
      /\ NoMatch /\ PlainText(t) => ~GlobDenotes(p, t)
  BY <1>2, <1>3, <1>5, GlobDecides
<1>7. \/ Fires /\ (PlainTypes(events) => Denotes(rules[rule], Text))
      \/ NextRule /\ (PlainTypes(events) => ~Denotes(rules[rule], Text))
  <2>1. CASE NoMatch
    BY <1>3, <1>4, <1>5, <1>6, <2>1 DEF NoMatch
  <2>2. CASE PatternUsedUp /\ pattern_idx = Len(Pattern)
    BY <1>4, <1>5, <1>6, <2>2 DEF PatternUsedUp
  <2>3. CASE PatternUsedUp /\ pattern_idx # Len(Pattern)
    BY <1>3, <1>4, <1>5, <1>6, <2>3 DEF PatternUsedUp
  <2> QED
    BY <2>1, <2>2, <2>3
<1> QED
  BY <1>1, <1>2, <1>7, DecisionKeeps

\* What the rule that fires says of its event.
LEMMA FiresFirst ==
  ASSUME RendererInv, stage = "fire"
  PROVE  /\ event \in 1..Len(events) /\ rule \in 1..Len(rules)
         /\ Len(events) \in Nat /\ Len(rules) \in Nat
         /\ PlainTypes(events) =>
              /\ AreThrough(rules, events, event, state)
              /\ FirstMatch(rules, events[event].type) = rule
<1>1. /\ event \in 1..Len(events) /\ rule \in 1..Len(rules)
      /\ Len(events) \in Nat /\ Len(rules) \in Nat /\ rules \in Seq(Rule)
  BY AtEventAndRule DEF RendererInv, RendererTypes
<1>2. ASSUME PlainTypes(events)
      PROVE  AreThrough(rules, events, event, state)
             /\ FirstMatch(rules, events[event].type) = rule
  <2>1. /\ AreThrough(rules, events, event, state)
        /\ NoneBefore(rules, rule, events[event].type)
        /\ Denotes(rules[rule], events[event].type)
    BY <1>1, <1>2 DEF RendererInv, RenderProgress
  <2> QED
    BY <1>1, <2>1, FirstIs DEF NoneBefore
<1> QED
  BY <1>1, <1>2

\* An event is through, and the next one's turn has come.
LEMMA NextEventKeeps ==
  ASSUME RendererInv, ReduceEvent \/ Ignore
  PROVE  RendererInv'
<1>1. stage = "fire" /\ stage' = "event" /\ event' = event + 1 /\ rule' = 1
      /\ UNCHANGED <<rules, events, globVars, rendered>>
  BY DEF ReduceEvent, Ignore, NextEvent
<1>2. /\ event \in 1..Len(events) /\ rule \in 1..Len(rules)
      /\ Len(events) \in Nat /\ Len(rules) \in Nat
      /\ PlainTypes(events) =>
              /\ AreThrough(rules, events, event, state)
              /\ FirstMatch(rules, events[event].type) = rule
  BY <1>1, FiresFirst
<1>3. state' \in Seq(Nat \X Nat)
  <2>1. state \in Seq(Nat \X Nat) /\ <<rule, event>> \in Nat \X Nat
    BY <1>2 DEF RendererInv, RendererTypes
  <2>2. state' = state \/ state' = Append(state, <<rule, event>>)
    BY DEF ReduceEvent, Ignore
  <2>3. Append(state, <<rule, event>>) \in Seq(Nat \X Nat)
    BY <2>1, AppendIsIn
  <2> QED
    BY <2>1, <2>2, <2>3
<1>4. RendererTypes'
  BY <1>1, <1>2, <1>3 DEF RendererInv, RendererTypes
<1>5. GlobInv' /\ RenderIsReference'
  BY <1>1 DEF RendererInv, GlobInv, GlobStart, globVars, RenderIsReference
<1>6. RenderProgress'
  <2> SUFFICES ASSUME PlainTypes(events)
               PROVE  /\ AreThrough(rules, events, event', state')
                      /\ event' <= Len(events) => NoneBefore(rules, 1, events[event'].type)
    BY <1>1 DEF RenderProgress
  <2>1. NoneBefore(rules, 1, events[event'].type)
    BY DEF NoneBefore
  <2>2. /\ AreThrough(rules, events, event, state)
        /\ FirstMatch(rules, events[event].type) = rule /\ rule # 0
    BY <1>2
  <2>3. PICK n \in Nat : n = event - 1
    BY <1>2
  <2>4. event = n + 1 /\ event' - 1 = n + 1 /\ AreReductions(rules, state, events, n)
    BY <1>1, <1>2, <2>2, <2>3 DEF AreThrough
  <2>5. CASE ReduceEvent
    <3>1. /\ rules[rule].action = "reduce" /\ events[event].valid
          /\ state' = Append(state, <<rule, event>>)
      BY <2>5 DEF ReduceEvent
    <3>2. IsReduced(rules, events[event].type) /\ ~IsObstacle(rules, events[event])
      BY <2>2, <3>1 DEF IsReduced, IsObstacle
    <3>3. PICK made, next : made = state /\ next = <<rule, event>>
      OBVIOUS
    <3>4. made \in Seq(Nat \X Nat) /\ next \in Nat \X Nat
      BY <1>2, <3>3 DEF RendererInv, RendererTypes
    <3>5. AreReductions(rules, made, events, n)
      BY <2>4, <3>3
    <3>6. IsReduced(rules, events[n + 1].type)
      BY <2>4, <3>2
    <3>7. next = <<FirstMatch(rules, events[n + 1].type), n + 1>>
      BY <2>2, <2>4, <3>3
    <3>8. AreReductions(rules, Append(made, next), events, n + 1)
      BY <3>5, <3>6, <3>7, <3>4, ReductionsGoOn
    <3>9. AreReductions(rules, state', events, event' - 1)
      BY <2>4, <3>1, <3>3, <3>8
    <3>10. \A i \in 1..(event' - 1) : i \in 1..(event - 1) \/ i = event
      BY <1>1, <1>2
    <3> QED
      BY <2>1, <2>2, <3>2, <3>9, <3>10 DEF AreThrough
  <2>6. CASE Ignore
    <3>1. rules[rule].action = "ignore" /\ state' = state
      BY <2>6 DEF Ignore
    <3>2. ~IsReduced(rules, events[event].type) /\ ~IsObstacle(rules, events[event])
      BY <2>2, <3>1 DEF IsReduced, IsObstacle
    <3>3. AreReductions(rules, state', events, event' - 1)
      BY <2>4, <3>1, <3>2, ReductionsSkip
    <3>4. \A i \in 1..(event' - 1) : i \in 1..(event - 1) \/ i = event
      BY <1>1, <1>2
    <3> QED
      BY <2>1, <2>2, <3>2, <3>3, <3>4 DEF AreThrough
  <2> QED
    BY <2>5, <2>6
<1> QED
  BY <1>4, <1>5, <1>6 DEF RendererInv

\* What an answer to a stream has to be: RenderIsReference of it.
IsReference(answer, rs) ==
  LET stream == answer.stream
      obstacles == {i \in 1..Len(stream) : IsObstacle(rs, stream[i])}
  IN PlainTypes(stream) =>
       IF obstacles = {}
         THEN /\ answer.kind = "entity"
              /\ AreReductions(rs, answer.state, stream, Len(stream))
         ELSE /\ answer.at \in obstacles
              /\ \A i \in obstacles : answer.at <= i
              /\ answer.kind = IF FirstMatch(rs, stream[answer.at].type) = 0
                                 THEN "unhandled" ELSE "failed"

LEMMA AnswerKeeps ==
  ASSUME RendererInv, NEW answer, RenderAnswers(answer), UNCHANGED globVars, stage # "glob",
         IsReference(answer, rules)
  PROVE  RendererInv'
<1>1. stage' = "idle" /\ state' = <<>> /\ rules' = rules /\ rendered' = answer
  BY DEF RenderAnswers
<1>2. RendererTypes' /\ RenderProgress'
  BY <1>1 DEF RendererInv, RendererTypes, RenderProgress
<1>3. GlobInv'
  BY <1>1 DEF RendererInv, GlobInv, GlobStart, globVars
<1>4. RenderIsReference'
  BY <1>1 DEF RenderIsReference, IsReference, PlainTypes, PlainText
<1> QED
  BY <1>2, <1>3, <1>4 DEF RendererInv

LEMMA AnswersKeep ==
  ASSUME RendererInv, Rendered \/ UnhandledEventType \/ ApplyFailed
  PROVE  RendererInv'
<1>1. CASE Rendered
  <2>1. PICK answer : answer = [stream |-> events, kind |-> "entity", at |-> Len(events),
                                state |-> state]
    OBVIOUS
  <2>2. stage = "event" /\ event > Len(events) /\ RenderAnswers(answer) /\ UNCHANGED globVars
    BY <1>1, <2>1 DEF Rendered
  <2>3. Len(events) \in Nat /\ event - 1 = Len(events)
    BY <2>2 DEF RendererInv, RendererTypes, Stream
  <2>4. PlainTypes(events) => AreThrough(rules, events, event, state)
    BY <2>2 DEF RendererInv, RenderProgress
  <2>5. IsReference(answer, rules)
    BY <2>1, <2>3, <2>4 DEF IsReference, AreThrough
  <2> QED
    BY <2>2, <2>5, AnswerKeeps
<1>2. CASE UnhandledEventType
  <2>1. PICK answer : answer = [stream |-> events, kind |-> "unhandled", at |-> event,
                                state |-> <<>>]
    OBVIOUS
  <2>2. /\ stage = "event" /\ event <= Len(events) /\ rule > Len(rules)
        /\ RenderAnswers(answer) /\ UNCHANGED globVars
    BY <1>2, <2>1 DEF UnhandledEventType
  <2>3. Len(events) \in Nat /\ event \in 1..Len(events) /\ Len(rules) \in Nat
        /\ rule - 1 = Len(rules)
    BY <2>2 DEF RendererInv, RendererTypes, Stream
  <2>4. PlainTypes(events) => /\ AreThrough(rules, events, event, state)
                              /\ NoneBefore(rules, rule, events[event].type)
    BY <2>2 DEF RendererInv, RenderProgress
  <2>5. PlainTypes(events) => FirstMatch(rules, events[event].type) = 0
    BY <2>3, <2>4, NoFirst DEF NoneBefore
  <2>6. PlainTypes(events) => IsObstacle(rules, events[event])
    BY <2>5 DEF IsObstacle
  <2>7. PlainTypes(events) => \A i \in 1..Len(events) : IsObstacle(rules, events[i]) => event <= i
    BY <2>3, <2>4 DEF AreThrough
  <2>8. IsReference(answer, rules)
    BY <2>1, <2>3, <2>5, <2>6, <2>7 DEF IsReference
  <2> QED
    BY <2>2, <2>8, AnswerKeeps
<1>3. CASE ApplyFailed
  <2>1. PICK answer : answer = [stream |-> events, kind |-> "failed", at |-> event,
                                state |-> <<>>]
    OBVIOUS
  <2>2. /\ stage = "fire" /\ rules[rule].action = "reduce" /\ ~events[event].valid
        /\ RenderAnswers(answer) /\ UNCHANGED globVars
    BY <1>3, <2>1 DEF ApplyFailed
  <2>3. /\ event \in 1..Len(events) /\ rule \in 1..Len(rules)
        /\ Len(events) \in Nat /\ Len(rules) \in Nat
        /\ PlainTypes(events) =>
              /\ AreThrough(rules, events, event, state)
              /\ FirstMatch(rules, events[event].type) = rule
    BY <2>2, FiresFirst
  <2>4. rule # 0
    BY <2>3
  <2>5. PlainTypes(events) => IsObstacle(rules, events[event])
    BY <2>2, <2>3, <2>4 DEF IsObstacle, IsReduced
  <2>6. PlainTypes(events) => \A i \in 1..Len(events) : IsObstacle(rules, events[i]) => event <= i
    BY <2>3 DEF AreThrough
  <2>7. IsReference(answer, rules)
    BY <2>1, <2>3, <2>4, <2>5, <2>6 DEF IsReference
  <2> QED
    BY <2>2, <2>7, AnswerKeeps
<1> QED
  BY <1>1, <1>2, <1>3

\* What the caller does between two calls.
LEMMA CallerKeeps ==
  ASSUME RendererInv,
         \/ \E r \in RulesAfter(rules) : Register(r)
         \/ \E stream \in StreamsFor(rules) : RenderStream(stream)
         \/ TakeAnswer \/ UNCHANGED rendererVars
  PROVE  RendererInv'
<1>1. ASSUME NEW r, Register(r) PROVE RendererInv'
  <2>1. /\ stage = "idle" /\ rendered = NoEntity /\ rules' = Append(rules, r) /\ r \in Rule
        /\ UNCHANGED <<events, event, rule, stage, globVars, state, rendered>>
    BY <1>1 DEF Register, IsRule
  <2>2. rules' \in Seq(Rule)
    BY <2>1 DEF RendererInv, RendererTypes
  <2>3. RendererTypes'
    BY <2>1, <2>2 DEF RendererInv, RendererTypes
  <2> QED
    BY <2>1, <2>3
    DEF RendererInv, GlobInv, GlobStart, globVars, RenderProgress, RenderIsReference
<1>2. ASSUME NEW stream, RenderStream(stream) PROVE RendererInv'
  <2>1. /\ stage = "idle" /\ stream \in Stream /\ events' = stream /\ event' = 1 /\ rule' = 1
        /\ state' = <<>> /\ stage' = "event" /\ rendered = NoEntity
        /\ UNCHANGED <<rules, globVars, rendered>>
    BY <1>2 DEF RenderStream
  <2>2. Len(stream) \in Nat /\ Len(rules) \in Nat
    BY <2>1 DEF Stream, RendererInv, RendererTypes
  <2>3. RendererTypes'
    BY <2>1, <2>2 DEF RendererInv, RendererTypes
  <2>4. AreThrough(rules, stream, 1, <<>>)
    BY DEF AreThrough, AreReductions
  <2>5. NoneBefore(rules, 1, stream[1].type)
    BY DEF NoneBefore
  <2>6. RenderProgress'
    BY <2>1, <2>4, <2>5 DEF RenderProgress
  <2> QED
    BY <2>1, <2>3, <2>6 DEF RendererInv, GlobInv, GlobStart, globVars, RenderIsReference
<1>3. CASE TakeAnswer
  <2>1. /\ rendered' = NoEntity
        /\ UNCHANGED <<rules, events, event, rule, stage, globVars, state>>
    BY <1>3 DEF TakeAnswer
  <2> QED
    BY <2>1 DEF RendererInv, RendererTypes, GlobInv, GlobStart, globVars, RenderProgress,
                RenderIsReference, GlobOf, GlobIndexes, GlobSound, GlobComplete, Pattern, Text
<1>4. CASE UNCHANGED rendererVars
  BY <1>4 DEF RendererInv, RendererTypes, GlobInv, GlobStart, rendererVars, globVars, RenderProgress,
              RenderIsReference, GlobOf, GlobIndexes, GlobSound, GlobComplete, Pattern, Text
<1> QED
  BY <1>1, <1>2, <1>3, <1>4

LEMMA RendererInvariance == RendererSpec => []RendererInv
<1>1. RendererInit => RendererInv
  BY RendererBegins
<1>2. RendererInv /\ [RendererNext]_rendererVars => RendererInv'
  <2> SUFFICES ASSUME RendererInv, [RendererNext]_rendererVars PROVE RendererInv'
    OBVIOUS
  <2>1. CASE MatchCharacter \/ TakeStar \/ Backtrack \/ SkipStar
    BY <2>1, LoopKeeps
  <2>2. CASE NoMatch \/ PatternUsedUp
    BY <2>2, LoopEndKeeps
  <2>3. CASE MatchExact
    BY <2>3, MatchExactKeeps
  <2>4. CASE StartGlob
    BY <2>4, StartGlobKeeps
  <2>5. CASE ReduceEvent \/ Ignore
    BY <2>5, NextEventKeeps
  <2>6. CASE Rendered \/ UnhandledEventType \/ ApplyFailed
    BY <2>6, AnswersKeep
  <2>7. CASE \/ \E r \in RulesAfter(rules) : Register(r)
             \/ \E stream \in StreamsFor(rules) : RenderStream(stream)
             \/ TakeAnswer \/ UNCHANGED rendererVars
    BY <2>7, CallerKeeps
  <2> QED
    BY <2>1, <2>2, <2>3, <2>4, <2>5, <2>6, <2>7 DEF RendererNext, RenderStep
<1> QED
  BY <1>1, <1>2, PTL DEF RendererSpec

\* What render() returns is what the rules say: every event is reduced or
\* ignored by the first rule that matches its type, and the first event that
\* cannot be is the one reported (renderer.rs, render and glob_matches), for any
\* rules and any stream whose types hold no '*'.
THEOREM RendersAsDeclared == RendererSpec => []RenderIsReference
<1>1. RendererInv => RenderIsReference
  BY DEF RendererInv
<1> QED
  BY <1>1, RendererInvariance, PTL

=============================================================================
