--------------------------- MODULE PartitionNames ---------------------------
(***************************************************************************)
(* How an aggregate's id becomes the name of a partition, the name becomes *)
(* a file or a database, and a process that knows nothing but the files or *)
(* databases gets back to the ids: crates/wee-events/src/id.rs,            *)
(* crates/wee-events-sqlite/src/event_store: strategies, backends,         *)
(* turso_platform/sanitize.rs.                                             *)
(*                                                                         *)
(* Names are sequences of characters.  Calls run one at a time, each in a  *)
(* process of its own that has nothing cached (Partitions has the caches   *)
(* and the interleavings).  Two applications, told apart by their prefix   *)
(* or by their root directory, keep their events in one place.  The 64 bits *)
(* of stable_hash_hex, and the 32 of it in a prefix, are taken to collide  *)
(* for no two names in use, so a hash is the text it was made from; Base32 *)
(* is a bijection (external), so an encoded path is the name itself.       *)
(***************************************************************************)
EXTENDS Naturals, FiniteSets, SequencesExt, TLC

CONSTANTS Ids,             \* the aggregate ids in use: [type, key]
          Apps,            \* the prefixes (root directories) of the applications
          Strategies,      \* bound: which strategies to look at
          Catalogs,        \*   and which catalogs
          LowerOf,         \* lower case of the letters and digits there are
          BucketOf(_),     \* hash_aggregate_id(id) % buckets
          Partitioner(_),  \* the closure of a PartitionByStrategy
          MaxStored,       \* bound on the databases written to
          NoName           \* nothing recorded; no answer

Colon == ":"
Dash == "-"

\* A name or the part of one.
IsText(s) == s \in Seq(ToSet(s))

\* AggregateId: Display, and FromStr, which splits at the first colon.
Display(id) == id.type \o <<Colon>> \o id.key

Colons(s) == {i \in 1..Len(s) : s[i] = Colon}
FirstColon(s) == CHOOSE i \in Colons(s) : \A j \in Colons(s) : i <= j

Parses(s) == Colons(s) # {} /\ FirstColon(s) # 1 /\ FirstColon(s) # Len(s)

FromStr(s) ==
  [type |-> SubSeq(s, 1, FirstColon(s) - 1), key |-> SubSeq(s, FirstColon(s) + 1, Len(s))]

----------------------------------------------------------------------------
(* Strategies.  A partition is its name and its key; its identity is both. *)

Default == [kind |-> "default"]
Named(name, key) == [kind |-> "named", name |-> name, key |-> key]
RecordedName(partition) == IF partition = Default THEN NoName ELSE partition.name
BucketPrefix == <<"b", "u", "c", "k", "e", "t", Dash>>

\* AggregateStrategy: the name is the id as text, and is read back as one; no
\* partition stands for a configuration error.
AggregatePartition(id) == Named(Display(id), id)

\* Mutant of AggregateFromName: split at the last colon.
AggregateFromNameLast(name) ==
  LET c == CHOOSE i \in Colons(name) : \A j \in Colons(name) : j <= i
  IN {Named(name, [type |-> SubSeq(name, 1, c - 1), key |-> SubSeq(name, c + 1, Len(name))])}

AggregateFromName(name) == IF Parses(name) THEN {Named(name, FromStr(name))} ELSE {}

\* A plan: the aggregates named without looking, and those a scan may find.
\* A type of NoName stands for all types.
AggregatePlan(partition, type) ==
  [direct |-> {id \in {partition.key} : type \in {NoName, id.type}}, scan |-> {}]

\* TypeStrategy
TypePartition(id) == Named(id.type, id.type)
TypeFromName(name) == {Named(name, name)}
TypePlan(partition, type) ==
  [direct |-> {},
   scan |-> IF type \in {NoName, partition.key}
              THEN {id \in Ids : id.type = partition.key} ELSE {}]

\* HashedStrategy: "bucket-" and the number of the bucket.
BucketPartition(id) == Named(Append(BucketPrefix, BucketOf(id)), BucketOf(id))
IsBucketName(name) == Len(name) > Len(BucketPrefix) /\ IsPrefix(BucketPrefix, name)
BucketFromName(name) == IF IsBucketName(name) THEN {Named(name, Last(name))} ELSE {}

\* PartitionByStrategy: whatever the closure makes of an id.
ClosurePartition(id) == Named(Partitioner(id), Partitioner(id))
ClosureFromName(name) == {Named(name, name)}

\* HashedStrategy, PartitionByStrategy and GlobalStrategy scan for all events,
\* or for those of the type.
ScanPlan(type) == [direct |-> {}, scan |-> {id \in Ids : type \in {NoName, id.type}}]

\* GlobalStrategy: one partition, which is there from the start and has no name.
GlobalFromName(name) == {}
Bootstrap(kind) == IF kind = "global" THEN {Default} ELSE {}

\* What the traits promise of any strategy: partition_for_aggregate(),
\* partition_from_name(), read_plan() and read_plan_by_type().
PartitionFor(kind, id) ==
  CASE kind = "aggregate" -> AggregatePartition(id)
    [] kind = "type" -> TypePartition(id)
    [] kind = "hashed" -> BucketPartition(id)
    [] kind = "by" -> ClosurePartition(id)
    [] kind = "global" -> Default

PartitionFromName(kind, name) ==
  CASE kind = "aggregate" -> AggregateFromName(name)
    [] kind = "type" -> TypeFromName(name)
    [] kind = "hashed" -> BucketFromName(name)
    [] kind = "by" -> ClosureFromName(name)
    [] kind = "global" -> GlobalFromName(name)

ReadPlan(kind, partition, type) ==
  CASE kind = "aggregate" -> AggregatePlan(partition, type)
    [] kind = "type" -> TypePlan(partition, type)
    [] OTHER -> ScanPlan(type)

\* Ids are two texts, names are texts, and NoName is none.
ASSUME NamesAssumption ==
  /\ Strategies \subseteq {"aggregate", "type", "hashed", "by", "global"}
  /\ Catalogs \subseteq {"local", "named", "single"}
  /\ \A prefix \in Apps : IsText(prefix)
  /\ \A id \in Ids :
       /\ id = [type |-> id.type, key |-> id.key]
       /\ IsText(id.type) /\ IsText(id.key) /\ IsText(Partitioner(id))
       /\ NoName \notin {Display(id), id.type, Partitioner(id),
                        Append(BucketPrefix, BucketOf(id))}

----------------------------------------------------------------------------
(* The names of remote databases: sanitize.rs.                             *)

StripDashes(s) ==
  LET kept == {i \in 1..Len(s) : s[i] # Dash}
  IN SubSeq(s, 1, IF kept = {} THEN 0 ELSE CHOOSE i \in kept : \A j \in kept : j <= i)

\* One more character: letters and digits in lower case, any others as a dash
\* unless there is one, up to a number of characters.
PushCharacter(fragment, c, limit) ==
  IF Len(fragment) >= limit THEN fragment
  ELSE IF c \in DOMAIN LowerOf THEN Append(fragment, LowerOf[c])
  ELSE IF fragment = <<>> \/ Last(fragment) = Dash THEN fragment
  ELSE Append(fragment, Dash)

\* The characters of a text, one after the other, with no dash at either end.
SanitizeFragment(raw, limit) ==
  LET pushed[n \in 0..Len(raw)] ==
        IF n = 0 THEN <<>> ELSE PushCharacter(pushed[n - 1], raw[n], limit)
  IN StripDashes(pushed[Len(raw)])

PrefixFragmentLimit == 12
PrefixHashLen == 8
HashLen == 16
NameLimit == 51

\* named_database_prefix(): a fragment, a dash, eight digits of the hash.
NamedDatabasePrefix(prefix) ==
  LET fragment == SanitizeFragment(prefix, PrefixFragmentLimit)
  IN [fragment |-> IF fragment = <<>> THEN <<"d", "b">> ELSE fragment, hash |-> prefix]
PrefixLength(prefix) == Len(NamedDatabasePrefix(prefix).fragment) + 1 + PrefixHashLen

\* sanitize_database_name(): the empty name is the default partition's.
DatabaseName(name, prefix) ==
  IF name = <<>> THEN [default |-> SanitizeFragment(prefix, NameLimit)]
  ELSE [prefix |-> NamedDatabasePrefix(prefix),
        fragment |-> SanitizeFragment(name, NameLimit - PrefixLength(prefix) - HashLen - 2),
        hash |-> name]

\* Mutant of Target: two names that sanitize alike share a database.
TargetByFragment(kind, prefix, name) ==
  CASE kind = "single" -> [root |-> prefix, name |-> NoName]
    [] kind = "local" -> [root |-> prefix, name |-> name]
    [] kind = "named" /\ name \in {NoName, <<>>} -> DatabaseName(<<>>, prefix)
    [] OTHER -> [DatabaseName(name, prefix) EXCEPT !.hash = <<>>]

\* path_for_partition() and db_name_for(): a file in a directory, the one file
\* or database of a single-target catalog, or a named database.
Target(kind, prefix, name) ==
  CASE kind = "single" -> [root |-> prefix, name |-> NoName]
    [] kind = "local" -> [root |-> prefix, name |-> name]
    [] kind = "named" -> DatabaseName(IF name = NoName THEN <<>> ELSE name, prefix)

\* What a directory or the platform lists for a prefix: files of the root, or
\* databases whose name starts with the named prefix.
Listable(kind, prefix, target) ==
  IF kind = "named"
    THEN "prefix" \in DOMAIN target /\ target.prefix = NamedDatabasePrefix(prefix)
    ELSE target.root = prefix /\ target.name # NoName

----------------------------------------------------------------------------

VARIABLES strategy, catalog,  \* of both applications, chosen once
          databases,          \* databases[t]: the name recorded in t and the ids stored
          used, stored,       \* history: the ids each application has opened a
                              \*   database for, and those it has stored events of
          result              \* what the last call returned, or NoName

namesVars == <<strategy, catalog, databases, used, stored, result>>

NamesInit ==
  /\ strategy \in Strategies
  /\ catalog \in {c \in Catalogs : c = "single" => strategy = "global"}
  /\ databases = [t \in {} |-> {}]
  /\ used = {}
  /\ stored = {}
  /\ result = NoName

\* The partitions and targets there are.
PartitionOf == [kind \in Strategies |-> [id \in Ids |-> PartitionFor(kind, id)]]
NamesInUse ==
  {RecordedName(PartitionFor(kind, id)) : kind \in Strategies, id \in Ids} \cup {NoName}
Targets ==
  [kind \in Catalogs |->
     [prefix \in Apps |-> [name \in NamesInUse |-> Target(kind, prefix, name)]]]

TargetFor(prefix, partition) == Targets[catalog][prefix][RecordedName(partition)]

\* ensure_partition_name(): the first name to come is recorded, any other is
\* refused.
Admits(target, partition) ==
  target \in DOMAIN databases =>
    databases[target].name \in {NoName, RecordedName(partition)}

RowsOf(target) == IF target \in DOMAIN databases THEN databases[target].rows ELSE {}

\* The databases, with one of them created or written to.
Put(target, name, rows) ==
  [t \in DOMAIN databases \cup {target} |->
     IF t = target THEN [name |-> name, rows |-> rows] ELSE databases[t]]

\* ensure_partition_open() and an accepted publish.
StoreEvents(prefix, id) ==
  LET partition == PartitionOf[strategy][id]
      target == TargetFor(prefix, partition)
  IN /\ result = NoName
     /\ Cardinality(used \cup {<<prefix, id>>}) <= MaxStored
     /\ Admits(target, partition)
     /\ databases' = Put(target, RecordedName(partition), RowsOf(target) \cup {id})
     /\ stored' = stored \cup {<<prefix, id>>}
     /\ used' = used \cup {<<prefix, id>>}
     /\ UNCHANGED <<strategy, catalog, result>>

\* The process dies when it has created the database and not yet named it.
CreateOnly(prefix, id) ==
  LET target == TargetFor(prefix, PartitionOf[strategy][id])
  IN /\ result = NoName
     /\ target \notin DOMAIN databases
     /\ Cardinality(used) < MaxStored
     /\ databases' = Put(target, NoName, {})
     /\ used' = used \cup {<<prefix, id>>}
     /\ UNCHANGED <<strategy, catalog, stored, result>>

\* load(): open_partition_if_exists() prepares what it opens.
LoadEvents(prefix, id) ==
  LET partition == PartitionOf[strategy][id]
      target == TargetFor(prefix, partition)
      admitted == Admits(target, partition)
  IN /\ result = NoName
     /\ databases' = IF target \in DOMAIN databases /\ admitted
                       THEN Put(target, RecordedName(partition), RowsOf(target)) ELSE databases
     /\ result' = [op |-> "load", prefix |-> prefix, of |-> {id}, ok |-> admitted,
                   ids |-> IF admitted THEN RowsOf(target) \cap {id} ELSE {}]
     /\ UNCHANGED <<strategy, catalog, used, stored>>

\* What is known of a listed database: the name in its metadata or, without,
\* the name of its file; or what the strategy makes of its events, of which
\* there are none, since every writer has recorded the name first.
NamesListed(prefix) ==
  {IF catalog = "local" THEN t.name ELSE databases[t].name :
     t \in {t \in DOMAIN databases : Listable(catalog, prefix, t)
                                    /\ (catalog = "named" => databases[t].name # NoName)}}

\* The backend's name of a database without metadata is no bucket's.
NamelessFails(prefix) ==
  /\ catalog = "named" /\ strategy = "hashed"
  /\ \E t \in DOMAIN databases : Listable(catalog, prefix, t) /\ databases[t].name = NoName

\* With "by" a database without metadata gives its partition the backend's name,
\* which no event was stored under: opening it is a second database, if any.
KnownPartitions(prefix) ==
  Bootstrap(strategy)
    \cup UNION {PartitionFromName(strategy, n) : n \in NamesListed(prefix)}

ListingFails(prefix) ==
  \/ NamelessFails(prefix)
  \/ \E n \in NamesListed(prefix) : PartitionFromName(strategy, n) = {}

\* enumerate_aggregates() and, for a type, enumerate_aggregates_by_type().
EnumerateIds(prefix, type) ==
  LET partitions == IF ListingFails(prefix) THEN {} ELSE KnownPartitions(prefix)
      plan == [p \in partitions |-> ReadPlan(strategy, p, type)]
      opened == {p \in partitions : /\ plan[p].scan # {}
                                    /\ TargetFor(prefix, p) \in DOMAIN databases}
      ok == ~ListingFails(prefix) /\ \A p \in opened : Admits(TargetFor(prefix, p), p)
  IN /\ result = NoName
     /\ result' = [op |-> "enumerate", prefix |-> prefix, ok |-> ok,
                   of |-> {id \in Ids : type \in {NoName, id.type}},
                   ids |-> IF ~ok THEN {}
                           ELSE (UNION {plan[p].direct : p \in partitions})
                                  \cup UNION {RowsOf(TargetFor(prefix, p)) \cap plan[p].scan :
                                                p \in opened}]
     /\ databases' =
          [t \in DOMAIN databases |->
             IF \E p \in opened : TargetFor(prefix, p) = t /\ ok
               THEN [databases[t] EXCEPT
                       !.name = RecordedName(CHOOSE p \in opened : TargetFor(prefix, p) = t)]
               ELSE databases[t]]
     /\ UNCHANGED <<strategy, catalog, used, stored>>

\* The answer is used, and the process ends.
ProcessEnds ==
  /\ result # NoName
  /\ result' = NoName
  /\ UNCHANGED <<strategy, catalog, databases, used, stored>>

NamesNext ==
  \/ ProcessEnds
  \/ \E prefix \in Apps :
       \/ \E id \in Ids :
            StoreEvents(prefix, id) \/ CreateOnly(prefix, id) \/ LoadEvents(prefix, id)
       \/ \E type \in {id.type : id \in Ids} \cup {NoName} : EnumerateIds(prefix, type)

NamesSpec == NamesInit /\ [][NamesNext]_namesVars

----------------------------------------------------------------------------

\* What AggregateId::new() trusts its caller with: "simple kebab-case" types.
WellFormed(id) == id.type # <<>> /\ Colons(id.type) = {} /\ id.key # <<>>

\* Where names mean what they are used for.  A file per aggregate reads ids
\* back from names; a remote database of the empty name is the default one,
\* which no listing of named databases shows; and the name of the default
\* database is a prefix without a hash, which two prefixes may have in common.
Trusted(prefix) ==
  /\ strategy = "aggregate" =>
       \A u \in used : u[1] = prefix => WellFormed(u[2])
  /\ catalog = "named" =>
       \A u \in used : PartitionOf[strategy][u[2]] # Default =>
                         PartitionOf[strategy][u[2]].name # <<>>
  /\ catalog = "named" /\ strategy = "global" =>
       \A app \in Apps \ {prefix} :
         SanitizeFragment(app, NameLimit) # SanitizeFragment(prefix, NameLimit)

\* A process that starts with nothing but the files or databases finds every
\* aggregate its application has stored, under the id it was stored under, by
\* loading it and by enumerating all ids or those of a type, and finds no other
\* application's; except that a file per aggregate speaks for an aggregate
\* without events, and that a bucket without a name makes the listing fail.
FreshProcessFinds ==
  result # NoName /\ Trusted(result.prefix)
    /\ ~(result.op = "enumerate" /\ NamelessFails(result.prefix)) =>
    LET due == {id \in result.of : <<result.prefix, id>> \in stored}
    IN /\ result.ok
       /\ due \subseteq result.ids
       /\ result.ids \subseteq
            IF strategy = "aggregate" THEN {id \in Ids : <<result.prefix, id>> \in used} ELSE due

NameLength(t) ==
  IF "default" \in DOMAIN t THEN Len(t.default)
  ELSE Len(t.prefix.fragment) + 1 + PrefixHashLen
         + (IF t.fragment = <<>> THEN 0 ELSE 1 + Len(t.fragment)) + 1 + HashLen

\* Two partitions, or two applications, never meet in a database, however much
\* of their names sanitizing drops; so ensure_partition_name() refuses nobody.
\* Names fit the platform's limit.
DatabasesApart ==
  /\ \A u \in used, v \in used :
       LET p == PartitionOf[strategy][u[2]]  q == PartitionOf[strategy][v[2]]
       IN TargetFor(u[1], p) = TargetFor(v[1], q) /\ Trusted(u[1]) /\ Trusted(v[1]) =>
            u[1] = v[1] /\ p = q
  /\ catalog = "named" => \A t \in DOMAIN databases : NameLength(t) <= NameLimit

=============================================================================
