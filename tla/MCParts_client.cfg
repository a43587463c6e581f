\* What a RestateClient sends to an endpoint that the macros have made.
SPECIFICATION PartsSpec
CONSTANTS
  Subjects = {"macro"}
  Star = "*"
  NoEntity = NoEntity
  Characters = {"a", "b", "*"}
  RulesAfter <- RulesToAdd
  StreamsFor <- StreamsToRender
  NoName = NoName
  Ids <- TheIds
  Apps <- TheApps
  Strategies = {"aggregate", "type", "hashed", "by", "global"}
  Catalogs = {"local", "named", "single"}
  LowerOf <- LowerLetters
  BucketOf <- Bucket
  Partitioner <- UpToColon
  MaxStored = 2
  NoService = NoService
  Functions <- TheFunctions
  Declarations <- TheDeclarations
  LowerCaseOf <- LowerCase
  Uncased = {"_"}
  NoKey = NoKey
  Callers = {u, v}
  pay = pay
  refund = refund
  ping = ping
  k1 = k1
  Intents = {pay, refund, ping}
  KeyOf <- Keys
  MaxSends = 3
  MaxDrops = 2
  Clients = {c1, c2}
  Aggregates = {a}
  MaxUlid = 3
  MaxBatch = 1
  None = None
  MaxExecutes = 3
  MaxPublishes = 2
INVARIANTS
  ClientReachesBinding
CHECK_DEADLOCK FALSE
