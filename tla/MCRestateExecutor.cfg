\* Two commands on one aggregate, two workers, one of them lost at most once.
SPECIFICATION RestateSpec
CONSTANTS
  Clients = {w1, w2}
  Aggregates = {a}
  MaxUlid = 2
  MaxBatch = 1
  None = None
  MaxExecutes = 3
  MaxPublishes = 1
  Invocations = {i1, i2}
  audit = audit
  notify = notify
  Effects = {audit, notify}
  FilterOf <- Filters
  MaxLost = 1
INVARIANTS
  AppliedOnceUnlessLost
  NoConflictUnlessLost
  OneWorkflowPerEffect
  EffectsMatchAnswer
PROPERTIES
  EveryCommandAnswered
CHECK_DEADLOCK FALSE
