\* What enumeration finds in a file per aggregate.
SPECIFICATION Spec
CONSTANTS
  p1 = p1
  p2 = p2
  t1 = t1
  t2 = t2
  t3 = t3
  a = a
  b = b
  ta = ta
  tb = tb
  da = da
  db = db
  Tasks = {t1, t2, t3}
  Processes = {p1, p2}
  ProcessOf <- ProcessesOfTasks
  Aggregates = {a, b}
  Types = {ta, tb}
  TypeOf <- TypesOfAggregates
  None = None
  PartitionNames = {"a", "b"}
  Targets = {da, db}
  Deployments <- FilePerAggregate
  MaxAttempts = 2
  MaxCalls = 3
  MaxFaults = 1
INVARIANT
  FoundIsStored
CHECK_DEADLOCK FALSE
