\* Two tasks of one process race each other and a task of another process for
\* one aggregate; four ULIDs, so that a clock can be behind the stored
\* revisions and a generator can overflow; one fault.
SPECIFICATION Spec
CONSTANTS
  c1 = c1
  c2 = c2
  c3 = c3
  p1 = p1
  p2 = p2
  Clients = {c1, c2, c3}
  Procs = {p1, p2}
  ProcOf <- TwoAndOne
  Aggregates = {a}
  MaxUlid = 4
  MaxBatch = 2
  MaxAttempts = 2
  MaxBusy = 1
  MaxCalls = 2
  MaxFaults = 1
  None = None
INVARIANTS
  StreamMonotonic
  ExpectedRevisionHonoured
  ConflictReportsCommitted
  WriteLockHeldInAttempt
PROPERTIES
  EveryCallReturns
  Linearizable
CHECK_DEADLOCK FALSE
