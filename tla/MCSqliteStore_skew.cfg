\* Two processes, no faults: the one whose clock is behind is refused with a
\* conflict on the very revision that is current.
SPECIFICATION Spec
CONSTANTS
  c1 = c1
  c2 = c2
  c3 = c3
  p1 = p1
  p2 = p2
  Clients = {c1, c3}
  Procs = {p1, p2}
  ProcOf <- OneEach
  Aggregates = {a}
  MaxUlid = 4
  MaxBatch = 1
  MaxAttempts = 2
  MaxBusy = 1
  MaxCalls = 2
  MaxFaults = 0
  None = None
INVARIANTS
  ConflictMeansStale
CHECK_DEADLOCK FALSE
