\* One thread and a generator with one ULID to go: the mint of the first publish
\* fails after its entry has been inserted.
SPECIFICATION Spec
CONSTANTS
  Clients = {t1}
  Aggregates = {a}
  MaxUlid = 1
  MaxBatch = 2
  MaxCalls = 1
  None = None
INVARIANTS
  PhantomIsTransient
CHECK_DEADLOCK FALSE
