\* Two racing threads, two aggregates, three calls, batches of up to two events;
\* the generator can overflow in the last call.  No symmetry: some properties
\* are temporal.
SPECIFICATION Spec
CONSTANTS
  Clients = {t1, t2}
  Aggregates = {a, b}
  MaxUlid = 7
  MaxBatch = 2
  MaxCalls = 3
  None = None
INVARIANTS
  StreamMonotonic
  ExpectedRevisionHonoured
  ConflictMeansStale
  EnumerateCoversCommitted
PROPERTIES
  EveryCallReturns
  Linearizable
CHECK_DEADLOCK FALSE
