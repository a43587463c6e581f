\* Two tasks, two aggregates, one deletion and one failure; no symmetry, as one
\* property is a liveness property.
SPECIFICATION Spec
CONSTANTS
  Tasks = {t1, t2}
  Aggregates = {a, b}
  None = None
  MaxRevision = 2
  MaxJobs = 3
  MaxDeletes = 1
  MaxFailures = 1
INVARIANTS
  DocumentMatchesRevision
  ProjectionCovers
PROPERTIES
  ReadModelCatchesUp
  DocumentNeverGoesBack
CHECK_DEADLOCK FALSE
