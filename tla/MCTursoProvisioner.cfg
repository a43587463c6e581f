\* Two names, three tasks, one cleanup, one fault.
SPECIFICATION Spec
CONSTANTS
  t1 = t1
  t2 = t2
  t3 = t3
  p1 = p1
  p2 = p2
  Tasks = {t1, t2, t3}
  Processes = {p1, p2}
  ProcessOf <- ProcessesOfTasks
  Names = {m, n}
  None = None
  MaxCalls = 4
  MaxCleanups = 1
  MaxFaults = 1
SYMMETRY Symmetry
INVARIANTS
  NamesAreRecorded
  RaceIsHarmless
  CleanupIsComplete
CHECK_DEADLOCK FALSE
