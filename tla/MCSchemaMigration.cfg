\* Three racing openers, two faults.
SPECIFICATION Spec
CONSTANTS
  new1 = new1
  new2 = new2
  old = old
  Openers = {new1, new2, old}
  TargetOf <- Targets
  MaxVersion = 2
  None = None
  MaxFaults = 2
INVARIANTS
  OpenMeansMigrated
PROPERTIES
  EventuallyMigrated
CHECK_DEADLOCK FALSE
