SPECIFICATION Spec
CONSTANTS
  Procs = {service}
  Last = 3
  Plan <- ShortPlan
  MaxCrashes = 1
  MaxFaults = 0
INVARIANTS
  StatementsSucceed
CHECK_DEADLOCK FALSE
