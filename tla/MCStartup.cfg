SPECIFICATION AllSpec
CONSTANTS
  t1 = t1
  t2 = t2
  Bad = Bad
  Empty = Empty
  Absent = Absent
  N = 2
  Texts <- TwoTexts
  Removals = TRUE
  AllDirs = FALSE
  MaxWrites = 2
  Procs = {service, ui, other}
  Last = 3
  Plan <- ShortPlan
  MaxCrashes = 1
  MaxFaults = 1
INVARIANTS
  AllTyped
  SchemaComplete
  QuietIsCurrent
PROPERTIES
  ChangesTakeEffect
CHECK_DEADLOCK FALSE
