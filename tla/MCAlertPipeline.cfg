SPECIFICATION Spec
CONSTANTS
  r1 = r1
  r2 = r2
  Never = Never
  Medium = 3
  Cap = 7
  Rules <- TwoRules
  Base <- TwoBases
  Sources = {s1, s2}
  Chains = {c1}
  HalfLife = 2
  DedupWindow = 2
  FlapWindow = 2
  FlapMax = 2
  ScoreLife = 3
  MaxTime = 3
  MaxEvents = 3
SYMMETRY Symmetry
INVARIANTS
  TypeOK
  DedupHolds
  FlapLimit
PROPERTIES
  SuppressionJustified
CHECK_DEADLOCK FALSE
