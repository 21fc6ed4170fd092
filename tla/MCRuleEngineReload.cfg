SPECIFICATION FairSpec
CONSTANTS
  f1 = f1
  f2 = f2
  i1 = i1
  i2 = i2
  c1 = c1
  c2 = c2
  Bad = Bad
  None = None
  Files <- TwoFiles
  DirOrder <- OneDir
  DirOf <- InOneDir
  Defs <- FewRules
  Parts <- TwoParts
  PartOf <- PartOfCond
  Events <- OneEvent
  HotReload = TRUE
  MaxScore = 100
  MaxEdits = 1
  MaxCalls = 0
PROPERTIES
  HotReloads
CHECK_DEADLOCK FALSE
