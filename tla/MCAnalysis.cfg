SPECIFICATION AllSpec
CONSTANTS
  f1 = f1
  f2 = f2
  i1 = i1
  i2 = i2
  c1 = c1
  c2 = c2
  Bad = Bad
  None = None
  Commands <- ThreeCommands
  Users <- ThreePeople
  Tier <- SomeTiers
  Lifetime <- ShortLives
  MaxTime = 2
  MaxReleases = 2
  MaxExecuted = 1
  ip = ip
  w1 = w1
  w2 = w2
  w3 = w3
  auto = auto
  one = one
  quorum = quorum
  u1 = u1
  u2 = u2
  u3 = u3
  RuleFiles <- TwoFiles
  DirOrder <- TwoDirs
  DirOf <- InRules
  RuleDefs <- SomeRules
  Parts <- TwoParts
  PartOf <- PartOfCond
  RuleEvents <- SomeRuleEvents
  HotReload = TRUE
  MaxScore = 100
  MaxEdits = 1
  MaxRuleCalls = 1
  KeySets <- SomeKeys
  Enriched <- SomeEvents
  Facts <- SomeFacts
  GeoDbs = {"city", "asn"}
  IocFiles <- SomeIocFiles
  MaxRisk = 120
  Callers = {a1, a2}
  Prompts <- SomePrompts
  Key <- FirstBytes
  Bound <- Bounds
  Split = {"torn"}
  NeedsAi = {"alert", "torn"}
  MaxAsks = 3
  Fallback = fallback
  Rows <- ThreeRows
  Writers <- ThreeWriters
  Batch <- SomeBatches
  Policies <- OnePolicy
  DayLength = 2
  MaxStoreTime = 2
  PageSize = 1
  Slots = {1, 2}
  MaxCalls = 3
  Alerts = {1, 2}
  AlertLimit = 2
  NotifiedMax = 1
  Checks = {1, 2}
  MaxChecks = 3
INVARIANTS
  AllTyped
  LoadedWhatWasRead
  EachCountsAlone
  ReleasedAsAsked
  BatchesWhole
  NothingTwice
CHECK_DEADLOCK FALSE
