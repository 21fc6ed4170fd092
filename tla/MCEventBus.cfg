SPECIFICATION Spec
CONSTANTS
  p1 = p1
  p2 = p2
  s1 = s1
  s2 = s2
  tA = tA
  procStar = procStar
  Star = Star
  None = None
  Publishers = {p1, p2}
  Subscribers = {s1, s2}
  Types = {tA}
  Prefixes = {procStar}
  Patterns <- OverlapPatterns
  Sources <- OneSource
  Attentive = {}
  IngestCap = 2
  SubCap = 1
  MaxPublish <- TwoAndOne
INVARIANTS
  TypeOK
  EveryEventDelivered
  DepthAccounting
  PublisherOrder
  FullMeansCritical
