SPECIFICATION FairSpec
CONSTANTS
  p1 = p1
  p2 = p2
  s1 = s1
  s2 = s2
  tA = tA
  procStar = procStar
  Star = Star
  None = None
  Publishers = {p1, p2}
  Subscribers = {s1}
  Types = {tA}
  Prefixes = {procStar}
  Patterns <- OnlyTwice
  Sources <- OnlyBoth
  Attentive = {s1}
  IngestCap = 1
  SubCap = 1
  MaxPublish <- TwoAndOne
PROPERTIES
  PublishReturns
  AcceptedIsReceived
