SPECIFICATION Spec
CONSTANTS
  Pids = {p1, p2, p3}
  EventSources = {sa, sb}
  ChainTimeout = 1
  TemporalWindow = 2
  TrimAt = 3
  MaxEvents = 4
  MaxTime = 3
  NoPid = NoPid
  NoChain = NoChain
SYMMETRY Symmetry
INVARIANTS
  TypeOK
  OneChainPerEvent
  ChainCoherent
  IndexJustified
CHECK_DEADLOCK FALSE
