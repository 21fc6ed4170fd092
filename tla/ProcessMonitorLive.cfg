SPECIFICATION FairSpec
CONSTANTS
  Pids = {p1}
  KernelPids = {}
  MaxForks = 2
PROPERTIES
  RealTime
CHECK_DEADLOCK FALSE
