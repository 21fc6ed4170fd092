SPECIFICATION AllSpec
CONSTANTS
  New = New
  Acknowledged = Acknowledged
  None = None
  NoTask = NoTask
  Followers = {d1, d2}
  MaxEvents = 3
  MaxTasks = 2
  Ids = {i1, i2}
  Tasks = {t1, t2}
  Workers = 2
  MaxInstances = 3
  Clients = {c1}
  States = {New, Acknowledged, Resolved}
  Alerts = {a1}
  Handlers = {h1, h2}
  Capacity = 2
  MaxUpdates = 2
INVARIANTS
  AllTyped
  OnlyRealStates
  ViewConverges
  RegistryCoherent
PROPERTIES
  InterruptStops
  LockGranted
CHECK_DEADLOCK FALSE
