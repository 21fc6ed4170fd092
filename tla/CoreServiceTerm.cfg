SPECIFICATION Spec
CONSTANTS
  Clients = {c1, c2}
  MaxEvents = 3
  MaxTasks = 2
PROPERTIES
  TermIsGraceful
CHECK_DEADLOCK FALSE
