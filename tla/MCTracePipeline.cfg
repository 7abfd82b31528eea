SPECIFICATION Spec
CONSTANTS
  Callers = {c1, c2}
  Worker = w
  MaxSpans = 3
  MaxIds = 4
  MaxOwners = 2
  QueueSize = 1
  Payloads = {1, 2}
  MaxStops = 1
  Faults = {"throw", "logger", "start"}
SYMMETRY CallerSymmetry
INVARIANTS
  TypeOK
  ParentWasOpen
  PayloadIsTree
  SlowTracesOnce
  StopIsClean
PROPERTIES
  ImplementsHandoff
CHECK_DEADLOCK FALSE
