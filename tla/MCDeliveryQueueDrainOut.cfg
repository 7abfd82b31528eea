SPECIFICATION Spec
CONSTANTS
  Callers = {c1}
  Worker = w
  QueueSize = 1
  MaxPushes = 1
  MaxDrains = 1
  MaxShutdowns = 0
  Faults = {}
INVARIANTS
  DrainTrueMeansOut
CHECK_DEADLOCK FALSE
