SPECIFICATION Spec
CONSTANTS
  Callers = {c1, c2}
  Worker = w
  QueueSize = 1
  MaxPushes = 1
  MaxDrains = 0
  MaxShutdowns = 1
  Faults = {}
INVARIANTS
  ShutdownDeliversQueued
CHECK_DEADLOCK FALSE
