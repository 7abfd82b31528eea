SPECIFICATION Spec
CONSTANTS
  Callers = {c1, c2}
  Worker = w
  QueueSize = 2
  MaxPushes = 3
  MaxDrains = 1
  MaxShutdowns = 1
  Faults = {"throw", "logger", "crash", "start", "jam"}
SYMMETRY CallerSymmetry
INVARIANTS
  TypeOK
  Conservation
  Custody
  DrainTrueMeansAttempted
  WorkerLeavesNothingQueued
  JoinedWorkerIsGone
PROPERTIES
  ImplementsHandoff
CHECK_DEADLOCK FALSE
