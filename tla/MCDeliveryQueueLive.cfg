SPECIFICATION FairSpec
CONSTANTS
  Callers = {c1, c2}
  Worker = w
  QueueSize = 1
  MaxPushes = 2
  MaxDrains = 0
  MaxShutdowns = 1
  Faults = {"throw", "crash", "jam"}
PROPERTIES
  DrainReturns
  EveryPayloadIsAttempted
  ShutdownReturns
  TerminateAborts
CHECK_DEADLOCK FALSE
