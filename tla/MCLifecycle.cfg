SPECIFICATION Spec
CONSTANTS
  Main = m
  Others = {t}
  MaxObjects = 6
  MaxCalls = 2
  MaxResets = 1
  Faults = {"throw", "start", "fail", "full"}
INVARIANTS
  TypeOK
  WorkersAreReachable
  HookLeavesNoWorker
  OnlyLateCapturesAreLost
CHECK_DEADLOCK FALSE
