SPECIFICATION Spec
CONSTANTS
  Callers = {c1, c2}
  Worker = w
  MaxEntries = 2
  MaxFailures = 2
  MaxRecords = 2
  MaxFlushes = 1
  MaxCloses = 0
  Faults = {}
INVARIANTS
  ErasesExactlyTheBatch
CHECK_DEADLOCK FALSE
