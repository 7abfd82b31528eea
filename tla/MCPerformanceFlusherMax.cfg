SPECIFICATION Spec
CONSTANTS
  Callers = {c1}
  Worker = w
  Names = {a}
  Durations = {50, 51}
  MaxFailures = 2
  MaxRecords = 2
  MaxFlushes = 0
  MaxCloses = 0
  Faults = {}
INVARIANTS
  MaxNotOverstated
CHECK_DEADLOCK FALSE
