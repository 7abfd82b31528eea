SPECIFICATION Spec
CONSTANTS
  Callers = {c1, c2}
  Worker = w
  Names = {a, b}
  Durations = {50, 51}
  MaxFailures = 2
  MaxRecords = 3
  MaxFlushes = 1
  MaxCloses = 2
  Faults = {"throw", "logger", "start"}
SYMMETRY ThreadAndNameSymmetry
INVARIANTS
  TypeOK
  BucketsAddUp
  SampleMatchesPeriod
  MaxCoversPeriod
  ReportedOnce
  ShutdownReports
CHECK_DEADLOCK FALSE
