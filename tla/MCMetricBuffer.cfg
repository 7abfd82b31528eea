SPECIFICATION FairSpec
CONSTANTS
  Callers = {c1, c2}
  Worker = w
  MaxEntries = 2
  MaxFailures = 2
  MaxRecords = 3
  MaxFlushes = 1
  MaxCloses = 2
  Faults = {"throw", "logger", "start"}
CONSTRAINT NoOverlap
INVARIANTS
  TypeOK
  ErasedHasReason
  TakenAtMostOnce
  RetryBound
  ShutdownSends
  DiscardIsFinal
PROPERTIES
  EveryEntryLeaves
  CloseReturns
CHECK_DEADLOCK FALSE
