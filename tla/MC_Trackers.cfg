CONSTANTS
  reader = reader
  NotRunning = NotRunning
  Readers <- OneReader
  Modulus = 7
  Threshold = 2
  MaxEvents = 2
  MaxTime = 10
SPECIFICATION Spec
INVARIANTS
  ChangesAreSeen
  ReadOnce
  NothingIsKept
CHECK_DEADLOCK FALSE
