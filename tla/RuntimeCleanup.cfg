SPECIFICATION Spec
CONSTANTS
  Concurrencies = 1
  CleanupAfterRun = TRUE
  MaxFaults = 1
  MaxSignals = 0
CHECK_DEADLOCK FALSE
INVARIANTS CleanAtExit
