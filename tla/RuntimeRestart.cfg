SPECIFICATION FairSpec
CONSTANTS
  Concurrencies = 3
  CleanupAfterRun = TRUE
  MaxFaults = 2
  MaxSignals = 2
CHECK_DEADLOCK FALSE
INVARIANTS TypeOK OneGeneration ReadyMeansRunning RestartAnswerTrue NoRejection TidyUnlessInterrupted
PROPERTIES RestartAnswered RunCompletes
