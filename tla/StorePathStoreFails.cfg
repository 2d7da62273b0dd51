SPECIFICATION FairSpec
CONSTANTS
  Request = {r1}
  Worker = {w1}
  Block = {}
  NoBlock = NoBlock
  NoJob = NoJob
  Hybrid = FALSE
  StoreMayFail = TRUE
  DiscardsOnRegister = TRUE
  MaxSaves = 1
  MaxPreempts = 0
  MaxBatch = 1
PROPERTIES DelayedFreed
