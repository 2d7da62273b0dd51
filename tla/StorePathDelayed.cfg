SPECIFICATION FairSpec
CONSTANTS
  Request = {r1}
  Worker = {w1, w2}
  Block = {}
  NoBlock = NoBlock
  NoJob = NoJob
  Hybrid = FALSE
  StoreMayFail = FALSE
  DiscardsOnRegister = TRUE
  MaxSaves = 2
  MaxPreempts = 1
  MaxBatch = 1
PROPERTIES DelayedFreed
