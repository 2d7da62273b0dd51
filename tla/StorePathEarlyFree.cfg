SPECIFICATION Spec
CONSTANTS
  Request = {r1}
  Worker = {w1}
  Block = {}
  NoBlock = NoBlock
  NoJob = NoJob
  Hybrid = FALSE
  StoreMayFail = FALSE
  DiscardsOnRegister = TRUE
  MaxSaves = 2
  MaxPreempts = 0
  MaxBatch = 1
INVARIANTS NoCopyAfterFree
