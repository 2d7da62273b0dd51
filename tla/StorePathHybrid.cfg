SPECIFICATION Spec
CONSTANTS
  Request = {r1, r2}
  Worker = {w1, w2}
  Block = {b1, b2, b3}
  NoBlock = NoBlock
  NoJob = NoJob
  Hybrid = TRUE
  StoreMayFail = TRUE
  DiscardsOnRegister = TRUE
  MaxSaves = 1
  MaxPreempts = 0
  MaxBatch = 2
SYMMETRY Symmetry
INVARIANTS EventsHeldUntilCopied EventCountExact RefCountsExact NoCopyAfterFree
