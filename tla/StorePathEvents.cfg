SPECIFICATION FairSpec
CONSTANTS
  Request = {r1}
  Worker = {w1, w2}
  Block = {b1, b2}
  NoBlock = NoBlock
  NoJob = NoJob
  Hybrid = TRUE
  StoreMayFail = TRUE
  DiscardsOnRegister = TRUE
  MaxSaves = 1
  MaxPreempts = 1
  MaxBatch = 1
INVARIANTS TypeOK
PROPERTIES HoldSpec EventsReleased
