SPECIFICATION FairSpec
CONSTANTS
  Request = {r1, r2}
  NumLayers = 3
  Ahead = 2
  MaxSteps = 2
CHECK_DEADLOCK FALSE
INVARIANTS TypeOK LoadWaitsForSave SaveAfterCompute AssertionsHold FinishedMeansMoved FinishTruthful LeasesCoverLoads SharedDataFresh
PROPERTIES StepsEnd
