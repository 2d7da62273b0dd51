SPECIFICATION Spec
CONSTANTS
  NumLayers = 2
  BlockLen <- MCBlockLen
  BlockStride <- MCBlockStride
  BaseAddr <- MCBaseAddr
  PageSize = 4
  SaveTasks <- MCSaves
  LoadTasks <- MCLoads
  Limits <- MCLimits
  TpSize = 4
  PutStep = 2
  DcpSizes = {1, 2}
  Depth = 2
  JobLists <- MCJobs
  MaxFaults = 1
CHECK_DEADLOCK FALSE
INVARIANTS RoundTrip StaysInPlace SavesComplete HitIsLoadable FailedExact
