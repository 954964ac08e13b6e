SPECIFICATION Spec
CONSTANTS
  Nodes = {n1}
  Claims = {c1}
  WaitForFirstConsumer = TRUE
  ClaimWorkers = {w1}
  VolumeWorkers = {v1}
  FailedProvisionThreshold = 1
  FailedDeleteThreshold = 1
  CreateProvisionedPVRetryCount = 2
  AddFinalizer = FALSE
  Failing = {"lostCreate", "create"}
  MaxFaults = 2
  MaxQueued = 2
  None = None
CHECK_DEADLOCK FALSE
INVARIANT FailedSaveSavedNothing
