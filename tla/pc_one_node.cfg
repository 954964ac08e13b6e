SPECIFICATION Spec
CONSTANTS
  Nodes = {n1}
  Claims = {c1}
  WaitForFirstConsumer = TRUE
  ClaimWorkers = {w1, w2}
  VolumeWorkers = {v1}
  FailedProvisionThreshold = 1
  FailedDeleteThreshold = 1
  CreateProvisionedPVRetryCount = 2
  AddFinalizer = TRUE
  Failing = {"class", "provision", "create", "clean", "deleteAsset", "deletePV", "lostDelete", "getFinalizers", "update", "crash"}
  MaxFaults = 3
  MaxQueued = 2
  None = None
CHECK_DEADLOCK FALSE
SYMMETRY ThreadSymmetry
INVARIANTS TypeOK OneWorkerPerClaim  
