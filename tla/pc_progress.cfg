SPECIFICATION FairSpec
CONSTANTS
  Nodes = {n1}
  Claims = {c1}
  WaitForFirstConsumer = TRUE
  ClaimWorkers = {w1}
  VolumeWorkers = {v1}
  FailedProvisionThreshold = 2
  FailedDeleteThreshold = 2
  CreateProvisionedPVRetryCount = 2
  AddFinalizer = FALSE
  Failing = {"class", "provision", "create", "deletePV", "getPV", "lostCreate", "capacity", "refused", "crash"}
  MaxFaults = 1
  MaxQueued = 2
  None = None
CHECK_DEADLOCK FALSE
PROPERTIES ClaimProvisioned VolumeReclaimed
