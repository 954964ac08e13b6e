SPECIFICATION Spec
CONSTANTS
  Nodes = {n1, n2}
  Claims = {c1}
  WaitForFirstConsumer = FALSE
  ClaimWorkers = {w1}
  VolumeWorkers = {v1}
  FailedProvisionThreshold = 1
  FailedDeleteThreshold = 1
  CreateProvisionedPVRetryCount = 1
  AddFinalizer = FALSE
  Failing = {}
  MaxFaults = 0
  MaxQueued = 1
  None = None
CHECK_DEADLOCK FALSE
SYMMETRY NodeSymmetry
INVARIANTS  NoOrphan
