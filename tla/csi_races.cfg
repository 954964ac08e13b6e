SPECIFICATION Spec
CONSTANTS
  p1 = p1  p2 = p2  v1 = v1  v2 = v2  v3 = v3  s1 = s1
  Pools = {p1}
  SnapshotPools = {p1}
  PoolRank <- Rank1
  Volumes = {v1, v2}
  Snapshots = {s1}
  Files = {f1, f2}
  Values = {1}
  Handlers = {h1, h2}
  Requests <- SnapshotCalls
  Serialized = FALSE
  NoFile = NoFile
  None = None
SYMMETRY HandlerSymmetry
INVARIANTS TypeOK MutualExclusion SingleSource ReadyIsCompleteUnlessInterrupted
PROPERTIES ReadySnapshotFrozen BlankVolumeKept
