SPECIFICATION Spec
CONSTANTS
  p1 = p1  p2 = p2  v1 = v1  v2 = v2  v3 = v3  s1 = s1
  Pools = {p1, p2}
  SnapshotPools = {p1}
  PoolRank <- Rank2
  Volumes = {v1, v2, v3}
  Snapshots = {s1}
  Files = {f1, f2}
  Values = {1}
  Handlers = {h1, h2}
  Requests <- RestoreCalls
  Serialized = TRUE
  NoFile = NoFile
  None = None
SYMMETRY HandlerSymmetry
PROPERTIES RestoreDelivers  
