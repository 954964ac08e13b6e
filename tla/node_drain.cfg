SPECIFICATION FairSpec
CONSTANTS
  p1 = p1  p2 = p2  pvc1 = pvc1  csi1 = csi1  t1 = t1  t2 = t2  t3 = t3
  Targets = {t1, t2}
  Pools = {p1}
  PoolRank <- Rank1
  DefaultPool = p1
  Volumes = {pvc1, csi1}
  CsiPrefixed = {csi1}
  Files = {f1}
  Handlers = {h1, h2}
  Requests <- DrainCalls
  Home <- Home1
  Serialized = FALSE
  Faults = FALSE
  None = None
  Gone = Gone
PROPERTY TargetsDrain
