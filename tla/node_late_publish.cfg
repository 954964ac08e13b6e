SPECIFICATION Spec
CONSTANTS
  p1 = p1  p2 = p2  pvc1 = pvc1  csi1 = csi1  t1 = t1  t2 = t2  t3 = t3
  Targets = {t1}
  Pools = {p1}
  PoolRank <- Rank1
  DefaultPool = p1
  Volumes = {pvc1}
  CsiPrefixed = {csi1}
  Files = {f1}
  Handlers = {h1, h2}
  Requests <- OnePodCalls
  Home <- Home1
  Serialized = FALSE
  Faults = TRUE
  None = None
  Gone = Gone
SYMMETRY HandlerSymmetry
PROPERTY PersistentKept
