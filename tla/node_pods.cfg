SPECIFICATION Spec
CONSTANTS
  p1 = p1  p2 = p2  pvc1 = pvc1  csi1 = csi1  t1 = t1  t2 = t2  t3 = t3
  Targets = {t1, t2, t3}
  Pools = {p1, p2}
  PoolRank <- Rank2
  DefaultPool = p1
  Volumes = {pvc1, csi1}
  CsiPrefixed = {csi1}
  Files = {f1}
  Handlers = {h1, h2}
  Requests <- PodCalls
  Home <- Home1
  Serialized = TRUE
  Faults = TRUE
  None = None
  Gone = Gone
SYMMETRY HandlerSymmetry
INVARIANTS TypeOK OneMountPerTarget PublishedIsMounted
PROPERTIES PersistentKept UnpublishCleans
