SPECIFICATION Spec
CONSTANTS
  NoValue = NoValue
  None = None
  Procs = {p1, p2, r}
  Updaters = {p1, p2}
  RingProcs = {r, p1}
  RingWriters = {p1}
  Words = {v, w}
  TreeValues = {v, w}
  Instances = {i1, i2, i3}
  Services = {s1, s2}
  Workers = {w1, w2}
  Sinks = {t1, t2}
  Callers = {c1, c2, c3}
  RingKeys = {k}
  RootKeys = {"foo", "foobar"}
  DirKeys = {"key"}
  Prefixed <- MCPrefixed
  FieldValues = {x, y, z}
  ChunkSize = 1
  MaxRetries = 1
  MaxWatchers = 2
  MaxChanges = 2
  MaxReplicas = 1
  MaxLockIndex = 4
  MaxDictIndex = 3
  MaxRingWrites = 3
  MaxTreeWrites = 3
  MaxRegistrations = 3
INVARIANTS
  EtcdObjectsSafe
  TreeFollows
  ServicesReached
  LabelsSound
  TaskSound
  CacheSound
PROPERTY
  OthersSpared
CHECK_DEADLOCK FALSE
