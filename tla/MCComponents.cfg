CONSTANTS
  Targets = {n1}
  Reactions = {plus, fire}
  AggCap = 2
  Times = {1}
  MaxAccepted = 3
  WritesMayFail = TRUE
  Ids = {e1, e2, e3, e4, e5}
  MaxSize = 3
  NoId = NoId
  Clients = {client}
  Callers = {t1, t2}
  Rate = 2
  Window = 2
  MaxLimiterTime = 5
  MaxBuckets = 2
  MaxResets = 1
  Owner = "own"
  EngineLimit = 5
  Aggregates = {}
  SatsPerPoint = 1
  MinThreadQuery = 1
  MaxThreadQuery = 1
  NoThread = NoThread
  NoEvent = NoEvent
  Post <- MCPost
  InitialPosts = {"r3", "a5"}
  Exporters <- MCExporters
  ExportWorkers = {w1, w2}
  MaxItems = 1
  Nobody = Nobody
  MaxMishaps = 1
  ServerOrder <- MCServerOrder
  Connections = {k1}
SPECIFICATION MCSpec
INVARIANTS
  ComponentsTypeOK
  SetMatchesRing
  Bounded
  NothingCountedTwice
  TotalIsSumOfCounts
  AllowanceBounded
  SiteListsNewestRoots
  StoreOutlivesItsUsers
PROPERTIES
  ImplementsRecentWindow
  UpdatesDrain
  CancelledBatcherExits
  ShutdownFinishes
CHECK_DEADLOCK FALSE
