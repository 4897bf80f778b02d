SPECIFICATION Spec
CONSTANTS
  NoEvent = NoEvent
  NoThread = NoThread
  NoSection = NoSection
  Nothing = Nothing
  Owner = "own"
  OwnerNpub = "npub-own"
  HexOf <- MCHexOf
  Event <- MCEvent
  Aggregates <- MCAggregates
  InitialStores <- MCInitialStores
  Sites <- MCSites
  Typed <- MCTyped
  FingerQueries <- MCFingerQueries
  Terms = {"tea", "none"}
  EngineLimit = 3
  SatsPerPoint = 2
  MinThreadQuery = 4
  MaxThreadQuery = 6
  DefaultLimit = 2
  StartTime = 10
  itemsPerPage = 2
  GopherListLimit = 4
  GopherSearchLimit = 3
  GeminiListLimit = 3
  GeminiSearchLimit = 4
  FingerNotes = 2
  MaxUsers = 1
  MaxPage = 4
  MaxChurn = 2
INVARIANTS
  LinksResolve
  PagesPartitionListing
  ContentIsReachable
PROPERTIES
  ThreadShowsItsReplies
