CONSTANTS
  alice = alice
  stranger = stranger
  near = near
  far = far
  seed = seed
  w1 = w1
  w2 = w2
  ownersContacts = ownersContacts
  alicesContacts = alicesContacts
  oldRelays = oldRelays
  newRelays = newRelays
  strangersRelays = strangersRelays
  PubkeyOrder <- MCPubkeyOrder
  Owner = Owner
  Npub = Npub
  Mode = "foaf"
  Depth = 0
  Allowlist = {}
  Denylist = {}
  MaxAuthors = 0
  ContactLists <- MCContactLists
  RelayLists <- MCRelayLists
  NoEvent = NoEvent
  PubKey <- MCPubKey
  CreatedAt <- MCCreatedAt
  Contacts <- MCContacts
  Tags <- MCTags
  Relays <- MCRelays
  Seeds <- MCSeeds
  Workers <- MCWorkers
  Bootstrap = Bootstrap
  StorageFails = TRUE
  MaxRestarts = 1
  CacheKeys <- MCCacheKeys
  ValueSizes = {1, 3}
  Lifetimes = {0}
  DefaultTTL = 1
  MaxCacheSize = 2
  Readers = {reader}
  Removers = {remover}
  Renderings <- MCRenderings
  MaxCacheTime = 2
SPECIFICATION MCSpec
INVARIANTS
  TablesTypeOK
  ScopeRowsAreOwnersFollows
  RelaysOfStrangersAreNotAsked
  NewestRelayListWins
  GraphComesFromStore
  MutualsFollowBack
  SizeStaysBounded
PROPERTY
  FreshEntriesStay
SYMMETRY MCSymmetry
CHECK_DEADLOCK FALSE
