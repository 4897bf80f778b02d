CONSTANTS
  note = note
  article = article
  spam = spam
  e1 = e1
  e2 = e2
  Rules <- MCRules
  Conditions <- MCConditions
  OwnerPubkey = "npub"
  TicksPerMonth = 30
  Events <- MCEvents
  NoEvent = NoEvent
  Profiles <- MCProfiles
  ProfilesOf <- MCProfilesOf
  MaxTotalEvents = 1
  ExpiredLimit = 2
  BatchSize = 2
  Interval = 1
  StorageFails = TRUE
  ReEvalStarted = TRUE
  MaxNow = 2
SPECIFICATION Spec
INVARIANTS
  TypeOK
  HighestPriorityDecides
PROPERTIES
  UnjudgedAndProtectedStay
  CapsDeleteNoMoreThanExcess
CHECK_DEADLOCK FALSE
