CONSTANTS
  note = note
  article = article
  spam = spam
  e1 = e1
  e2 = e2
  Rules <- MCRules
  Conditions <- MCConditions
  OwnerPubkey = "npub"
  TicksPerMonth = 30
  Events <- MCEvents
  NoEvent = NoEvent
  Profiles <- MCProfiles
  ProfilesOf <- MCFollowedOf
  MaxTotalEvents = 0
  ExpiredLimit = 2
  BatchSize = 2
  Interval = 1
  StorageFails = FALSE
  ReEvalStarted = FALSE
  MaxNow = 2
SPECIFICATION FairSpec
PROPERTY
  StopComesBack
CHECK_DEADLOCK FALSE
