CONSTANTS
  note = note
  plus = plus
  reply = reply
  contacts = contacts
  Targets = {note}
  Reactions = {plus}
  Times = {1}
  AggCap = 1
  MaxAccepted = 0
  WritesMayFail = FALSE
  Events <- MCEvents
  NoEvent = NoEvent
  KindOf <- MCKindOf
  UpdateOf <- MCUpdateOf
  Workers = {w1}
  Refresher = refresher
  Subscriptions = {s1}
  ChanCap = 1
  CacheSize = 1
  UseNegentropy = FALSE
  MaxCopies = 1
  MaxRestarts = 0
SPECIFICATION FairSpec
INVARIANTS
  StopLeavesNothingHalfDone
  StoredInteractionsAreCounted
PROPERTIES
  BlockedSendersProceed
  StopReturnsOrPanics
CHECK_DEADLOCK FALSE
