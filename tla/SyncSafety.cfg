CONSTANTS
  note = note
  plus = plus
  reply = reply
  contacts = contacts
  Targets = {note}
  Reactions = {plus}
  Times = {1}
  AggCap = 1
  MaxAccepted = 0
  WritesMayFail = FALSE
  Events <- MCReply
  NoEvent = NoEvent
  KindOf <- MCKindOf
  UpdateOf <- MCUpdateOf
  Workers = {w1, w2}
  Refresher = refresher
  Subscriptions = {s1}
  ChanCap = 1
  CacheSize = 1
  UseNegentropy = TRUE
  MaxCopies = 2
  MaxRestarts = 1
SPECIFICATION Spec
INVARIANTS
  TypeOK
  OneOwnerPerCopy
  CacheKnowsOnlyStored
  CountsNeverInflated
PROPERTY
  ImplementsIngestion
SYMMETRY
  MCSymmetry
CHECK_DEADLOCK FALSE
