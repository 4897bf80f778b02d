CONSTANTS
  Targets = {n1}
  Reactions = {plus, fire}
  AggCap = 2
  Times = {1, 2}
  MaxAccepted = 3
  WritesMayFail = FALSE
SPECIFICATION AggSpec
INVARIANT
  CountsCatchUp
CHECK_DEADLOCK FALSE
