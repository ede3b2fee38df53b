CONSTANTS
  Size <- MCSize
  Separator = 1
  PageLimit = 5
  BodyLimit = 12
  LastTurn = 2
  MaxChanges = 3
SPECIFICATION Spec
INVARIANTS BodyHasNoGap  WaitIsServed
CHECK_DEADLOCK FALSE
