CONSTANTS
  Threads = {t1, t2}
  NoThread = NoThread
  Texts = {x, y}
  Answers = {a, b}
  CacheLimit = 1
  MaxTurns = 2
  MaxWire = 3
  MaxChanges = 3
SPECIFICATION Spec
INVARIANTS FailedReplyIsVisible
CHECK_DEADLOCK FALSE
