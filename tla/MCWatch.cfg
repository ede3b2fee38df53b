CONSTANTS
  Threads = {a, b, c}
  NoThread = none
  Texts = {t}
  Kinds = {"working", "quiet"}
  MaxJobs = 2
SPECIFICATION FairSpec
INVARIANTS SelectionIsStable ReplyIsKept
PROPERTIES RepliesToOpenThread KeepsAskingReady
CHECK_DEADLOCK FALSE
