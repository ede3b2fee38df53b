CONSTANTS
  Threads = {t1, t2}
  NoThread = none
  Priority = {"job_item"}
  QueueMax = 3
  MaxSends = 6
SPECIFICATION FairSpec
INVARIANTS HeadIsOutstanding InOrder
PROPERTIES PriorityKept PriorityHandedOver OutboxSpec
CHECK_DEADLOCK FALSE
