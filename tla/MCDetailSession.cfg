CONSTANTS
  Threads = {a, b}
  NoThread = none
  MaxClients = 3
  MaxOps = 3
  MaxAttempts = 2
  MaxInputs = 3
SPECIFICATION FairSpec
INVARIANTS ClientsReleased 
PROPERTIES RequestsReported ComesToRest
CHECK_DEADLOCK FALSE
