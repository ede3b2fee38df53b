CONSTANTS
  Sessions = {s1, s2}
  Transports = {"unix", "stdio"}
  StdioPipe = pipe
  MaxMessages = 2
SPECIFICATION FairSpec
INVARIANTS GateIsHeld  AnswersReachTheirUnixSession
PROPERTIES GateReopens GoroutinesEnd
CHECK_DEADLOCK FALSE
