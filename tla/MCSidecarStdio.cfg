CONSTANTS
  Sessions = {s1, s2}
  Transports = {"stdio"}
  StdioPipe = pipe
  MaxMessages = 2
SPECIFICATION Spec
INVARIANT AnswersReachTheirSession
CHECK_DEADLOCK FALSE
