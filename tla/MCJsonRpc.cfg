CONSTANTS
  MaxRequests = 4
  Owners = {"syncJobs", "ensureDetailClient"}
  ServerIds = {2, 3}
SPECIFICATION FairSpec
INVARIANTS ListHandshakeFirst
PROPERTIES OutcomeIsFinal RequestsSettle ConnectSettles
CHECK_DEADLOCK FALSE
