CONSTANTS
  MaxRequests = 4
  Owners = {"ensureDetailClient"}
  ServerIds = {}
SPECIFICATION Spec
INVARIANT HandshakeFirst
CHECK_DEADLOCK FALSE
