CONSTANTS
  r1 = r1
  r2 = r2
  Requests <- MCRequests
  Clients <- MCClients
  NoClient = NoClient
  NoBucket = NoBucket
  Slots = 2
  Window = 2
  WindowLimit = 2
  DayLimit = 2
  GlobalDayLimit = 3
  MaxBuckets = 1
  Ttl = 3
  DayTicks = 3
  Dawn = 1
  MaxClock = 4
SYMMETRY Symmetry
SPECIFICATION Spec
INVARIANTS
  ClientRespected
  GlobalRespected
  BucketsBounded
