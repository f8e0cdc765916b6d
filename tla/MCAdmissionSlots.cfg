CONSTANTS
  r1 = r1
  r2 = r2
  r3 = r3
  r4 = r4
  Requests <- MCRequests
  Clients <- MCClients
  NoClient = NoClient
  NoBucket = NoBucket
  Slots = 2
  Window = 1
  WindowLimit = 2
  DayLimit = 2
  GlobalDayLimit = 2
  MaxBuckets = 1
  Ttl = 1
  DayTicks = 1
  Dawn = 0
  MaxClock = 0
SPECIFICATION FairSpec
INVARIANTS
  SlotsConserved
  ActiveExact
PROPERTIES
  Answered
