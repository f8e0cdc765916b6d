CONSTANTS
  r1 = r1
  r2 = r2
  r3 = r3
  e1 = e1
  e2 = e2
  e3 = e3
  c1 = c1
  Sessions <- MCSessions
  Requests <- MCRequests
  Entries <- MCEntries
  Contexts <- MCContexts
  NoEntry = NoEntry
  NoContext = NoContext
  NoView = NoView
  MaxSessions = 2
  Ttl = 2
  MaxRecent = 1
  MaxClock = 2
  MaxRevision = 2
SPECIFICATION Spec
SYMMETRY Symmetry
INVARIANTS
  TypeOK
  EntryPinned
  MutualExclusion
  ViewCurrent
  RecentIsNewest
  Bounded
  NoWakeUpLost
PROPERTIES
  KeepsPromise
  ForgottenForCause
