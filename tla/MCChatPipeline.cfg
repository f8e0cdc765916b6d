CONSTANTS
  r1 = r1
  r2 = r2
  s1 = s1
  Requests <- MCRequests
  Clients <- MCClients
  ClientOf <- MCClientOf
  NoClient = 0
  NoBucket = NoBucket
  Slots = 1
  Window = 20
  WindowLimit = 2
  DayLimit = 9
  GlobalDayLimit = 9
  MaxBuckets = 1
  Ttl = 99
  DayTicks = 50
  Dawn = 0
  MaxClock = 3
  Questions <- MCQuestions
  MayAsk <- MCMayAsk
  Reads <- MCReads
  Outcomes <- MCOutcomes
  FailureStatuses <- MCFailureStatuses
  Deadline = 2
  RouterTimeout = 1
  NoRange = NoRange
  NoQuestion = NoQuestion
  NoRouting = NoRouting
  NoAnswer = NoAnswer
  Directory <- MCDirectory
  Ambiguous <- NoTerms
  Unsupported <- None
  NoSecurity = NoSecurity
  Today = 1
  NoContext = NoContext
SPECIFICATION FairChatSpec
CHECK_DEADLOCK FALSE
INVARIANTS
  LateTextIsDropped
  CallsAccounted
  SlotsFollowRequests
  WithinDeadline
  RoutingKeepsPlan
PROPERTIES
  EveryRequestEnds
