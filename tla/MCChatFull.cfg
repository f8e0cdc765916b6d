CONSTANTS
  r1 = r1
  r2 = r2
  e1 = e1
  c1 = c1
  c2 = c2
  follow = follow
  term = term
  Sessions <- TwoSessions
  Requests <- MCRequests
  Entries <- MCEntries
  Contexts <- MCContexts
  Questions <- FewQuestions
  Names <- MCNames
  Asides <- None
  Unrecordable <- None
  RankOf <- MCRank
  NoEntry = NoEntry
  NoContext = NoContext
  NoView = NoView
  NoQuestion = NoQuestion
  NoAnswer = NoAnswer
  NoItem = NoItem
  MaxSessions = 1
  Ttl = 2
  MaxRecent = 2
  MaxClock = 2
  MaxRevision = 2
  CacheTtl = 1
  MaxItems = 2
  MaxPerSession = 1
SYMMETRY Swap
SPECIFICATION ChatSpec
INVARIANTS
  AnswerIsOwn
