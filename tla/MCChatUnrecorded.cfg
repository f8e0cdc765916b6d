CONSTANTS
  r1 = r1
  r2 = r2
  e1 = e1
  c1 = c1
  c2 = c2
  follow = follow
  term = term
  Sessions <- MCSessions
  Requests <- MCRequests
  Entries <- MCEntries
  Contexts <- MCContexts
  Questions <- MCQuestions
  Names <- MCNames
  Asides <- MCAsides
  Unrecordable <- One
  RankOf <- MCRank
  NoEntry = NoEntry
  NoContext = NoContext
  NoView = NoView
  NoQuestion = NoQuestion
  NoAnswer = NoAnswer
  NoItem = NoItem
  MaxSessions = 1
  Ttl = 3
  MaxRecent = 2
  MaxClock = 3
  MaxRevision = 2
  CacheTtl = 2
  MaxItems = 2
  MaxPerSession = 2
SPECIFICATION ChatSpec
INVARIANTS
  AnswerIsCurrent
