CONSTANTS
  news = news
  disclosure = disclosure
  q1 = q1
  q2 = q2
  Providers <- MCProviders
  Queries <- MCQueries
  Says <- MCSays
  RetryCount = 1
  AttemptTimeout = 2
  TotalDeadline = 2
  Ttl = 1
  Rounds = 2
  MaxClock = 3
  NoQuery = NoQuery
  NoEntry = NoEntry
  NoResult = NoResult
SPECIFICATION FairFetchSpec
CHECK_DEADLOCK FALSE
INVARIANTS
  AttemptsKept
  CacheHonest
PROPERTIES
  EveryProviderReported
