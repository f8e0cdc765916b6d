CONSTANTS
  p1 = p1
  p2 = p2
  Procs = {p1, p2}
  Securities <- MCSecurities
  Wire <- MCWire
  Rules <- MCRules
  HostOf <- MCHostOf
  Queries <- MCQueries
  MaxCalls <- MCMaxCalls
  Display = 2
  LastStart = 10
  WindowStart = 2
  WindowEnd = 9
  Opening = 5
  MinTotal = 2
  MinPreMarket = 1
  MinIntraday = 1
  NoTime = NoTime
  NoUrl = NoUrl
  Invalid = Invalid
  Filing <- MCFiling
  MinFacts = 2
  RequiredCategories = {"sales", "profit"}
  OtherCategories = {"risk"}
  CorrectionMarkers = {"amended"}
  Unreachable = Unreachable
  Unknown = Unknown
  Report <- MCReport
  ReportsAsOf = 3
  MinSections = 1
  FreshDays = 1
  NoOverride = NoOverride
  Basis = 9
  SectionCount = 1
  LongTitles = {}
  PathTitles = {}
  SignedPages = {19}
  CheckpointDays <- MCCheckpointDays
  CheckpointTimes <- MCCheckpointTimes
  TradingDays <- MCTradingDays
  PreviousDay <- MCPreviousDay
  FallbackDay = 1
  PercentUnit = 100
  TitleStart = 1
  TitleEnd = 11
  DayLength = 5
  DailyCap = 1
  PeriodCap = 2
  EventTerms <- MCTerms
  UnaptTerms = {"etf"}
  TitleCalls <- MCMaxCalls
  MaxStarts = 3
  Harvests <- MCHarvests
  Inquiries <- MCInquiries
  Papers <- MCPapers
  Searches <- MCSearches
  Feeds <- MCFeeds
  Tried <- MCTried
  Earlier <- MCEarlier
  Torn = Torn

SPECIFICATION Spec
SYMMETRY Symmetry
CHECK_DEADLOCK FALSE
INVARIANTS
  LoadedWhole
  RefusalsHaveCause
  ServedIsSound
