CONSTANTS
  s1 = s1
  s2 = s2
  n1 = n1
  n2 = n2
  n3 = n3
  n4 = n4
  n5 = n5
  d1 = d1
  d2 = d2
  d3 = d3
  d4 = d4
  d5 = d5
  d6 = d6
  d7 = d7
  d8 = d8
  p1 = p1
  p2 = p2
  m1 = m1
  a1 = a1
  a2 = a2
  a3 = a3
  f1 = f1
  f2 = f2
  per = per
  E1 = E1
  E2 = E2
  whole = whole
  Directory <- MCDirectory
  Ambiguous <- MCAmbiguous
  Unsupported <- MCUnsupported
  NoSecurity = NoSecurity
  Today = 20
  NoRange = NoRange
  NoContext = NoContext
  DayLength = 2
  BasisAt = 40
  NoDate = NoDate
  Blank = Blank
  Whole = whole
  PathWords <- MCPathWords
  NoScore = NoScore
  Invalid = Invalid
  MaxAge <- MCMaxAge
  FallbackAge = 12
  StaleAfter <- MCStaleAfter
  MinDisclosures = 2
  NoTarget = NoTarget
  Idf <- MCIdf
  Threshold = 50
  TopK = 4
  NewsTopK = 2
  SourceCap = 2
  CountCap = 4
  ContextCap = 14
  NewsDocuments <- MCNewsDocuments
  Glossary <- MCGlossary
  Clusters <- MCClusters
  Perspectives <- MCPerspectives
  Backgrounds <- MCBackgrounds
  GenericTopics <- MCGenericTopics
  PlainWords <- MCPlainWords
  ShownArticles = 2
  ShownTitles = 2
  NoComparison = NoComparison
  Numbers <- MCNumbers
  AdviceWords <- MCAdviceWords
  ContestWords <- MCContestWords
  RiskWords <- MCRiskWords
  MildWords <- MCMildWords
  CaveatWords <- MCCaveatWords
  OverviewWords <- MCOverviewWords
  TitleMark <- MCTitleMark
  TemplateWords <- MCTemplateWords
  FactRank <- MCFactRank
  Silent = Silent
  Questions <- MCQuestions
  Reads <- MCReads
  Corpora <- MCCorpora
  Drafts <- MCDrafts
  FocusTerms <- MCFocusTerms
  LinkWords <- MCLinkWords
  PrivateWords <- MCPrivateWords
  ContextExchanges = 1
  MaxTurns = 3
  Nothing = Nothing
SPECIFICATION Spec
CHECK_DEADLOCK FALSE
INVARIANTS
  EvidenceIsApt
  CompleteIsCovered
  DoubtIsTold
  StagesAgree
  ClaimsRest
