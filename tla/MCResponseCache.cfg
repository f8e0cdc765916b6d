CONSTANTS
  a1 = a1
  a2 = a2
  Keys <- MCKeys
  SessionOf <- MCSessionOf
  Rank <- MCRank
  Answers <- MCAnswers
  NoItem = NoItem
  Nothing = Nothing
  CacheTtl = 2
  MaxItems = 3
  MaxPerSession = 2
  MaxClock = 2
SYMMETRY Symmetry
SPECIFICATION Spec
INVARIANTS
  HitIsLatest
  CapsKept
PROPERTIES
  DroppedForCause
