SPECIFICATION FairSpec
CONSTANTS
  s1 = s1
  o1 = o1
  o2 = o2
  Symbols <- OneSymbol
  Targets <- LongAndShort
  OrderIds <- TwoIds
  MaxUpdates = 1
  Null = Null
PROPERTIES
  TargetsReached
