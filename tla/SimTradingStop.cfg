SPECIFICATION FairSpec
CONSTANTS
  s1 = s1
  s2 = s2
  o1 = o1
  o2 = o2
  Symbols <- OneSymbol
  Targets <- OnlyLong
  OrderIds <- TwoIds
  MaxUpdates = 1
  FillDivisor = 1
  Null = Null
PROPERTIES
  StopProcessesPending
