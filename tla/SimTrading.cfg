SPECIFICATION FairSpec
CONSTANTS
  s1 = s1
  s2 = s2
  o1 = o1
  o2 = o2
  Symbols <- TwoSymbols
  Targets <- LongOrShort
  OrderIds <- TwoIds
  MaxUpdates = 2
  FillDivisor = 1
  Null = Null
INVARIANTS
  TypeOK
PROPERTIES
  ImplementsContract
  OrdersTerminate
  TargetsReached
