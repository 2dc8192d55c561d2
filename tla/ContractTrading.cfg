SPECIFICATION Spec
CONSTANTS
  s1 = s1
  s2 = s2
  o1 = o1
  o2 = o2
  o3 = o3
  Symbols <- TwoSymbols
  Targets <- FlatLongAndShort
  OrderIds <- ThreeIds
  MaxUpdates = 2
  Null = Null
INVARIANTS
  TypeOK
  FillsConserved
  FilledQuantityCatchesUp
  OrdersAccountedFor
  IndexesAgree
  OnTargetAtLoopTop
  OrdersBoundedByUpdates
SYMMETRY IdSymmetry
