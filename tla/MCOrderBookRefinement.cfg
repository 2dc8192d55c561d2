SPECIFICATION BoundedSpec
CONSTANTS
  o1 = o1
  o2 = o2
  o3 = o3
  o4 = o4
  OrderIds <- FourIds
  Prices <- TwoPrices
  Quantities <- NoneToTwoShares
  WordRange = 16
  Null = Null
INVARIANTS
  TypeOK
  IndexConsistent
  NotCrossedAtRest
  FillAndKillNeverRests
  TradesAccountForFill
PROPERTIES
  MatchShrinksBook
  TimePriorityKept
  ImplementsPriceTimeBook
SYMMETRY IdSymmetry
