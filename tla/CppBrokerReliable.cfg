SPECIFICATION Spec
CONSTANTS
  c1 = c1
  c2 = c2
  c3 = c3
  w1 = w1
  w2 = w2
  Null = Null
  Clients <- ThreeOrders
  OrderIds <- ThreeIds
  Prices <- TwoPrices
  Quantities <- OneOrTwoShares
  Threads <- ManagerOnly
  OrderTypes <- BothTypes
  Sockets <- TwoSockets
  MaxCalls = 2
  MaxTimeouts = 0
  MaxCrashes = 0
  MaxRestarts = 0
CHECK_DEADLOCK FALSE
SYMMETRY NameSymmetry
INVARIANTS
  TypeOK
  FillsReported
  OpenOrdersTracked
