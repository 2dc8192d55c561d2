SPECIFICATION FairSpec
CONSTANTS
  c1 = c1
  c2 = c2
  c3 = c3
  w1 = w1
  w2 = w2
  Null = Null
  Clients <- TwoOrders
  OrderIds <- TwoIds
  Prices <- OnePrice
  Quantities <- OneOrTwoShares
  Threads <- ManagerOnly
  OrderTypes <- KeptOrders
  Sockets <- TwoSockets
  MaxCalls = 2
  MaxTimeouts = 1
  MaxCrashes = 1
  MaxRestarts = 1
CHECK_DEADLOCK FALSE
INVARIANTS
  OneFinalReport
  FinishedIsGone
  FailuresBounded
PROPERTIES
  CallsReturn
