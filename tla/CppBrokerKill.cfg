SPECIFICATION FairSpec
CONSTANTS
  c1 = c1
  c2 = c2
  c3 = c3
  w1 = w1
  w2 = w2
  Null = Null
  Clients <- TwoOrders
  OrderIds <- TwoIds
  Prices <- OnePrice
  Quantities <- OneOrTwoShares
  Threads <- ManagerOnly
  OrderTypes <- BothTypes
  Sockets <- TwoSockets
  MaxCalls = 1
  MaxTimeouts = 0
  MaxCrashes = 0
  MaxRestarts = 0
CHECK_DEADLOCK FALSE
PROPERTIES
  CallsReturn
