SPECIFICATION Spec
CONSTANTS
  c1 = c1
  c2 = c2
  c3 = c3
  w1 = w1
  w2 = w2
  Null = Null
  Clients <- TwoOrders
  OrderIds <- TwoIds
  Prices <- OnePrice
  Quantities <- OneShare
  Threads <- ManagerAndApi
  OrderTypes <- KeptOrders
  Sockets <- TwoSockets
  MaxCalls = 2
  MaxTimeouts = 0
  MaxCrashes = 1
  MaxRestarts = 0
CHECK_DEADLOCK FALSE
INVARIANTS
  ReportsAreExecutions
  ShutdownClosesSocket
