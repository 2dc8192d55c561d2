SPECIFICATION SnapshotSpec
CONSTANTS
  Symbols = {s1}
  Targets = {2}
  OrderIds = {o1, o2}
  MaxUpdates = 1
  FillDivisor = 1
  Null = Null
INVARIANT
  ConsistentSnapshot
