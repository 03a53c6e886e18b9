SPECIFICATION MCSpec
CONSTANTS
  p1 = p1
  p2 = p2
  Peers = {p1, p2}
  NoPeer = NoPeer
  LeaseTtl = 2
  CacheCapacity = 2
  SeqLimit = 3
  MaxLeases = 2
  LastGrant = 2
  Horizon = 4
  Samples <- MCSamples
  StaleAfter = 1
  Recovery = 2
  BatteryRecovery = 2
  Oldest = 4
  NoId = NoId
  NoJob = NoJob
  Blank = Blank
INVARIANT BandsHeld
PROPERTIES
  ImplementsEagerLease
  BandsSettle
  ImplementsByteStore
  HoldingsEnd
