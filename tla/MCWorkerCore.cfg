SPECIFICATION WorkerSpec
CONSTANTS
  Peers = {p1, p2}
  NoPeer = NoPeer
  LeaseTtl = 2
  CacheCapacity = 1
  SeqLimit = 1
  MaxLeases = 2
  LastGrant = 1
  Horizon = 3
  ReservationTtl = 1
  Retention = 0
  Ids = {i1, i2}
  Buffers = {b1, b2}
  Jobs = {j1}
  Sizes = {1}
  BufferTtl = 1
  BufferLifetime = 2
  TombstoneRetention = 0
  MaxBuffers = 2
  MaxHeld = 2
  ProviderTimeout = 1
  MaxSessions = 2
  NoId = NoId
  NoJob = NoJob
SYMMETRY MCSymmetry
VIEW MCView
INVARIANTS ConsumedIffOwned BacksOnce NoneOutlives BudgetExact
PROPERTY EndedForGood
