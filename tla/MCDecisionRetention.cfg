SPECIFICATION MCSpec
CONSTANTS
  Ids = {i1, i2}
  Reqs = {q1, q2}
  Classes = {"Buffer"}
  Sizes = {1}
  Samples <- MCSamples
  Capacity = 2
  StaleAfter = 1
  ReservationTtl = 1
  Retention = 1
  MaxLeases = 1
  Horizon = 3
  NoId = NoId
  ResIds = {i1, i2}
  ReqNos = {q1, q2}
  Jobs = {j1}
  SubmitCapacity = 1
  TerminalRetention = 0
  LeaseBound = 2
  MaxSessions = 2
  LastTick = 2
  NoRes = NoRes
  NoJob = NoJob
INVARIANT DecisionsForgotten
CHECK_DEADLOCK FALSE
