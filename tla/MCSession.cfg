SPECIFICATION MCSpec
CONSTANTS
  c1 = c1
  c2 = c2
  Clients = {c1, c2}
  Kinds = {"RemoteBuffer", "Malformed"}
  QueueCapacity = 1
  MaxRequests = 2
  MaxPings = 1
  MaxBeats = 1
  None = None
SYMMETRY ClientSymmetry
CHECK_DEADLOCK FALSE
INVARIANTS
  KnownMeansUnsent
  OkMeansHandledOnce
  InStep
  EndsClean
  Reassembles
  OneMeaning
