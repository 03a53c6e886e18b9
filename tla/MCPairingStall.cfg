SPECIFICATION MCSpec
CONSTANTS
  MismatchLimit = 2
  Cooldown = 3
  Horizon = 7
  Streams = {"s1", "s2"}
  MaxBack = 2
  MaxAttempts = 3
  MaxConns = 1
  MaxPairFaults = 0
  Refusing = FALSE
  Peers = {"p1", "p2"}
  Identities = {"k1", "k2"}
  Guards = {"g1", "g2"}
  MaxPeers = 1
  MaxFaults = 2
INVARIANT ConfirmedGoesOn
CHECK_DEADLOCK FALSE
