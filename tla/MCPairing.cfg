SPECIFICATION MCSpec
CONSTANTS
  MismatchLimit = 2
  Cooldown = 3
  Horizon = 7
  MaxBack = 1
  MaxAttempts = 4
  Streams = {s1, s2}
  MaxConns = 2
  MaxPairFaults = 1
  Refusing = TRUE
  Peers = {"p1", "p2"}
  Identities = {"k1", "k2"}
  Guards = {"g1", "g2"}
  MaxPeers = 1
  MaxFaults = 2
INVARIANTS TrustAgreed TrustStands StateKept
PROPERTY CooldownServed
CHECK_DEADLOCK FALSE
