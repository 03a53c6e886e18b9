SPECIFICATION MCSpec
CONSTANTS
  MaxFaults = 3
  MaxSets = 3
  MaxEpoch = 3
  MaxTurns = 4
  MaxAutoFaults = 2
  MaxMore = 1
  Silent = TRUE
  MaxLedgerFaults = 2
INVARIANTS PreferenceKept PublishedIsTrue RequestsAreCurrent NothingForgotten RemoteExactly RemoteIsEarned
PROPERTY WorseNeverRemote
CHECK_DEADLOCK FALSE
