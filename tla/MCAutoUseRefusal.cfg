SPECIFICATION MCSpec
CONSTANTS
  MaxFaults = 3
  MaxSets = 3
  MaxTurns = 9
  MaxEpoch = 1
  MaxAutoFaults = 1
  MaxMore = 1
  Silent = FALSE
  MaxLedgerFaults = 2
INVARIANT NoFalseAvailable
CHECK_DEADLOCK FALSE
