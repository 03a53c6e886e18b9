SPECIFICATION MCSpec
CONSTANTS
  x1 = x1
  x2 = x2
  x3 = x3
  s1 = s1
  s2 = s2
SYMMETRY MCSymmetry
INVARIANTS ImportsAccounted StartsSafely RequestsExact BridgeIsTrue StopIsComplete HintsAreTrue
CHECK_DEADLOCK FALSE
