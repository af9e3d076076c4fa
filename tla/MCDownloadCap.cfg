CONSTANTS
  w1 = w1
  w2 = w2
  Callers <- MCCallers
  MaxInFlight = 1
  RetryCount = 1
  Budget = FALSE
  NumFiles = 3
  NameOf <- MCNameOf
  SizeKnown <- MCSizeKnown
  MaxRounds = 1
SPECIFICATION Spec
INVARIANT InFlightCapped
SYMMETRY Symmetry
CHECK_DEADLOCK FALSE
