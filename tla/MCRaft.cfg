SPECIFICATION Spec
CONSTANTS
  Node = {n1, n2, n3}
  None = None
  MaxTerm = 2
  MaxHeight = 1
  MaxInFlight = 1
  MaxLate = 2
  MaxSends = 2
  MaxFaults = 1
SYMMETRY Symmetry
INVARIANTS ElectedOnce
PROPERTIES VoteKept
CHECK_DEADLOCK FALSE
