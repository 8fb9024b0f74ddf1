SPECIFICATION Spec
CONSTANTS
  Node = {n1, n2, n3}
  None = None
  MaxTerm = 2
  MaxHeight = 1
  MaxInFlight = 1
  MaxLate = 0
  MaxSends = 2
  MaxFaults = 0
SYMMETRY Symmetry
INVARIANTS OneLeaderPerTerm
CHECK_DEADLOCK FALSE
