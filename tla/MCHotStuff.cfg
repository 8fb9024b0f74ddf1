SPECIFICATION Spec
CONSTANTS
  n1 = n1
  n2 = n2
  n3 = n3
  Members <- Members3
  Weight <- Weight3
  None = None
  MaxHeight = 1
  MaxBlocks = 2
  MaxFaults = 1
INVARIANTS
  TypeOK
  Agreement
PROPERTIES
  ViewsGrow
CHECK_DEADLOCK FALSE
