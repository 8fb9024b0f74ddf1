SPECIFICATION Spec
CONSTANTS
  Proposers = {p}
  Syncers = {s}
  Executor = x
  Contents = {a}
  GenesisContent = a
  ZeroHash = zero
  MaxExecutionGap = 2
  GapModulus = 256
  MaxNumber = 2
  MaxCrashes = 0
  Failing = {}
  MaxFailures = 0
PROPERTY ExecutedOneByOne
CHECK_DEADLOCK FALSE
