SPECIFICATION Spec
CONSTANTS
  Proposers = {p}
  Syncers = {}
  Executor = x
  Contents = {a}
  GenesisContent = a
  ZeroHash = zero
  MaxExecutionGap = 3
  GapModulus = 256
  MaxNumber = 4
  MaxCrashes = 1
  Failing = {p, x}
  MaxFailures = 1
INVARIANT ExecutionNumberMonotone
PROPERTY ExecutedOneByOne
CHECK_DEADLOCK FALSE
