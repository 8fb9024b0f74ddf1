SPECIFICATION Spec
CONSTANTS
  Proposers = {p}
  Syncers = {s}
  Executor = x
  Contents = {a}
  GenesisContent = a
  ZeroHash = zero
  MaxExecutionGap = 3
  GapModulus = 256
  MaxNumber = 4
  MaxCrashes = 0
  Failing = {}
  MaxFailures = 0
INVARIANT ExecutionNumberMonotone
CHECK_DEADLOCK FALSE
