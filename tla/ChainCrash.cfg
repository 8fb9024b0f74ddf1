SPECIFICATION FairSpec
CONSTANTS
  Proposers = {p}
  Syncers = {}
  Executor = x
  Contents = {a}
  GenesisContent = a
  ZeroHash = zero
  MaxExecutionGap = 2
  GapModulus = 256
  MaxNumber = 4
  MaxCrashes = 1
  Failing = {}
  MaxFailures = 0
PROPERTY FormerTaskProcessedAgain
CHECK_DEADLOCK FALSE
