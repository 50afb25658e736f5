SPECIFICATION MCSpec
CONSTANTS
  None = None
  Family <- MCFamily
  Addresses = {"A", "B"}
  EIP55 <- MCEIP55
  TVs = {"t"}
  EmptyType = {}
  Calls <- MCCalls
  MaxExecs = 4
  EnvChains = {"evm", "sol"}
  Signers <- MCSigners
  Timelocks = {"evm", "sol"}
  Batches <- MCBatches
  Delays = {0, 1, 2}
  TooLong = 9
  PRs = {1, 2, 3}
  Shapes <- MCShapes
INVARIANTS StateSound ProposalsSound InTurn DelayEnough
PROPERTIES ExecutedOnce
