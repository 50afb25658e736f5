SPECIFICATION MCSpec
CONSTANTS
  None = None
  Family <- MCFamily
  Addresses = {"A1", "a1", "B"}
  EIP55 <- MCEIP55
  TVs = {"t1", "t1x", "t2"}
  Unlabelled <- MCUnlabelled
  EmptyType = {}
  Commands = {1, 2}
  Changesets = {"x"}
  Outputs <- MCOutputs
  InitBooks <- MCInitBooks
  InitRefs <- MCInitRefs
  Lower <- MCLower
  MaxArtifacts = 2
  MaxPolls = 2
  MaxTries = 2
  MaxRuns = 2
  Analyzers = {"x", "y", "z"}
  NodesOf <- MCNodesOf
  Parent <- MCParent
  Forks <- MCForks
CHECK_DEADLOCK FALSE
INVARIANTS BookSound VerifySound AnalysisSound ForkSound
PROPERTIES MigrationKeeps CommandsEnd
