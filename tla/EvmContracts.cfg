SPECIFICATION MCFairSpec
CONSTANTS
  p1 = p1
  p2 = p2
  c1 = c1
  Chains = {c1}
  NumRPCs = 3
  Callers = {p1, p2}
  ChainOf <- SharedChain
  Ops <- MCOps
  Attempts = 2
  Jobs <- MCJobs
  Existing = {"q0"}
  InputHasChain = TRUE
  OpTries = 2
  DefaultGas = 0
  EstimatedGas = 1
  MaxTxGas = 0
  InitialGas = 2
  GasIncrement = 1
  NeededGas = 2
INVARIANTS ClientsConsistent EffectsSound
PROPERTIES OperationSteps Terminates
