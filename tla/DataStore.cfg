SPECIFICATION MCSpec
CONSTANTS
  AddressRefKeys = {a, b}
  ChainMetadataKeys = {}
  ContractMetadataKeys = {}
  Unparsable = {b}
  Values = {v, w}
  EnvValues = {e, f}
  None = None
  Routines = {1, 2}
  CatRecords = {"r"}
  MaxCatOps <- MCMaxCatOps
  MaxDepth <- MCMaxDepth
SYMMETRY Symmetric
CHECK_DEADLOCK FALSE
INVARIANTS CloneExact ChainedMerge MergeIsLoop Isolated
