SPECIFICATION Spec
CONSTANTS
  Clients = {c1, c2}
  RefKeys = {}
  MetadataKeys = {m}
  EnvKeys = {}
  Calls = {"get", "upsert", "update", "delete"}
  MaxCalls = 2
  TxStatusErrors = TRUE
  None = None
SYMMETRY Symmetric
INVARIANTS AllOrNothing VersionsSound
PROPERTIES UpdateFromLatest
