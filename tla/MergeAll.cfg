SPECIFICATION MergeSpec
CONSTANTS
  a = a  c = c  u = u  v = v  w = w  e = e  c1 = c1  c2 = c2  c3 = c3
  AddressRefKeys = {a}
  ChainMetadataKeys = {c}
  ContractMetadataKeys = {u}
  Unparsable = {u}
  Values = {v, w}
  EnvValues = {e}
  None = None
  Commands = {p}
  Changesets = {c1, c2, c3}
  Artifact <- Overlapping
  DatastoreType = "all"
  Exclusive = TRUE
  InitialSync = FALSE
INVARIANTS MergedVisible InSync
PROPERTIES OnlyTouched
