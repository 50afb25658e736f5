SPECIFICATION Spec
CONSTANTS
  Calls = {c1, c2, c3}
  Root = Root
  i1 = i1  i2 = i2  i3 = i3  k0 = k0  k1 = k1
  o1 = o1  s1 = s1  s2 = s2  e1 = e1
  Ops = {o1}  Seqs = {s1, s2}
  Inputs = {i1, i2, i3}  BadInputs = {i3}
  Keys = {k0, k1}  NoKey = k0
  Series = {e1}  NoSeries = NoSeries
  Requests <- SharedRequests
  MaxAttempts = 2
  HandlersJoin = FALSE
  ExclusiveSeries = FALSE
SYMMETRY Symmetric
CHECK_DEADLOCK FALSE
INVARIANTS AtMostOnce ResultsSound ChildrenPrecede SeriesInBounds
PROPERTIES LogRefined
