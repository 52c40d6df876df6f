\* Safety: the scan aggregation refines the abstract scan specification.
CONSTANTS
  c1 = c1  c2 = c2  i1 = i1  i2 = i2  e1 = e1  e2 = e2
  Callers <- MCCallers
  Items <- MCItems
  Errors <- MCErrors
  UnaryCalls = {"put", "get"}
  MaxChunks = 2
  MaxCalls = 1
SPECIFICATION Spec
SYMMETRY Symmetry
INVARIANT TypeOK
PROPERTY ScanRefinement
