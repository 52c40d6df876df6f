\* Liveness: close() releases every caller blocked in a call.
\* No symmetry: TLC's symmetry reduction is unsound for liveness.
CONSTANTS
  c1 = c1  c2 = c2  i1 = i1  i2 = i2  e1 = e1  e2 = e2
  Callers <- MCCallers
  Items <- MCItems
  Errors <- MCOneError
  UnaryCalls = {"put"}
  MaxChunks = 2
  MaxCalls = 1
SPECIFICATION FairSpec
PROPERTY CallsEndAfterClose
