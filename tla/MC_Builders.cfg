\* Builders: every build() returns what the last calls on each field set.
CONSTANTS
  k0 = k0  k1 = k1  s1 = s1  n1 = n1  v1 = v1  f1 = f1  p1 = p1  x1 = x1
  None = None
  Keys <- MCKeys
  EmptyKey = k0
  SortKeys = {s1}
  SortValues = {1, 2}
  Names = {n1}
  Vals = {v1}
  Expressions = {f1}
  Placeholders = {p1}
  PlaceholdersOf <- MCPlaceholdersOf
  Indexes = {x1}
  Limits = {10}
  SegmentArgs = {0, 1, 2}
  MaxCalls = 4
  MaxBuilds = 2
SPECIFICATION Spec
INVARIANT TypeOK
INVARIANT BuildReflectsCalls
