\* Distinct names with one contact id; no faults.
CONSTANTS
  None = None
  Absent = Absent
  m1 = m1
  p1 = p1
  p2 = p2
  co1 = co1
  Names <- MCNames
  Lower <- MCLower
  Emails <- MCEmails
  Phones <- MCPhones
  Companies <- MCCompanies
  FaultyOps = {}
  MaxFaults = 1
  MaxOps = 3
  CreateReplaces = FALSE
SPECIFICATION Spec
INVARIANT GetReturnsNamedContact
