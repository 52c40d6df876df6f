\* Database.open may raise on an existing file; create then replaces it.
CONSTANTS
  None = None
  Absent = Absent
  m1 = m1
  p1 = p1
  p2 = p2
  co1 = co1
  Names <- MCNames
  Lower <- MCLower
  Emails <- MCEmails
  Phones <- MCPhones
  Companies <- MCCompanies
  FaultyOps = {"open"}
  MaxFaults = 1
  MaxOps = 3
  CreateReplaces = TRUE
SPECIFICATION Spec
INVARIANT StoreMatchesWrites
