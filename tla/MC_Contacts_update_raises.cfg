\* Database.get may raise.
CONSTANTS
  None = None
  Absent = Absent
  m1 = m1
  p1 = p1
  p2 = p2
  co1 = co1
  Names <- MCNames
  Lower <- MCLower
  Emails <- MCEmails
  Phones <- MCPhones
  Companies <- MCCompanies
  FaultyOps = {"get"}
  MaxFaults = 1
  MaxOps = 3
  CreateReplaces = FALSE
SPECIFICATION Spec
INVARIANT ErrorsReturned
