\* Any program, or main(): faults on every Database call (one for any
\* program, two for main()); create raises on an existing file.
CONSTANTS
  None = None
  Absent = Absent
  m1 = m1
  p1 = p1
  p2 = p2
  co1 = co1
  co2 = co2
  co3 = co3
  Names <- MCNames
  Lower <- MCLower
  Emails <- MCEmails
  Phones <- MCPhones
  Companies <- MCCompanies
  FaultyOps = {"open", "get", "put", "delete", "flush"}
  MaxFaults = 1
  MaxOps = 3
  CreateReplaces = FALSE
  Alice <- MCAlice
  Bob <- MCBob
  Charlie <- MCCharlie
  Email = m1
  Phone = p1
  NewPhone = p2
  DemoCompanies <- MCDemoCompanies
  Acme = co1
  Tech = co3
  NewCompany = co2
  DemoMaxFaults = 2
SPECIFICATION Spec
\* main() ends: the process stops at pc "done" or "raised".
CHECK_DEADLOCK FALSE
INVARIANT TypeOK
INVARIANT StoreMatchesWrites
