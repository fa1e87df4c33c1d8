\* Two runs register the same account at the same time; no fault at all.
CONSTANTS
  Runs = {r1, r2}
  Accounts = {a1}
  Passwords = {p1, p2}
  None = None
  Persistent = TRUE
  Faults = {}
SPECIFICATION Spec
INVARIANT EnrolledAccountOpens
