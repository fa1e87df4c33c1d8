\* Three runs for one account, an external Redis, every fault.
CONSTANTS
  Runs = {r1, r2, r3}
  Accounts = {a1}
  Passwords = {p1, p2}
  None = None
  Persistent = TRUE
  Faults = {"redis", "link", "restart"}
SPECIFICATION Spec
SYMMETRY Interchangeable
INVARIANTS
  UnsharedAccountOpens
  SoleRegistrantCanLogIn
  IndInv
PROPERTIES
  ImplementsDirectory
  EnrolledAccountIsClosed
