\* Two registrations and two logins, two accounts and passwords, room for one nonce, sessions that expire, nothing going wrong.
CONSTANTS
  Runs = {r1, r2}
  Accounts = {a1, a2}
  Passwords = {p1, p2}
  Logins = {l1, l2}
  None = None
  Empty = Empty
  Retries = 0
  MaxNonces = 0
  Persistent = TRUE
  SessionsExpire = TRUE
  Faults = {}
SPECIFICATION ContractSpec
SYMMETRY Interchangeable
INVARIANTS
  SessionIsRegistrants
  RightPasswordOpens
  RefusedForCause
  CauseInd
PROPERTIES
  ImplementsService
