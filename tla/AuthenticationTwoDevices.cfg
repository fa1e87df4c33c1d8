\* Two logins to one account at the same time, no fault.
CONSTANTS
  Runs = {r1}
  Accounts = {a1}
  Passwords = {p1}
  Logins = {l1, l2}
  None = None
  Retries = 0
  MaxNonces = 1
  Persistent = TRUE
  SessionsExpire = FALSE
  Faults = {}
SPECIFICATION Spec
PROPERTY TokenUsableAtLogin
