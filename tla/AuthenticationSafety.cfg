\* Two logins and two accounts, room for two nonces, while two envelopes are filed; external Redis, sessions that expire, all faults.
CONSTANTS
  Runs = {r1, r2}
  Accounts = {a1, a2}
  Passwords = {p1, p2}
  Logins = {l1, l2}
  None = None
  Retries = 1
  MaxNonces = 1
  Persistent = TRUE
  SessionsExpire = TRUE
  Faults = {"redis", "link", "restart", "resend"}
SPECIFICATION Spec
SYMMETRY Interchangeable
INVARIANTS
  SessionIsEarned
  ReplacedKeyIsRefused
  SoleLoginHoldsSession
  AuthInd
PROPERTIES
  ImplementsNonceWindow
  LapsedStaysLapsed
