\* Two registrations and a login, the store dying with the process, every fault.
CONSTANTS
  Runs = {r1, r2}
  Accounts = {a1}
  Passwords = {p1}
  Logins = {l1}
  None = None
  Empty = Empty
  Retries = 0
  MaxNonces = 0
  Persistent = FALSE
  SessionsExpire = FALSE
  Faults = {"redis", "link", "restart", "resend"}
SPECIFICATION FairContractSpec
INVARIANTS
  FilingInd
  ContractInd
PROPERTIES
  RunsFinish
  LoginsFinish
  ImplementsAuthentication
  ImplementsService
