\* Two requests, one account, two tokens, every fault, an auth server that may stay silent.
CONSTANTS
  Requests = {q1, q2}
  Accounts = {a1}
  Tokens = {t1, t2}
  None = None
  Faults = {"redis", "restart"}
SPECIFICATION FairSpec
INVARIANTS
  ServedAloneWasChecked
  PassedAloneIsNotRefused
  ServedAfterSomeCheck
  ResourceInd
PROPERTIES
  RequestsAnswered
