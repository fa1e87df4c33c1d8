\* Two requests at the same time, no fault.
CONSTANTS
  Requests = {q1, q2}
  Accounts = {a1}
  Tokens = {t1, t2}
  None = None
  Faults = {}
SPECIFICATION Spec
INVARIANT ServedWasChecked
