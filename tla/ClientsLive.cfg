\* One click of the form beside the script: both come to an end, under every fault.
CONSTANTS
  FormCalls = {c1}
  Usernames = {Empty, u1, u2}
  Passwords = {Empty, p1, p2}
  None = None
  Empty = Empty
  ScriptUser = u1
  ScriptPassword = p1
  MaxNonces = 1
  Faults = {"link", "repeat", "restart", "expiry"}
SPECIFICATION FairSpec
PROPERTIES
  ClicksAreAnswered
  ScriptEnds
