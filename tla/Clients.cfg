\* A user at the form and the script, two accounts and two passwords beside the empty text, room for two nonces, every fault but a restart.
CONSTANTS
  FormCalls = {c1, c2}
  Usernames = {Empty, u1, u2}
  Passwords = {Empty, p1, p2}
  None = None
  Empty = Empty
  ScriptUser = u1
  ScriptPassword = p1
  MaxNonces = 1
  Faults = {"link", "repeat", "expiry"}
SPECIFICATION Spec
SYMMETRY Interchangeable
VIEW Observable
INVARIANTS
  PutIsByOwner
  CalmFormHoldsSession
  MessagesTellTheTruth
  UndisturbedScriptSucceeds
  ScriptReadsBack
  ClientsInd
