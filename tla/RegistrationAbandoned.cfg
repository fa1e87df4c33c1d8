\* A connection is lost between the two requests of a registration.
CONSTANTS
  Runs = {r1, r2}
  Accounts = {a1}
  Passwords = {p1}
  None = None
  Persistent = TRUE
  Faults = {"link"}
SPECIFICATION FairSpec
PROPERTY AbandonedReservationExpires
