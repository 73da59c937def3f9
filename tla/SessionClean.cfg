SPECIFICATION Spec
CONSTANTS
  Users = {u1}
  Browsers = {b1, b2}
  Requests = {r1, r2}
  Tokens = {t1, t2}
  Passwords = {p1}
  None = None
  Grace = 0
  Ttl = 1
  Retention = 0
  BatchLimit = 1
  MaxDelay = 1
  MaxClock = 2
SYMMETRY Symmetry
INVARIANTS
  SuccessorsOutlive
  ReuseStaysVisible
CHECK_DEADLOCK FALSE
