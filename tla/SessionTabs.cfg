SPECIFICATION CurrentSpec
CONSTANTS
  Users = {u1}
  Browsers = {b1}
  Requests = {r1, r2}
  Tokens = {t1, t2, t3}
  Passwords = {p1}
  None = None
  Grace = 2
  Ttl = 6
  Retention = 1
  BatchLimit = 1
  MaxDelay = 1
  MaxClock = 3
SYMMETRY Symmetry
INVARIANTS
  TypeOK
  CutMeansCut
  TabsAreNotReuse
  DeletedStayOut
PROPERTIES
  HistoryStays
CHECK_DEADLOCK FALSE
