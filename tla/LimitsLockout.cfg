SPECIFICATION Spec
CONSTANTS
  o1 = o1
  o2 = o2
  Servers = {s}
  Requests = {q, r}
  Accounts = {u}
  Spellings = {lower, upper}
  Origins = {o1, o2}
  Claims <- NoClaimOrAnother
  Edge = Edge
  Balancer = Balancer
  Writes = {w}
  Limit = 2
  Period = 2
  Hops = 1
  Production = TRUE
  None = None
  MaxClock = 4
  MaxKeys = 3
SYMMETRY RequestSymmetry
CONSTRAINT Few
INVARIANT OneOriginLocksNobodyOut
CHECK_DEADLOCK FALSE
