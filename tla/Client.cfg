SPECIFICATION Spec
CONSTANTS
  Users = {u}
  Calls = {c, d}
  Tokens = {s, t}
  Keys = {k, l}
  None = None
SYMMETRY Symmetric
INVARIANTS
  TypeOK
  PerformedOnce
  NobodyLeftWaiting
  OnlyWithoutSession
  LogoutSticks
CHECK_DEADLOCK FALSE
