SPECIFICATION FairSpec
CONSTANTS
  Users = {u1}
  Media = {1}
  Posts = {p1}
  Kinds = {"thumb"}
  Workers = {w1}
  Requests = {r1}
  Janitors = {j1}
  None = None
  MaxMediaPerPost = 4
  BatchLimit = 1
  MaxDeliveries = 1
  MayCrash = TRUE
  SilentErrors = FALSE
PROPERTIES
  OrphansGoAway
  QueueDrains
CHECK_DEADLOCK FALSE
