SPECIFICATION ReadySpec
CONSTANTS
  Users = {u1}
  Media = {1}
  Posts = {p1}
  Kinds = {"thumb"}
  Workers = {}
  Requests = {r1}
  Janitors = {j1}
  None = None
  MaxMediaPerPost = 4
  BatchLimit = 1
  MaxDeliveries = 2
  MayCrash = FALSE
  SilentErrors = FALSE
INVARIANT ReferencedImagesExist
CHECK_DEADLOCK FALSE
