SPECIFICATION ImagesSpec
CONSTANTS
  Users = {u1}
  Media = {1, 2}
  Posts = {p1, p2}
  Kinds = {"thumb"}
  Workers = {w1, w2}
  Requests = {r1}
  Janitors = {j1}
  None = None
  MaxMediaPerPost = 4
  BatchLimit = 1
  MaxDeliveries = 2
  MayCrash = FALSE
  SilentErrors = FALSE
SYMMETRY Symmetry
INVARIANTS
  TypeOK
  AttachedShowable
  JanitorSparesUploads
  YoungVariantsExist
  DoomedKeysHaveNoRow
  KeptOnlyIfPosted
PROPERTY KeysStayInSight
CHECK_DEADLOCK FALSE
