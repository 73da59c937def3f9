SPECIFICATION Spec
CONSTANTS
  Lists = {"feed", "userPosts", "followingFeed", "journeys", "comments", "notifications", "followers", "following", "popular", "latest", "userSearch"}
  Ids = {1, 2, 3}
  Ranks = {0, 1}
  Limit = 1
  Top = 9
  NoComment = NoComment
  MaxShown = 4
CONSTRAINT Short
INVARIANTS
  TypeOK
  InOrder
  NothingSkipped
PROPERTIES
  CursorAdvances
CHECK_DEADLOCK FALSE
