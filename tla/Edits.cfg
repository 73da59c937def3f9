SPECIFICATION LiveSpec
CONSTANTS
  u1 = u1
  u2 = u2
  p1 = p1
  c1 = c1
  c2 = c2
  s1 = s1
  s2 = s2
  t1 = t1
  t2 = t2
  Users = {u1, u2}
  Posts = {p1}
  Comments = {}
  Texts = {s1, s2}
  NoText = NoText
  Tags = {t1, t2}
  Owner <- MCOwner
  Author <- MCAuthor
  On <- MCOn
  TagList <- MCTagList
  Workers = {w1, w2}
  Kinds = {"publish", "edit", "follow", "unfollow", "leave"}
  MaxAttempts = 2
  Absent = Absent
  Used = Used
INVARIANTS
  TagsFit
PROPERTIES
  Atomic
  Answered
CHECK_DEADLOCK FALSE
