SPECIFICATION Spec
CONSTANTS
  u1 = u1
  u2 = u2
  p1 = p1
  c1 = c1
  c2 = c2
  s1 = s1
  s2 = s2
  t1 = t1
  t2 = t2
  Users = {u1, u2}
  Posts = {p1}
  Comments = {c1, c2}
  Texts = {s1}
  NoText = NoText
  Tags = {t1, t2}
  Owner <- MCOwner
  Author <- MCAuthor
  On <- MCOn
  TagList <- MCTagList
  Workers = {w1, w2}
  Kinds = {"like", "unlike", "comment", "uncomment", "deletePost", "publish", "leave"}
  MaxAttempts = 2
  Absent = Absent
  Used = Used
SYMMETRY Symmetry
INVARIANTS
  TypeOK
  CountsMatch
  NotesMatch
PROPERTIES
  Atomic
CHECK_DEADLOCK FALSE
