SPECIFICATION Spec
CONSTANTS
  u1 = u1
  u2 = u2
  s1 = s1
  s2 = s2
  s3 = s3
  c1 = c1
  c2 = c2
  p1 = p1
  p2 = p2
  None = None
  User = {u1, u2}
  Channel = {c1}
  Socket = {s1, s2, s3}
  Owner <- MCOwner
  Limit <- MCLimit
  Exempt = {}
  Task = {p1, p2}
SYMMETRY Symmetry
INVARIANTS
  Inv
  RosterTrue
CHECK_DEADLOCK FALSE
