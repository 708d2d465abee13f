SPECIFICATION Spec
CONSTANTS
  u1 = u1
  u2 = u2
  everyone = everyone
  top = top
  mods = mods
  spare = spare
  p1 = p1
  p2 = p2
  None = None
  User = {u1, u2}
  Crew = {u1, u2}
  Mover = {u2}
  Role = {everyone, top, mods, spare}
  Everyone = everyone
  Perm = {"admin", "roles", "ban", "kick"}
  Ceiling = {"roles", "kick", "ban"}
  Asked = {"admin", "roles"}
  MaxRank = 3
  MaxListed = 1
  Task = {p1, p2}
  InitRank <- MCInitRank
  InitGrants <- MCInitGrants
  InitWorn <- MCInitWorn
  InitMember = {u1, u2}
SYMMETRY Symmetry
INVARIANTS
  Inv
  RanksKept
  MembersTrue
CHECK_DEADLOCK FALSE
