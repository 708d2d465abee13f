CONSTANTS
  a = a
  b = b
  d = d
  dm1 = dm1
  dm2 = dm2
  group = group
  p1 = p1
  p2 = p2
  None = None
  Users <- ThreeUsers
  Channels <- OneChannel
  Members <- GroupMembers
  Processes <- TwoAtATime
  MaxCalls = 1
SPECIFICATION Spec
PROPERTY JoinedOnlyGrows
CHECK_DEADLOCK FALSE
