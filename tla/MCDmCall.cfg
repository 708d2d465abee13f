CONSTANTS
  a = a
  b = b
  d = d
  dm1 = dm1
  dm2 = dm2
  group = group
  p1 = p1
  p2 = p2
  None = None
  Users <- TwoUsers
  Channels <- TwoChannels
  Members <- TwoMembers
  Processes <- TwoAtATime
  MaxCalls = 2
SPECIFICATION Spec
INVARIANTS
  TypeOK
  SomebodyOn
  BusyMeansOnCall
  EndedMeansOver
PROPERTY RingsOut
SYMMETRY Symmetry
CONSTRAINT OneInOrder
ACTION_CONSTRAINT FailsOnce
CHECK_DEADLOCK FALSE
