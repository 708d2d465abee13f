CONSTANTS
  t1 = t1
  t2 = t2
  None = None
  Tasks <- TwoTasks
  MaxGen = 2
  MaxLen = 2
SPECIFICATION Spec
SYMMETRY Symmetry
CONSTRAINT OneAlert
INVARIANTS
  TypeOK
  VerifiedIsEarned
  PinIsNotLost
  KeptIdentityIsTrusted
PROPERTY PinnedIdentityStays
