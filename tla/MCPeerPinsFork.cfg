CONSTANTS
  t1 = t1
  t2 = t2
  None = None
  Tasks <- OneTask
  MaxGen = 2
  MaxLen = 2
SPECIFICATION Spec
INVARIANT NoFork
