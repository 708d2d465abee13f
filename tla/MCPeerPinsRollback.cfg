CONSTANTS
  t1 = t1
  t2 = t2
  None = None
  Tasks <- TwoTasks
  MaxGen = 1
  MaxLen = 2
SPECIFICATION Spec
SYMMETRY Symmetry
INVARIANT NoRollback
