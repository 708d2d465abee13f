SPECIFICATION Spec
CONSTANTS
  t1 = t1
  t2 = t2
  t3 = t3
  b1 = b1
  b2 = b2
  k1 = k1
  k2 = k2
  k3 = k3
  k4 = k4
  p1 = p1
  p2 = p2
  None = None
  Excuse = {"cut"}
  Token = {k1, k2, k3}
  Page = {t1, t3}
  Browser = {b1, b2}
  Home <- MCHome
  Task = {p1, p2}
SYMMETRY Symmetry
INVARIANTS
  Inv
  SignedOut
PROPERTY LosesItFairly
