SPECIFICATION FairSpec
CONSTANTS
  s1 = s1
  s2 = s2
  p1 = p1
  p2 = p2
  Socket = {s1, s2}
  Task = {p1, p2}
  Choices = {"offline"}
  Cycles = {"online"}
INVARIANTS
  Inv
  ToldTheTruth
PROPERTY GoneIsSeen
