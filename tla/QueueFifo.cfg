CONSTANTS
  r1 = r1
  r2 = r2
  r3 = r3
  p1 = p1
  p2 = p2
  w1 = w1
  w2 = w2
  Loop = Loop
  NoRun = NoRun
  Runs = {r1, r2, r3}
  Projects = {p1, p2}
  Workers = {w1}
  ProjectOf <- TwoProjects
  MaxAttempts = 1

SPECIFICATION FairSpec
CHECK_DEADLOCK FALSE
PROPERTIES
  ImplementsFairFifo
  EveryRunLeaves
