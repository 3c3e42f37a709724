CONSTANTS
  Runs = {r1, r2}
  First = r1
  Workers = {w1}
  Loop = loop
  Sockets = {s1, s2}
  MaxHistory = 1
  MaxOps = 3
SPECIFICATION FairSpec
CHECK_DEADLOCK FALSE
INVARIANTS QuietInv NothingMissed QuietIsRight
PROPERTIES Converges
