CONSTANTS
  MaxLogins = 2
  MaxChanges = 2
  MaxRequests = 1
SPECIFICATION FairSpec
CHECK_DEADLOCK TRUE
INVARIANTS
  NeverGivesUp
  OneChain
  BadgeHonest
  ConnectedIsRight
  ClientInv
PROPERTIES
  StaysLive
