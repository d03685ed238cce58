SPECIFICATION FairSpec
CONSTANTS
  Requests = {r1, r2}
  MaxKills = 0
  r1 = r1
  r2 = r2
PROPERTY PostIsStored
CHECK_DEADLOCK FALSE
