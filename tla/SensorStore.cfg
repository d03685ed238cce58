SPECIFICATION FairSpec
CONSTANTS
  Requests = {r1, r2, r3}
  MaxKills = 1
  r1 = r1
  r2 = r2
  r3 = r3
INVARIANTS TypeOK MisreadNeedsKill
PROPERTY RequestReturns
CHECK_DEADLOCK FALSE
