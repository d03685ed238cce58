CONSTANTS
  Node = {n1, n2, n3}
  Reading = {}
  Unencodable = {}
  None = None
  MaxTerm = 3
  MaxTicks = 2
  MaxLate = 0
  MaxCrashes = 0
SPECIFICATION ElectedSpec
INVARIANT LeaderHasHeartbeatLoop
SYMMETRY Symmetry
CHECK_DEADLOCK FALSE
