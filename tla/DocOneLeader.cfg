CONSTANTS
  Node = {n1, n2, n3}
  Reading = {}
  Unencodable = {}
  None = None
  MaxTerm = 2
  MaxTicks = 0
  MaxLate = 0
  MaxCrashes = 0
SPECIFICATION Spec
INVARIANT OneLeaderPerTerm
SYMMETRY Symmetry
CHECK_DEADLOCK FALSE
