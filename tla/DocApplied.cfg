CONSTANTS
  Node = {n1, n2, n3}
  Reading = {r1}
  Unencodable = {}
  None = None
  MaxTerm = 1
  MaxTicks = 1
  MaxLate = 0
  MaxCrashes = 0
SPECIFICATION FairCommittedSpec
PROPERTY CommittedIsApplied
CHECK_DEADLOCK FALSE
