CONSTANTS
  Node = {n1, n2, n3}
  Reading = {r1, r2}
  Unencodable = {}
  None = None
  MaxTerm = 2
  MaxTicks = 1
  MaxLate = 0
  MaxCrashes = 0
SPECIFICATION ReturnsSpec
INVARIANT TypeOK
PROPERTIES ViewsChangeAsPromised ElectionReturns SubmissionReturns
CHECK_DEADLOCK FALSE
