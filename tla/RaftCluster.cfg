CONSTANTS
  Node = {n1, n2, n3}
  Reading = {r1, r2}
  Unencodable = {r2}
  None = None
  MaxTerm = 2
  MaxTicks = 1
  MaxLate = 1
  MaxCrashes = 1
SPECIFICATION ClusterSpec
INVARIANTS BallotsAreForThisTerm LeaderWasElected SplitTermNeedsForgottenVote HeartbeatsAreFromElectedLeaders EntriesComeFromElectedLeaders AppliesOwnCommitsOnly
PROPERTY StepsDownForHigherTerm
CONSTRAINT Scope
SYMMETRY Symmetry
CHECK_DEADLOCK FALSE
