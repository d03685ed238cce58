CONSTANTS
  n1 = n1
  n2 = n2
  n3 = n3
  Cluster <- ThreeNodes
  Coordinator = n1
  AbortSets <- NoneOrTheLast
  MaxRuns = 2
  MaxCrashes = 1
SPECIFICATION FairSpec
INVARIANTS TypeOK RunsAgree CommitNeedsEveryVote AbortSelfForcesAbort
PROPERTIES LastRunIsAtomic RunEnds PreparedIsReleased
CONSTRAINT Scope
CHECK_DEADLOCK FALSE
