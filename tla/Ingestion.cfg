CONSTANTS
  n1 = n1
  n2 = n2
  n3 = n3
  Node = {n1, n2, n3}
  None = None
  Peers <- PeersOfThree
  Stream = {s1}
  Length = 2
  MaxHops = 3
  MaxChanges = 3
SPECIFICATION FairLedSpec
INVARIANTS TypeOK ForwardsToPastLeaders SettledIsDirect
PROPERTIES StreamsAreFaithful StreamEnds
CHECK_DEADLOCK FALSE
