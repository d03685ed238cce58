------------------------------ MODULE MCIngestion ------------------------------
(***************************************************************************)
(* Small instances of Ingestion for TLC: three nodes, of which the first   *)
(* has been elected and is known to the second but not to the third.       *)
(***************************************************************************)
EXTENDS IngestionProperties, TLC

CONSTANTS n1, n2, n3

PeersOfThree == (n1 :> <<n2, n3>>) @@ (n2 :> <<n1, n3>>) @@ (n3 :> <<n1, n2>>)

FirstLeader ==
  /\ role = [n \in Node |-> IF n = n1 THEN "leader" ELSE "follower"]
  /\ leaderId = [n \in Node |-> IF n = n3 THEN None ELSE n1]
  /\ wedged = [n \in Node |-> FALSE]
  /\ led = {n1}
  /\ hops = [s \in Stream |-> <<>>]
  /\ accepted = [s \in Stream |-> <<>>]
  /\ changes = 0 /\ settled = {}

LedSpec == FirstLeader /\ [][Next]_<<vars, settled>>
FairLedSpec == LedSpec /\ Fairness
===============================================================================
