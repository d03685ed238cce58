--------------------------- MODULE MCTwoPhaseCommit ---------------------------
(***************************************************************************)
(* Small instances of TwoPhaseCommit for TLC: three nodes, called in order *)
(* of their names, the first of them the coordinator.                      *)
(***************************************************************************)
EXTENDS TwoPhaseProperties

CONSTANTS n1, n2, n3

ThreeNodes == <<n1, n2, n3>>

\* Nobody votes no, or the last node to be asked does.
NoneOrTheLast == {{}, {n3}}

\* Bound: calls in flight that nobody waits for.  At most two; where every node may
\* commit, at most one of them once the coordinator has started again.
Leftover == {c \in calls : ~Current(c)}
Scope == Cardinality(Leftover) <= IF abortSelf = {} THEN 3 - run ELSE 2
===============================================================================
