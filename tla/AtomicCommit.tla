----------------------------- MODULE AtomicCommit -----------------------------
(***************************************************************************)
(* What one run of a commitment protocol promises: a node applies the      *)
(* transaction only after every node has voted for it, and never when      *)
(* another node has dropped it.                                            *)
(***************************************************************************)
CONSTANT Node

VARIABLES voted,    \* the nodes that prepared the transaction and said so
          outcome   \* what each node did with it

Init ==
  /\ voted = {}
  /\ outcome = [n \in Node |-> "none"]

Vote(n) ==
  /\ voted' = voted \cup {n}
  /\ UNCHANGED outcome

Commit(n) ==
  /\ outcome[n] = "none" /\ voted = Node
  /\ \A m \in Node : outcome[m] # "aborted"
  /\ outcome' = [outcome EXCEPT ![n] = "committed"]
  /\ UNCHANGED voted

Abort(n) ==
  /\ outcome[n] = "none"
  /\ \A m \in Node : outcome[m] # "committed"
  /\ outcome' = [outcome EXCEPT ![n] = "aborted"]
  /\ UNCHANGED voted

Next == \E n \in Node : Vote(n) \/ Commit(n) \/ Abort(n)

Spec == Init /\ [][Next]_<<voted, outcome>>
===============================================================================
