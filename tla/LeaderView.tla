------------------------------ MODULE LeaderView ------------------------------
(***************************************************************************)
(* What a cluster of Raft nodes lets its other components see: the role    *)
(* of each node, the name it has for the leader, and whether its lock is   *)
(* held for ever.  Terms, votes and logs are left out; led remembers which *)
(* nodes have ever had the votes of a majority.  RaftNode implements this  *)
(* module (RaftProperties!ViewsChangeAsPromised), and Ingestion runs on it.*)
(***************************************************************************)
EXTENDS Naturals, FiniteSets

CONSTANTS Node,   \* the cluster
          None    \* the empty string in leaderId

VARIABLES role, leaderId,  \* the fields of RaftNode
          wedged,          \* rn.mu is held by a handler that will never release it
          led              \* history: nodes that some majority has voted for in one term

view == <<role, leaderId, wedged, led>>

InitView ==
  /\ role = [n \in Node |-> "follower"]
  /\ leaderId = [n \in Node |-> None]
  /\ wedged = [n \in Node |-> FALSE]
  /\ led = {}

\* An election starts at n, which forgets the leader it knew.
Campaign(n) ==
  /\ ~wedged[n] /\ role[n] # "leader"
  /\ role' = [role EXCEPT ![n] = "candidate"]
  /\ leaderId' = [leaderId EXCEPT ![n] = None]
  /\ led' \in {led, led \cup {n}}
  /\ UNCHANGED wedged

\* p answers a vote request of c.  If the term is new to p it steps down, and
\* keeps the leader it knew: its own name, when it led itself.
Vote(p, c) ==
  /\ ~wedged[p]
  /\ role' \in {role, [role EXCEPT ![p] = "follower"]}
  /\ led' \in {led, led \cup {c}}
  /\ UNCHANGED <<leaderId, wedged>>

\* n learns a higher term from a reply to its own vote requests.  None of these
\* is left when it leads.
LearnHigherTerm(n) ==
  /\ ~wedged[n] /\ role[n] # "leader"
  /\ role' = [role EXCEPT ![n] = "follower"]
  /\ UNCHANGED <<leaderId, wedged, led>>

\* n counts its votes and leads.
Win(n) ==
  /\ ~wedged[n] /\ role[n] = "candidate" /\ n \in led
  /\ role' = [role EXCEPT ![n] = "leader"]
  /\ leaderId' = [leaderId EXCEPT ![n] = n]
  /\ UNCHANGED <<wedged, led>>

\* n accepts a message of another node, not necessarily of one that still
\* leads.  It steps down if the term is new to it, and only then; it locks
\* itself out if the message tells it of a commit.
Hear(n, l) ==
  /\ ~wedged[n] /\ l \in led \ {n}
  /\ role' \in {role, [role EXCEPT ![n] = "follower"]}
  /\ leaderId' = [leaderId EXCEPT ![n] = l]
  /\ wedged' \in {wedged, [wedged EXCEPT ![n] = TRUE]}
  /\ UNCHANGED led

\* The process of n is replaced by a new one.
Restart(n) ==
  /\ role' = [role EXCEPT ![n] = "follower"]
  /\ leaderId' = [leaderId EXCEPT ![n] = None]
  /\ wedged' = [wedged EXCEPT ![n] = FALSE]
  /\ UNCHANGED led

ViewStep(n) ==
  \/ Campaign(n) \/ LearnHigherTerm(n) \/ Win(n)
  \/ \E p \in Node \ {n} : Vote(n, p) \/ Hear(n, p)

ViewNext == \E n \in Node : ViewStep(n) \/ Restart(n)

ViewSpec == InitView /\ [][ViewNext]_view
===============================================================================
