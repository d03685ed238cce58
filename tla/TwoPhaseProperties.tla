-------------------------- MODULE TwoPhaseProperties --------------------------
(***************************************************************************)
(* What the two-phase commit of architecture1 promises, run by run.        *)
(***************************************************************************)
EXTENDS TwoPhaseCommit

CallSet == [run : Runs, kind : {"VoteRequest", "GlobalCommit", "GlobalAbort"}, to : Node,
            st : {"sent", "preparing", "replied"}, vote : BOOLEAN]

\* The type invariant.
TypeOK ==
  /\ pc \in {"vote", "decide", "done", "dead", "down"}
  /\ next \in 1..(Len(Cluster) + 1) /\ waiting \in BOOLEAN
  /\ votes \in [Node -> {"none", "yes", "no"}]
  /\ calls \subseteq CallSet
  /\ prepared \in [Node -> BOOLEAN] /\ up \in [Node -> BOOLEAN] /\ abortSelf \in AbortSets
  /\ run \in Runs /\ crashes \in 0..MaxCrashes
  /\ decided \in [Runs -> {"none", "COMMIT", "ABORT"}]
  /\ yes \subseteq Runs \X Node
  /\ applied \in [Node -> SUBSET Runs] /\ aborted \in [Node -> SUBSET Runs]

-------------------------------------------------------------------------------
\* No node applies the transaction in a run in which another drops it, even
\* with votes and decisions served late and nodes that forgot their vote.
RunsAgree ==
  \A k \in Runs : \A m, n \in Node : ~(k \in applied[m] /\ k \in aborted[n])

\* A run commits only when every node prepared for its vote and said yes, the node
\* that answered just before it crashed included.
CommitNeedsEveryVote ==
  \A k \in Runs : decided[k] = "COMMIT" => \A n \in Node : <<k, n>> \in yes

\* README_2PC.md:25-30: a node set to ABORT_SELF forces an abort.  Neither a
\* restart nor a late answer of an earlier run gets the transaction applied.
AbortSelfForcesAbort == abortSelf # {} => \A n \in Node : applied[n] = {}

\* Each run by itself is an atomic commitment.  TLC checks the last one, around
\* which the calls and votes of the earlier runs are still about.
Voted(k) == {n \in Node : <<k, n>> \in yes}
Outcome(k) == [n \in Node |-> IF k \in applied[n] THEN "committed"
                              ELSE IF k \in aborted[n] THEN "aborted" ELSE "none"]
LastRun == INSTANCE AtomicCommit WITH voted <- Voted(MaxRuns), outcome <- Outcome(MaxRuns)
LastRunIsAtomic == LastRun!Spec

\* A run always ends: with its decision delivered, or with its thread dead or
\* its process down.
RunEnds == pc \in {"vote", "decide"} ~> pc \in {"done", "dead", "down"}

\* Where one node always votes no, a node that prepares during the vote is
\* released again, unless the coordinator's thread dies or its process stops:
\* then nobody tells it, though README_2PC.md:3 promises "fault tolerance".
\* (One that serves a failed call's vote after the decision stays prepared.)
PreparedIsReleased ==
  \A n \in Node : abortSelf # {} /\ prepared[n] /\ pc = "vote"
                    ~> ~prepared[n] \/ pc \in {"dead", "down"}
===============================================================================
