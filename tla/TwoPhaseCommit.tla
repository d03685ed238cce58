---------------------------- MODULE TwoPhaseCommit ----------------------------
(***************************************************************************)
(* The two-phase commit of architecture1/two_pc: the coordinator thread of *)
(* coordinator_phase.py and the Vote and Decision servers every node runs. *)
(*                                                                         *)
(* The coordinator is sequential: it asks the nodes one after another and  *)
(* waits for each answer without a deadline.  It keeps nothing on disk and *)
(* always runs the same transaction, so a restart runs that transaction    *)
(* again; run counts those runs.  A call that failed at the coordinator,   *)
(* or whose coordinator has restarted, may still be served.                *)
(***************************************************************************)
EXTENDS Naturals, Sequences, FiniteSets

CONSTANTS Cluster,      \* the list of that name: every node, the coordinator's too
          Coordinator,  \* the node started with COORDINATOR=true
          AbortSets,    \* which nodes may be the ones started with ABORT_SELF=true
          MaxRuns,      \* bound: starts of the coordinator
          MaxCrashes    \* bound: crashes of any node

Node == {Cluster[i] : i \in DOMAIN Cluster}

ASSUME ClusterAssumption ==
  /\ Cluster \in Seq(Node)
  /\ Coordinator \in Node /\ AbortSets \subseteq SUBSET Node
ASSUME BoundAssumption == MaxRuns \in Nat \ {0} /\ MaxCrashes \in Nat

VARIABLES
  pc, next, waiting,  \* the coordinator: phase, position in Cluster, call outstanding
  votes,              \* its dict of that name
  calls,              \* the RPCs being served, or answered and not yet read
  prepared,           \* T101 is in the set of that name of the Decision server
  up,                 \* the node's process runs
  abortSelf,          \* the nodes started with ABORT_SELF=true
  run, crashes,
  decided,            \* history, and final_decision of the present run
  yes,                \* history: <<k, n>> if n prepared for run k and answered yes
  applied, aborted    \* history: the runs whose decision the node has served

coordinator == <<pc, next, waiting, votes>>
history == <<decided, yes, applied, aborted>>
vars == <<coordinator, calls, prepared, up, abortSelf, run, crashes, history>>

Runs == 1..MaxRuns

Init ==
  /\ pc = "vote" /\ next = 1 /\ waiting = FALSE
  /\ votes = [n \in Node |-> "none"]
  /\ calls = {}
  /\ prepared = [n \in Node |-> FALSE]
  /\ up = [n \in Node |-> TRUE] /\ abortSelf \in AbortSets
  /\ run = 1 /\ crashes = 0
  /\ decided = [k \in Runs |-> "none"]
  /\ yes = {}
  /\ applied = [n \in Node |-> {}]
  /\ aborted = [n \in Node |-> {}]

-------------------------------------------------------------------------------
(* The coordinator.                                                        *)

KindOfOwnVote == IF pc = "vote" THEN "VoteRequest"
                 ELSE IF votes[Cluster[next]] = "yes" THEN "GlobalCommit" ELSE "GlobalAbort"
Kind == IF pc = "vote" THEN "VoteRequest"
        ELSE IF decided[run] = "COMMIT" THEN "GlobalCommit" ELSE "GlobalAbort"

\* c is the call the coordinator is waiting for.
Current(c) == waiting /\ c.run = run /\ c.kind = Kind /\ c.to = Cluster[next]

\* The loop of either phase calls its next node.
Send ==
  /\ pc \in {"vote", "decide"} /\ ~waiting /\ next <= Len(Cluster)
  /\ waiting' = TRUE
  /\ calls' = calls \cup {[run |-> run, kind |-> Kind, to |-> Cluster[next], st |-> "sent",
                           vote |-> FALSE]}
  /\ UNCHANGED <<pc, next, votes, prepared, up, abortSelf, run, crashes, history>>

VoteOf(c) == IF c.vote THEN "yes" ELSE "no"

\* The answer to a VoteRequest is read.
ReceiveVote(c) ==
  /\ pc = "vote" /\ Current(c) /\ c.st = "replied"
  /\ votes' = [votes EXCEPT ![c.to] = VoteOf(c)]
  /\ next' = next + 1 /\ waiting' = FALSE
  /\ calls' = calls \ {c}
  /\ UNCHANGED <<pc, prepared, up, abortSelf, run, crashes, history>>

\* A VoteRequest raises: the node is taken to vote no, and not asked again.
FailedVoteUnknown == "unknown"
FailedVoteCounts == "yes"
FailedVote == "no"

VoteCallRetries ==
  /\ pc = "vote" /\ waiting
  /\ waiting' = FALSE
  /\ UNCHANGED <<pc, next, votes, calls, prepared, up, abortSelf, run, crashes, history>>
VoteCallFails ==
  /\ pc = "vote" /\ waiting
  /\ votes' = [votes EXCEPT ![Cluster[next]] = FailedVote]
  /\ next' = next + 1 /\ waiting' = FALSE
  /\ UNCHANGED <<pc, calls, prepared, up, abortSelf, run, crashes, history>>

\* all(votes.values())
AnyYes == \E n \in Node : votes[n] = "yes"
AllYes == \A n \in Node : votes[n] = "yes"

Decide ==
  /\ pc = "vote" /\ next > Len(Cluster)
  /\ decided' = [decided EXCEPT ![run] = IF AllYes THEN "COMMIT" ELSE "ABORT"]
  /\ pc' = "decide" /\ next' = 1
  /\ UNCHANGED <<waiting, votes, calls, prepared, up, abortSelf, run, crashes, yes, applied, aborted>>

\* A GlobalCommit or GlobalAbort is acknowledged.
ReceiveAck(c) ==
  /\ pc = "decide" /\ Current(c) /\ c.st = "replied"
  /\ next' = next + 1 /\ waiting' = FALSE
  /\ calls' = calls \ {c}
  /\ UNCHANGED <<pc, votes, prepared, up, abortSelf, run, crashes, history>>

\* A GlobalCommit or GlobalAbort raises.  Nothing catches it: the thread ends,
\* and the nodes after this one are never told.
DecisionCallFails ==
  /\ pc = "decide" /\ waiting
  /\ pc' = "dead" /\ waiting' = FALSE
  /\ UNCHANGED <<next, votes, calls, prepared, up, abortSelf, run, crashes, history>>

Finish ==
  /\ pc = "decide" /\ ~waiting /\ next > Len(Cluster)
  /\ pc' = "done"
  /\ UNCHANGED <<next, waiting, votes, calls, prepared, up, abortSelf, run, crashes, history>>

-------------------------------------------------------------------------------
(* The servers of a node.                                                  *)

\* c is answered; an answer nobody waits for any more is gone.
Reply(c, vote) ==
  calls' = (calls \ {c}) \cup (IF Current(c) THEN {[c EXCEPT !.st = "replied", !.vote = vote]} ELSE {})

\* VoteRequest answers no at once, or calls Prepare of its own Decision server.
VotesNoNever(c) == FALSE
VotesNo(c) == c.to \in abortSelf
VoteRequest(c) ==
  /\ c.kind = "VoteRequest" /\ c.st = "sent" /\ up[c.to]
  /\ IF VotesNo(c) THEN Reply(c, FALSE)
     ELSE calls' = (calls \ {c}) \cup {[c EXCEPT !.st = "preparing"]}
  /\ UNCHANGED <<coordinator, prepared, up, abortSelf, run, crashes, history>>

Prepare(c) ==
  /\ c.st = "preparing" /\ up[c.to]
  /\ prepared' = [prepared EXCEPT ![c.to] = TRUE]
  /\ yes' = yes \cup {<<c.run, c.to>>}
  /\ Reply(c, TRUE)
  /\ UNCHANGED <<coordinator, up, abortSelf, run, crashes, decided, applied, aborted>>

\* The local Prepare raises: the answer is no, even when Prepare has run and only
\* its reply was lost.
PrepareFails(c) ==
  /\ c.st = "preparing" /\ up[c.to]
  /\ prepared' \in {prepared, [prepared EXCEPT ![c.to] = TRUE]}
  /\ Reply(c, FALSE)
  /\ UNCHANGED <<coordinator, up, abortSelf, run, crashes, history>>

\* GlobalCommit applies whether or not the node is prepared.
GlobalCommit(c) ==
  /\ c.kind = "GlobalCommit" /\ c.st = "sent" /\ up[c.to]
  /\ prepared' = [prepared EXCEPT ![c.to] = TRUE]
  /\ applied' = [applied EXCEPT ![c.to] = @ \cup {c.run}]
  /\ Reply(c, FALSE)
  /\ UNCHANGED <<coordinator, up, abortSelf, run, crashes, decided, yes, aborted>>

GlobalAbort(c) ==
  /\ c.kind = "GlobalAbort" /\ c.st = "sent" /\ up[c.to]
  /\ prepared' = [prepared EXCEPT ![c.to] = FALSE]
  /\ aborted' = [aborted EXCEPT ![c.to] = @ \cup {c.run}]
  /\ Reply(c, FALSE)
  /\ UNCHANGED <<coordinator, up, abortSelf, run, crashes, decided, yes, applied>>

-------------------------------------------------------------------------------
(* Crashes and restarts.  prepared and everything the coordinator knows    *)
(* are in memory.  A call that was not answered yet ends with its server,  *)
(* but not with its coordinator.                                           *)

Crash(n) ==
  /\ up[n] /\ crashes < MaxCrashes
  /\ crashes' = crashes + 1
  /\ up' = [up EXCEPT ![n] = FALSE]
  /\ prepared' = [prepared EXCEPT ![n] = FALSE]
  /\ calls' = {c \in calls : IF c.st = "replied" THEN n # Coordinator ELSE c.to # n}
  /\ IF n = Coordinator
       THEN /\ pc' = "down" /\ next' = 1 /\ waiting' = FALSE
            /\ votes' = [m \in Node |-> "none"]
       ELSE UNCHANGED coordinator
  /\ UNCHANGED <<abortSelf, run, history>>

\* The process starts again; the coordinator's begins with Phase 1.
Restart(n) ==
  /\ ~up[n]
  /\ up' = [up EXCEPT ![n] = TRUE]
  /\ IF n = Coordinator
       THEN run < MaxRuns /\ run' = run + 1 /\ pc' = "vote"
       ELSE UNCHANGED <<run, pc>>
  /\ UNCHANGED <<next, waiting, votes, calls, prepared, abortSelf, crashes, history>>

-------------------------------------------------------------------------------
Coordinate ==
  \/ Send \/ VoteCallFails \/ Decide \/ DecisionCallFails \/ Finish
  \/ \E c \in calls : ReceiveVote(c) \/ ReceiveAck(c)

Serve(c) ==
  VoteRequest(c) \/ Prepare(c) \/ PrepareFails(c) \/ GlobalCommit(c) \/ GlobalAbort(c)

Next ==
  \/ Coordinate
  \/ \E c \in calls : Serve(c)
  \/ \E n \in Node : Crash(n) \/ Restart(n)

Spec == Init /\ [][Next]_vars

\* The coordinator thread runs; a call that reached a live node is served; a
\* call that a crash has cut off, or that went to a dead node, does raise.
Orphaned == waiting /\ \A c \in calls : Current(c) => ~up[c.to] /\ c.st # "replied"
Fairness ==
  /\ WF_vars(Send \/ Decide \/ Finish)
  /\ WF_vars(\E c \in calls : Current(c) /\ (ReceiveVote(c) \/ ReceiveAck(c) \/ Serve(c)))
  /\ WF_vars(Orphaned /\ (VoteCallFails \/ DecisionCallFails))

FairSpec == Spec /\ Fairness
===============================================================================
