---------------------------- MODULE TwoPhaseProofs ----------------------------
(***************************************************************************)
(* What a run of the two-phase commit guarantees, for every cluster, every *)
(* set of nodes that abort and every number of runs and crashes.           *)
(***************************************************************************)
EXTENDS TwoPhaseProperties, TLAPS

-------------------------------------------------------------------------------
(* The inductive invariant.                                                *)

Outstanding == waiting => next \in 1..Len(Cluster)

\* A call in flight speaks for a run that has begun, with that run's decision.
CallsFollow ==
  \A c \in calls :
    /\ c.kind = "GlobalCommit" => decided[c.run] = "COMMIT"
    /\ c.kind = "GlobalAbort" => decided[c.run] = "ABORT"
    /\ c.st = "preparing" => c.to \notin abortSelf
    /\ c.vote => <<c.run, c.to>> \in yes

\* The coordinator counts as yes only what a node prepared for in this run.
VotesTrue ==
  /\ \A n \in Node : votes[n] = "yes" => <<run, n>> \in yes
  /\ ~up[Coordinator] => pc = "down" /\ \A n \in Node : votes[n] = "none"

\* A run is decided once.
DecidedOnce ==
  /\ \A k \in Runs : decided[k] # "none" => k <= run
  /\ pc = "vote" => decided[run] = "none"
  /\ pc = "decide" => decided[run] # "none"

\* A node does what its run decided, and prepares only if it may.
DecisionsServed ==
  /\ \A n \in Node, k \in Runs : k \in applied[n] => decided[k] = "COMMIT"
  /\ \A n \in Node, k \in Runs : k \in aborted[n] => decided[k] = "ABORT"
  /\ \A n \in Node, k \in Runs : <<k, n>> \in yes => n \notin abortSelf

IInv == /\ TypeOK /\ Outstanding /\ CallsFollow /\ VotesTrue /\ DecidedOnce /\ DecisionsServed
        /\ CommitNeedsEveryVote

LEMMA InitInv == Init => IInv
<1> SUFFICES ASSUME Init PROVE IInv
  OBVIOUS
<1>1. Len(Cluster) \in Nat
  BY ClusterAssumption
<1>2. 1 \in Runs /\ 1 \in 1..(Len(Cluster) + 1) /\ 0 \in 0..MaxCrashes
  BY <1>1, BoundAssumption DEF Runs
<1>3. TypeOK
  BY <1>2 DEF Init, TypeOK
<1>4. QED
  BY <1>2, <1>3, ClusterAssumption
     DEF Init, IInv, Outstanding, CallsFollow, VotesTrue, DecidedOnce, DecisionsServed, CommitNeedsEveryVote

-------------------------------------------------------------------------------
(* The steps of the coordinator.                                           *)

LEMMA ClusterType ==
  ASSUME NEW i \in 1..Len(Cluster)
  PROVE  Cluster[i] \in Node
BY ClusterAssumption

LEMMA CoordinateInv ==
  ASSUME IInv, Coordinate
  PROVE  IInv'
<1> USE DEF IInv
<1>0. Len(Cluster) \in Nat
  BY ClusterAssumption
<1>1. CASE Send
  <2> DEFINE c == [run |-> run, kind |-> Kind, to |-> Cluster[next], st |-> "sent", vote |-> FALSE]
  <2>1. Cluster[next] \in Node /\ next \in 1..Len(Cluster)
    BY <1>0, <1>1, ClusterType DEF Send, TypeOK
  <2>2. Kind \in {"VoteRequest", "GlobalCommit", "GlobalAbort"}
    BY DEF Kind
  <2>3. c \in CallSet
    BY <2>1, <2>2 DEF CallSet, TypeOK
  <2>4. /\ Kind = "GlobalCommit" => decided[run] = "COMMIT"
        /\ Kind = "GlobalAbort" => decided[run] = "ABORT"
    BY <1>1 DEF Send, Kind, DecidedOnce, TypeOK
  <2>5. calls' = calls \cup {c} /\ UNCHANGED <<pc, next, votes, prepared, up, abortSelf, run, crashes, history>>
        /\ waiting' = TRUE
    BY <1>1 DEF Send
  <2>6. TypeOK'
    BY <2>3, <2>5 DEF TypeOK, history
  <2>7. CallsFollow'
    <3>1. /\ c.kind = "GlobalCommit" => decided[c.run] = "COMMIT"
          /\ c.kind = "GlobalAbort" => decided[c.run] = "ABORT"
          /\ c.st # "preparing" /\ ~c.vote
      BY <2>4
    <3> HIDE DEF c
    <3>2. QED
      BY <2>5, <3>1 DEF CallsFollow, history
  <2> HIDE DEF c
  <2>8. QED
    BY <2>1, <2>5, <2>6, <2>7
       DEF Outstanding, VotesTrue, DecidedOnce, DecisionsServed, CommitNeedsEveryVote, history
<1>2. CASE VoteCallFails
  <2>1. Cluster[next] \in Node /\ next \in 1..Len(Cluster) /\ next + 1 \in 1..(Len(Cluster) + 1)
    BY <1>0, <1>2, ClusterType DEF VoteCallFails, Outstanding
  <2>2. TypeOK'
    BY <1>2, <2>1 DEF VoteCallFails, TypeOK, history, FailedVote
  <2>3. VotesTrue'
    BY <1>2, <2>1 DEF VoteCallFails, VotesTrue, TypeOK, history, FailedVote
  <2>4. QED
    BY <1>2, <2>2, <2>3
       DEF VoteCallFails, Outstanding, CallsFollow, DecidedOnce, DecisionsServed, CommitNeedsEveryVote, history
<1>3. CASE Decide
  <2>1. run \in Runs /\ decided[run] = "none" /\ pc = "vote"
    BY <1>3 DEF Decide, DecidedOnce, TypeOK
  <2>2. TypeOK'
    BY <1>0, <1>3, <2>1 DEF Decide, TypeOK
  <2>3. ~waiting
    BY <1>0, <1>3 DEF Decide, Outstanding
  <2>4. CallsFollow'
    BY <1>3, <2>1 DEF Decide, CallsFollow, TypeOK, CallSet
  <2>5. DecidedOnce' /\ DecisionsServed'
    BY <1>3, <2>1 DEF Decide, DecidedOnce, DecisionsServed, TypeOK, Runs
  <2>6. CommitNeedsEveryVote'
    BY <1>3, <2>1 DEF Decide, CommitNeedsEveryVote, VotesTrue, AllYes, TypeOK
  <2>7. QED
    BY <1>3, <2>2, <2>3, <2>4, <2>5, <2>6 DEF Decide, Outstanding, VotesTrue
<1>4. CASE DecisionCallFails \/ Finish
  <2>1. TypeOK'
    BY <1>4 DEF DecisionCallFails, Finish, TypeOK, history
  <2>2. pc # "down" /\ pc' \in {"dead", "done"}
    BY <1>4 DEF DecisionCallFails, Finish
  <2>3. QED
    BY <1>4, <2>1, <2>2
       DEF DecisionCallFails, Finish, Outstanding, CallsFollow, VotesTrue, DecidedOnce, DecisionsServed,
           CommitNeedsEveryVote, history
<1>5. ASSUME NEW c \in calls, ReceiveVote(c)
      PROVE  IInv'
  <2>1. c.to \in Node /\ c.run = run /\ next + 1 \in 1..(Len(Cluster) + 1) /\ up[Coordinator]
    BY <1>0, <1>5 DEF ReceiveVote, Current, Outstanding, TypeOK, CallSet, VotesTrue
  <2>2. TypeOK'
    BY <1>5, <2>1 DEF ReceiveVote, TypeOK, history, VoteOf
  <2>3. VotesTrue'
    BY <1>5, <2>1 DEF ReceiveVote, VotesTrue, CallsFollow, TypeOK, history, VoteOf
  <2>4. QED
    BY <1>5, <2>2, <2>3
       DEF ReceiveVote, Outstanding, CallsFollow, DecidedOnce, DecisionsServed, CommitNeedsEveryVote, history
<1>6. ASSUME NEW c \in calls, ReceiveAck(c)
      PROVE  IInv'
  <2>1. next + 1 \in 1..(Len(Cluster) + 1)
    BY <1>0, <1>6 DEF ReceiveAck, Current, Outstanding
  <2>2. TypeOK'
    BY <1>6, <2>1 DEF ReceiveAck, TypeOK, history
  <2>3. QED
    BY <1>6, <2>2
       DEF ReceiveAck, Outstanding, CallsFollow, VotesTrue, DecidedOnce, DecisionsServed, CommitNeedsEveryVote,
           history
<1>7. QED
  BY <1>1, <1>2, <1>3, <1>4, <1>5, <1>6 DEF Coordinate

-------------------------------------------------------------------------------
(* The steps of the servers.                                               *)

\* What a server leaves in calls is a call it may leave there.
LEMMA ServedCalls ==
  ASSUME IInv, NEW c \in calls, NEW d \in CallSet,
         calls' \subseteq (calls \ {c}) \cup {d}, UNCHANGED <<decided, abortSelf>>, yes \subseteq yes',
         d.kind = c.kind, d.run = c.run, d.to = c.to,
         d.st = "preparing" => d.to \notin abortSelf, d.vote => <<d.run, d.to>> \in yes'
  PROVE  calls' \subseteq CallSet /\ CallsFollow'
<1>1. calls' \subseteq CallSet
  BY DEF IInv, TypeOK
<1>2. CallsFollow'
  BY DEF IInv, CallsFollow
<1>3. QED
  BY <1>1, <1>2

\* An answer, of whatever kind.
LEMMA ReplyCalls ==
  ASSUME IInv, NEW c \in calls, NEW v \in BOOLEAN, Reply(c, v),
         UNCHANGED <<decided, abortSelf>>, yes \subseteq yes', v => <<c.run, c.to>> \in yes'
  PROVE  calls' \subseteq CallSet /\ CallsFollow'
<1> DEFINE d == [c EXCEPT !.st = "replied", !.vote = v]
<1>1. c \in CallSet
  BY DEF IInv, TypeOK
<1>2. d \in CallSet /\ d.kind = c.kind /\ d.run = c.run /\ d.to = c.to /\ d.st = "replied" /\ d.vote = v
  BY <1>1 DEF CallSet
<1>3. calls' \subseteq (calls \ {c}) \cup {d}
  BY DEF Reply
<1> HIDE DEF d
<1>4. QED
  BY <1>2, <1>3, ServedCalls

LEMMA ServeInv ==
  ASSUME IInv, NEW c \in calls, Serve(c)
  PROVE  IInv'
<1> USE DEF IInv
<1>0. c \in CallSet /\ c.to \in Node /\ c.run \in Runs
  BY DEF TypeOK, CallSet
<1>1. CASE VoteRequest(c)
  <2>1. calls' \subseteq CallSet /\ CallsFollow'
    <3>1. CASE VotesNo(c)
      BY <1>1, <3>1, ReplyCalls DEF VoteRequest, history
    <3>2. CASE ~VotesNo(c)
      <4> DEFINE d == [c EXCEPT !.st = "preparing"]
      <4>1. d \in CallSet /\ d.kind = c.kind /\ d.run = c.run /\ d.to = c.to /\ d.vote = c.vote
        BY <1>0 DEF CallSet
      <4>2. calls' = (calls \ {c}) \cup {d} /\ UNCHANGED <<decided, abortSelf, yes>>
        BY <1>1, <3>2 DEF VoteRequest, history
      <4> HIDE DEF d
      <4>3. QED
        BY <3>2, <4>1, <4>2, ServedCalls DEF VotesNo, CallsFollow
    <3>3. QED
      BY <3>1, <3>2
  <2>2. TypeOK'
    BY <1>1, <2>1 DEF VoteRequest, TypeOK, coordinator, history
  <2>3. QED
    BY <1>1, <2>1, <2>2 DEF VoteRequest, Outstanding, VotesTrue, DecidedOnce, DecisionsServed,
                            CommitNeedsEveryVote, coordinator, history
<1>2. CASE Prepare(c)
  <2>1. calls' \subseteq CallSet /\ CallsFollow'
    BY <1>2, ReplyCalls DEF Prepare
  <2>2. c.to \notin abortSelf /\ yes \subseteq yes' /\ yes' = yes \cup {<<c.run, c.to>>}
    BY <1>2 DEF Prepare, CallsFollow
  <2>3. TypeOK'
    BY <1>0, <1>2, <2>1 DEF Prepare, TypeOK, coordinator
  <2>4. VotesTrue'
    BY <1>2, <2>2 DEF Prepare, VotesTrue, coordinator
  <2>5. DecisionsServed'
    BY <1>0, <1>2, <2>2 DEF Prepare, DecisionsServed
  <2>6. QED
    BY <1>2, <2>1, <2>2, <2>3, <2>4, <2>5
       DEF Prepare, Outstanding, DecidedOnce, CommitNeedsEveryVote, coordinator
<1>3. CASE PrepareFails(c)
  <2>1. calls' \subseteq CallSet /\ CallsFollow'
    BY <1>3, ReplyCalls DEF PrepareFails, history
  <2>2. TypeOK'
    BY <1>3, <2>1 DEF PrepareFails, TypeOK, coordinator, history
  <2>3. QED
    BY <1>3, <2>1, <2>2 DEF PrepareFails, Outstanding, VotesTrue, DecidedOnce, DecisionsServed,
                            CommitNeedsEveryVote, coordinator, history
<1>4. CASE GlobalCommit(c)
  <2>1. calls' \subseteq CallSet /\ CallsFollow'
    BY <1>4, ReplyCalls DEF GlobalCommit
  <2>2. TypeOK'
    BY <1>0, <1>4, <2>1 DEF GlobalCommit, TypeOK, coordinator
  <2>3. DecisionsServed'
    BY <1>0, <1>4 DEF GlobalCommit, DecisionsServed, CallsFollow, TypeOK
  <2>4. QED
    BY <1>4, <2>1, <2>2, <2>3 DEF GlobalCommit, Outstanding, VotesTrue, DecidedOnce, CommitNeedsEveryVote,
                                  coordinator
<1>5. CASE GlobalAbort(c)
  <2>1. calls' \subseteq CallSet /\ CallsFollow'
    BY <1>5, ReplyCalls DEF GlobalAbort
  <2>2. TypeOK'
    BY <1>0, <1>5, <2>1 DEF GlobalAbort, TypeOK, coordinator
  <2>3. DecisionsServed'
    BY <1>0, <1>5 DEF GlobalAbort, DecisionsServed, CallsFollow, TypeOK
  <2>4. QED
    BY <1>5, <2>1, <2>2, <2>3 DEF GlobalAbort, Outstanding, VotesTrue, DecidedOnce, CommitNeedsEveryVote,
                                  coordinator
<1>6. QED
  BY <1>1, <1>2, <1>3, <1>4, <1>5 DEF Serve

-------------------------------------------------------------------------------
(* Crashes and restarts.                                                   *)

LEMMA CrashInv ==
  ASSUME IInv, NEW n \in Node, Crash(n)
  PROVE  IInv'
<1> USE DEF IInv
<1>1. calls' \subseteq calls /\ 1 \in 1..(Len(Cluster) + 1) /\ crashes' \in 0..MaxCrashes
  BY ClusterAssumption, BoundAssumption DEF Crash, TypeOK
<1>2. TypeOK'
  BY <1>1 DEF Crash, TypeOK, coordinator, history
<1>3. CallsFollow'
  BY <1>1 DEF Crash, CallsFollow, history
<1>4. VotesTrue'
  BY DEF Crash, VotesTrue, TypeOK, coordinator, history
<1>5. QED
  BY <1>2, <1>3, <1>4
     DEF Crash, Outstanding, DecidedOnce, DecisionsServed, CommitNeedsEveryVote, coordinator, history

LEMMA RestartInv ==
  ASSUME IInv, NEW n \in Node, Restart(n)
  PROVE  IInv'
<1> USE DEF IInv
<1>1. TypeOK'
  BY BoundAssumption DEF Restart, TypeOK, Runs, history
<1>2. VotesTrue'
  BY ClusterAssumption DEF Restart, VotesTrue, TypeOK, history
<1>3. DecidedOnce'
  BY BoundAssumption DEF Restart, DecidedOnce, TypeOK, Runs, history
<1>4. QED
  BY <1>1, <1>2, <1>3
     DEF Restart, Outstanding, CallsFollow, DecisionsServed, CommitNeedsEveryVote, history

LEMMA StepInv == IInv /\ [Next]_vars => IInv'
<1> SUFFICES ASSUME IInv, [Next]_vars PROVE IInv'
  OBVIOUS
<1>1. ASSUME UNCHANGED vars
      PROVE  IInv'
  BY <1>1 DEF IInv, TypeOK, Outstanding, CallsFollow, VotesTrue, DecidedOnce, DecisionsServed,
              CommitNeedsEveryVote, vars, coordinator, history
<1>2. QED
  BY <1>1, CoordinateInv, ServeInv, CrashInv, RestartInv DEF Next

LEMMA Inductive == Spec => []IInv
BY InitInv, StepInv, PTL DEF Spec

-------------------------------------------------------------------------------
(* The theorems.                                                           *)

\* Every variable keeps its type.
THEOREM TypeCorrect == Spec => []TypeOK
<1>1. IInv => TypeOK
  BY DEF IInv
<1>2. QED
  BY <1>1, Inductive, PTL

\* A run's nodes never disagree: crashes, restarts of the coordinator and
\* decisions served late included.
THEOREM Agreement == Spec => []RunsAgree
<1>1. IInv => RunsAgree
  BY DEF IInv, DecisionsServed, RunsAgree
<1>2. QED
  BY <1>1, Inductive, PTL

\* A run commits only on the vote of every node, cast in that run.
THEOREM Unanimity == Spec => []CommitNeedsEveryVote
<1>1. IInv => CommitNeedsEveryVote
  BY DEF IInv
<1>2. QED
  BY <1>1, Inductive, PTL

\* One node started with ABORT_SELF keeps every node from ever applying.
THEOREM SelfAbort == Spec => []AbortSelfForcesAbort
<1>1. IInv => AbortSelfForcesAbort
  <2>1. SUFFICES ASSUME IInv, NEW a \in abortSelf, NEW n \in Node, applied[n] # {}
                 PROVE  FALSE
    BY DEF AbortSelfForcesAbort
  <2>2. PICK k \in Runs : k \in applied[n]
    BY <2>1 DEF IInv, TypeOK
  <2>3. a \in Node /\ <<k, a>> \in yes
    BY <2>1, <2>2, ClusterAssumption DEF IInv, TypeOK, DecisionsServed, CommitNeedsEveryVote
  <2>4. QED
    BY <2>1, <2>3 DEF IInv, DecisionsServed
<1>2. QED
  BY <1>1, Inductive, PTL

-------------------------------------------------------------------------------
(* A run implements AtomicCommit: its votes and decisions are the abstract *)
(* ones, and everything else it does is a stuttering step.                 *)

MappedNext == [LastRun!Next]_<<Voted(MaxRuns), Outcome(MaxRuns)>>

LEMMA MappedStutter ==
  ASSUME Voted(MaxRuns)' = Voted(MaxRuns), UNCHANGED <<applied, aborted>>
  PROVE  MappedNext
BY DEF MappedNext, Outcome

LEMMA ServeMaps ==
  ASSUME IInv, IInv', NEW c \in calls, Serve(c)
  PROVE  MappedNext
<1>0. c.to \in Node /\ c.run \in Runs /\ MaxRuns \in Runs
  BY BoundAssumption DEF IInv, TypeOK, CallSet, Runs
<1>1. CASE VoteRequest(c) \/ PrepareFails(c)
  BY <1>1, MappedStutter DEF VoteRequest, PrepareFails, history, Voted
<1>2. CASE Prepare(c)
  <2>1. CASE c.run = MaxRuns
    <3>1. Voted(MaxRuns)' = Voted(MaxRuns) \cup {c.to}
      BY <1>0, <1>2, <2>1 DEF Prepare, Voted
    <3>2. Outcome(MaxRuns)' = Outcome(MaxRuns)
      BY <1>2 DEF Prepare, Outcome
    <3>3. LastRun!Vote(c.to)
      BY <3>1, <3>2 DEF LastRun!Vote
    <3>4. QED
      BY <1>0, <3>3 DEF MappedNext, LastRun!Next
  <2>2. CASE c.run # MaxRuns
    BY <1>2, <2>2, MappedStutter DEF Prepare, Voted
  <2>3. QED
    BY <2>1, <2>2
<1>3. CASE GlobalCommit(c)
  <2>1. Voted(MaxRuns)' = Voted(MaxRuns)
    BY <1>3 DEF GlobalCommit, Voted
  <2>2. CASE c.run # MaxRuns \/ MaxRuns \in applied[c.to]
    <3>1. Outcome(MaxRuns)' = Outcome(MaxRuns)
      BY <1>0, <1>3, <2>2 DEF GlobalCommit, Outcome, IInv, TypeOK
    <3>2. QED
      BY <2>1, <3>1 DEF MappedNext
  <2>3. CASE c.run = MaxRuns /\ MaxRuns \notin applied[c.to]
    <3>1. decided[MaxRuns] = "COMMIT"
      BY <1>3, <2>3 DEF GlobalCommit, IInv, CallsFollow
    <3>2. Voted(MaxRuns) = Node
      BY <1>0, <3>1 DEF IInv, CommitNeedsEveryVote, Voted
    <3>3. \A m \in Node : MaxRuns \notin aborted[m]
      BY <1>0, <3>1 DEF IInv, DecisionsServed
    <3>4. Outcome(MaxRuns)[c.to] = "none" /\ \A m \in Node : Outcome(MaxRuns)[m] # "aborted"
      BY <1>0, <2>3, <3>3 DEF Outcome
    <3>5. Outcome(MaxRuns)' = [Outcome(MaxRuns) EXCEPT ![c.to] = "committed"]
      BY <1>0, <1>3, <2>3 DEF GlobalCommit, Outcome, IInv, TypeOK
    <3>6. LastRun!Commit(c.to)
      BY <2>1, <3>2, <3>4, <3>5 DEF LastRun!Commit
    <3>7. QED
      BY <1>0, <3>6 DEF MappedNext, LastRun!Next
  <2>4. QED
    BY <2>2, <2>3
<1>4. CASE GlobalAbort(c)
  <2>1. Voted(MaxRuns)' = Voted(MaxRuns)
    BY <1>4 DEF GlobalAbort, Voted
  <2>2. CASE c.run # MaxRuns \/ MaxRuns \in aborted[c.to]
    <3>1. Outcome(MaxRuns)' = Outcome(MaxRuns)
      BY <1>0, <1>4, <2>2 DEF GlobalAbort, Outcome, IInv, TypeOK
    <3>2. QED
      BY <2>1, <3>1 DEF MappedNext
  <2>3. CASE c.run = MaxRuns /\ MaxRuns \notin aborted[c.to]
    <3>1. decided[MaxRuns] = "ABORT"
      BY <1>4, <2>3 DEF GlobalAbort, IInv, CallsFollow
    <3>2. \A m \in Node : MaxRuns \notin applied[m]
      BY <1>0, <3>1 DEF IInv, DecisionsServed
    <3>3. Outcome(MaxRuns)[c.to] = "none" /\ \A m \in Node : Outcome(MaxRuns)[m] # "committed"
      BY <1>0, <2>3, <3>2 DEF Outcome
    <3>4. Outcome(MaxRuns)' = [Outcome(MaxRuns) EXCEPT ![c.to] = "aborted"]
      BY <1>0, <1>4, <2>3, <3>2 DEF GlobalAbort, Outcome, IInv, TypeOK
    <3>5. LastRun!Abort(c.to)
      BY <2>1, <3>3, <3>4 DEF LastRun!Abort
    <3>6. QED
      BY <1>0, <3>5 DEF MappedNext, LastRun!Next
  <2>4. QED
    BY <2>2, <2>3
<1>5. QED
  BY <1>1, <1>2, <1>3, <1>4 DEF Serve

\* A run of the two-phase commit, taken by itself, implements AtomicCommit.
THEOREM Refinement == Spec => LastRunIsAtomic
<1>1. Init => LastRun!Init
  BY BoundAssumption DEF Init, LastRun!Init, Voted, Outcome, Runs
<1>2. IInv /\ IInv' /\ [Next]_vars => MappedNext
  <2> SUFFICES ASSUME IInv, IInv', [Next]_vars PROVE MappedNext
    OBVIOUS
  <2>1. ASSUME Coordinate
        PROVE  MappedNext
    BY <2>1, MappedStutter DEF Coordinate, Send, VoteCallFails, Decide, DecisionCallFails, Finish, ReceiveVote,
                               ReceiveAck, history, Voted
  <2>2. ASSUME NEW n \in Node, Crash(n) \/ Restart(n)
        PROVE  MappedNext
    BY <2>2, MappedStutter DEF Crash, Restart, history, Voted
  <2>3. ASSUME UNCHANGED vars
        PROVE  MappedNext
    BY <2>3, MappedStutter DEF vars, history, Voted
  <2>4. QED
    BY <2>1, <2>2, <2>3, ServeMaps DEF Next
<1>3. QED
  BY <1>1, <1>2, Inductive, PTL DEF Spec, LastRunIsAtomic, LastRun!Spec, MappedNext
===============================================================================
