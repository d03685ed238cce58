---------------------------- MODULE RaftTypeProofs ----------------------------
(***************************************************************************)
(* The type invariant of RaftNode holds in every reachable state, for every *)
(* cluster, set of readings and bound.                                     *)
(***************************************************************************)
EXTENDS RaftProperties, FiniteSetTheorems, TLAPS

\* What TypeOK needs to be inductive: a call that has begun belongs to a node.
CallsBelong ==
  /\ \A r \in Reading : sub[r].st # "new" => sub[r].node \in Node
  /\ \A r \in Reading, p \in Node : rpc[r][p].st # "none" => sub[r].st # "new"

TypeInv == TypeOK /\ CallsBelong

\* The slots of a message built from a log are sets of entries.
LEMMA CapturedType ==
  ASSUME NEW n \in Node, log[n] \in Seq(Entry)
  PROVE  Captured(n) \in Slots
<1>1. DOMAIN log[n] = 1..Len(log[n]) /\ Len(log[n]) \in Nat
  OBVIOUS
<1>2. \A i \in DOMAIN log[n] : {log[n][i]} \in SUBSET Entry
  OBVIOUS
<1>3. QED
  BY <1>1, <1>2 DEF Captured, Slots

\* They remain so when the log is written to.
LEMMA OverwrittenType ==
  ASSUME NEW n, log'[n] \in Seq(Entry), NEW slots \in Slots
  PROVE  Overwritten(n, slots) \in Slots
<1>1. DOMAIN slots = 1..Len(slots) /\ Len(slots) \in Nat
  BY DEF Slots
<1>2. ASSUME NEW i \in DOMAIN slots
      PROVE  slots[i] \cup {log'[n][j] : j \in DOMAIN log'[n] \cap {i}} \in SUBSET Entry
  <2>1. slots[i] \in SUBSET Entry
    BY <1>1 DEF Slots
  <2>2. \A j \in DOMAIN log'[n] : log'[n][j] \in Entry
    OBVIOUS
  <2>3. QED
    BY <2>1, <2>2
<1>3. QED
  BY <1>1, <1>2 DEF Overwritten, Slots

LEMMA BeatsOfType ==
  ASSUME NEW n, log'[n] \in Seq(Entry), NEW messages \in SUBSET Requests
  PROVE  BeatsOf(n, messages) \subseteq Requests
<1>1. ASSUME NEW m \in messages
      PROVE  [m EXCEPT !.entries = Overwritten(n, @)] \in Requests
  <2>1. Overwritten(n, m.entries) \in Slots
    BY OverwrittenType DEF Requests
  <2>2. QED
    BY <2>1 DEF Requests
<1>2. QED
  BY <1>1 DEF BeatsOf

LEMMA RpcsOfType ==
  ASSUME SubTypeOK, NEW n, log'[n] \in Seq(Entry)
  PROVE  /\ RpcsOf(n) \in [Reading -> [Node -> Rpcs]]
         /\ \A r \in Reading, p \in Node : RpcsOf(n)[r][p].st = rpc[r][p].st
<1>1. ASSUME NEW r \in Reading, NEW p \in Node
      PROVE  /\ [rpc[r][p] EXCEPT !.entries = Overwritten(n, @)] \in Rpcs
             /\ [rpc[r][p] EXCEPT !.entries = Overwritten(n, @)].st = rpc[r][p].st
  <2>1. rpc[r][p] \in Rpcs
    BY DEF SubTypeOK
  <2>2. Overwritten(n, rpc[r][p].entries) \in Slots
    BY <2>1, OverwrittenType DEF Rpcs
  <2>3. QED
    BY <2>1, <2>2 DEF Rpcs
<1>2. QED
  BY <1>1 DEF RpcsOf, SubTypeOK

\* What is marshalled from such slots is a log.
LEMMA MarshalledType ==
  ASSUME NEW slots \in Slots, NEW es \in Marshalled(slots)
  PROVE  es \in Seq(Entry) /\ Len(es) = Len(slots)
<1>1. DOMAIN slots = 1..Len(slots) /\ Len(slots) \in Nat
  BY DEF Slots
<1>2. ASSUME NEW i \in DOMAIN slots
      PROVE  es[i] \in Entry
  <2>1. slots[i] \in SUBSET Entry
    BY <1>1 DEF Slots
  <2>2. es[i] \in Readable(slots[i])
    BY DEF Marshalled
  <2>3. Readable(slots[i]) \subseteq Entry
    BY <2>1 DEF Readable, Entry
  <2>4. QED
    BY <2>2, <2>3
<1>3. es \in [1..Len(slots) -> Entry]
  BY <1>1, <1>2 DEF Marshalled
<1>4. QED
  BY <1>1, <1>3

\* The new values AcceptEntries gives to the fields of n have the right types.
LEMMA AcceptType ==
  ASSUME VoteTypeOK, LogTypeOK, leaderId \in [Node -> Node \cup {None}],
         stopHeartbeat \in [Node -> BOOLEAN], wedged \in [Node -> BOOLEAN],
         NEW n \in Node, NEW m, m.term \in Nat, m.from \in Node, m.commit \in Nat,
         m.entries \in Seq(Entry), AcceptEntries(n, m)
  PROVE  /\ term' \in [Node -> Nat]
         /\ role' \in [Node -> Roles]
         /\ votedFor' \in [Node -> Node \cup {None}]
         /\ stopHeartbeat' \in [Node -> BOOLEAN]
         /\ leaderId' \in [Node -> Node \cup {None}]
         /\ log' \in [Node -> Seq(Entry)]
         /\ commitIdx' \in [Node -> Nat]
         /\ wedged' \in [Node -> BOOLEAN]
<1>1. Len(m.entries) \in Nat
  OBVIOUS
<1>2. Commits(n, m) \in BOOLEAN
  BY DEF Commits
<1>3. QED
  BY <1>1, <1>2 DEF AcceptEntries, Newer, VoteTypeOK, LogTypeOK, Roles

LEMMA TypeInit == Init => TypeInv
BY BoundAssumption DEF Init, NewCluster, TypeInv, TypeOK, CallsBelong, VoteTypeOK, ElectTypeOK, LogTypeOK,
   BeatTypeOK, SubTypeOK, Roles, Ballots, Calls, Rpcs, Requests, Slots, Entry, NoBallot, NoRpc, NewCall

\* What the steps below do to one ballot.
LEMMA BallotUpdates ==
  ASSUME NEW b \in Ballots, NEW t \in Nat
  PROVE  /\ b.term \in Nat /\ b.granted \in BOOLEAN
         /\ [b EXCEPT !.st = "sent", !.term = t] \in Ballots
         /\ [b EXCEPT !.st = "done"] \in Ballots
         /\ [b EXCEPT !.st = "learn"] \in Ballots
BY DEF Ballots

LEMMA BallotType ==
  ASSUME ElectTypeOK, NEW n \in Node, NEW p \in Node, NEW b \in Ballots,
         ballot' = [ballot EXCEPT ![n][p] = b], UNCHANGED <<electing, lastLog, late>>
  PROVE  ElectTypeOK'
BY DEF ElectTypeOK

\* A group of variables that a step leaves alone keeps its type.
LEMMA TypeFrame ==
  ASSUME TypeInv
  PROVE  /\ UNCHANGED voteVars => VoteTypeOK'
         /\ UNCHANGED electVars => ElectTypeOK'
         /\ UNCHANGED logVars => LogTypeOK'
         /\ UNCHANGED beatVars => BeatTypeOK'
         /\ UNCHANGED subVars => SubTypeOK' /\ CallsBelong'
<1>1. UNCHANGED voteVars => VoteTypeOK'
  BY DEF TypeInv, TypeOK, VoteTypeOK, voteVars
<1>2. UNCHANGED electVars => ElectTypeOK'
  BY DEF TypeInv, TypeOK, ElectTypeOK, electVars
<1>3. UNCHANGED logVars => LogTypeOK'
  BY DEF TypeInv, TypeOK, LogTypeOK, logVars
<1>4. UNCHANGED beatVars => BeatTypeOK'
  BY DEF TypeInv, TypeOK, BeatTypeOK, beatVars
<1>5. UNCHANGED subVars => SubTypeOK' /\ CallsBelong'
  BY DEF TypeInv, TypeOK, SubTypeOK, CallsBelong, subVars
<1>6. QED
  BY <1>1, <1>2, <1>3, <1>4, <1>5

LEMMA VoteCallType ==
  ASSUME ElectTypeOK, NEW n \in Node, NEW p \in Node
  PROVE  VoteCall(n, p) \in VoteRequests
BY DEF ElectTypeOK, VoteCall, VoteRequests, Ballots

LEMMA HandleVoteType ==
  ASSUME VoteTypeOK, NEW m \in VoteRequests, HandleVote(m)
  PROVE  VoteTypeOK'
<1>1. m.to \in Node /\ m.from \in Node /\ m.term \in Nat
  BY DEF VoteRequests
<1>2. votedFor'  \in [Node -> Node \cup {None}]
  BY <1>1 DEF HandleVote, VoteInTerm, VoteTypeOK
<1>3. votes' \subseteq Node \X Node \X Nat
  BY <1>1 DEF HandleVote, VoteTypeOK
<1>4. term' \in [Node -> Nat] /\ role' \in [Node -> Roles]
  BY <1>1 DEF HandleVote, VoteTypeOK, Roles
<1>5. QED
  BY <1>2, <1>3, <1>4 DEF HandleVote, VoteTypeOK

\* Every action of an election, and of the RequestVote handler.
LEMMA TypeElection ==
  ASSUME TypeInv, NEW n \in Node, Election(n)
  PROVE  TypeInv'
<1>0. VoteTypeOK /\ ElectTypeOK /\ LogTypeOK /\ BeatTypeOK
  BY DEF TypeInv, TypeOK
<1>1. CASE StartElection(n)
  <2>1. VoteTypeOK'
    BY <1>0, <1>1 DEF StartElection, VoteTypeOK, Roles
  <2>2. LastTerm(n) \in Nat /\ Len(log[n]) \in Nat
    <3>1. log[n] \in Seq(Entry)
      BY <1>0 DEF LogTypeOK
    <3>2. log[n] # <<>> => log[n][Len(log[n])] \in Entry
      BY <3>1
    <3>3. QED
      BY <3>1, <3>2 DEF LastTerm, Entry
  <2>3. ElectTypeOK'
    BY <1>0, <1>1, <2>2 DEF StartElection, NoBallot, Ballots, ElectTypeOK
  <2>4. QED
    BY <1>1, <2>1, <2>3, TypeFrame DEF StartElection, TypeInv, TypeOK
<1>2. CASE CountVotes(n)
  <2>1. VoteTypeOK'
    BY <1>0, <1>2 DEF CountVotes, VoteTypeOK, Roles
  <2>2. ElectTypeOK'
    BY <1>0, <1>2 DEF CountVotes, NoBallot, Ballots, ElectTypeOK
  <2>3. BeatTypeOK'
    BY <1>0, <1>2 DEF CountVotes, BeatTypeOK
  <2>4. QED
    BY <1>2, <2>1, <2>2, <2>3, TypeFrame DEF CountVotes, TypeInv, TypeOK
<1>3. ASSUME NEW p \in Peers(n), SendVoteRequest(n, p)
      PROVE  TypeInv'
  <2>1. ElectTypeOK'
    BY <1>0, <1>3, BallotUpdates, BallotType DEF SendVoteRequest, Peers, VoteTypeOK, ElectTypeOK
  <2>2. QED
    BY <1>3, <2>1, TypeFrame DEF SendVoteRequest, TypeInv, TypeOK
<1>4. ASSUME NEW p \in Peers(n), VoteCallFails(n, p)
      PROVE  TypeInv'
  <2>1. late' \subseteq VoteRequests
    <3>1. VoteCall(n, p) \in VoteRequests
      BY <1>0, VoteCallType DEF Peers
    <3>2. QED
      BY <1>0, <1>4, <3>1 DEF VoteCallFails, StayOnTheirWay, ElectTypeOK
  <2>2. ElectTypeOK'
    BY <1>0, <1>4, <2>1 DEF VoteCallFails, NoBallot, Ballots, Peers, ElectTypeOK
  <2>3. QED
    BY <1>4, <2>2, TypeFrame DEF VoteCallFails, TypeInv, TypeOK
<1>5. ASSUME NEW p \in Peers(n), RequestVote(n, p)
      PROVE  TypeInv'
  <2>1. p \in Node /\ VoteCall(n, p) \in VoteRequests
    BY <1>0, VoteCallType DEF Peers
  <2>2. VoteTypeOK'
    BY <1>0, <1>5, <2>1, HandleVoteType DEF RequestVote
  <2>3. ElectTypeOK'
    <3>1. term'[p] \in Nat
      BY <2>1, <2>2 DEF VoteTypeOK
    <3> DEFINE b == [st |-> "reply", term |-> term'[p], granted |-> Grants(VoteCall(n, p))]
    <3>2. b \in Ballots
      BY <2>1, <3>1 DEF Ballots, Grants
    <3>3. ballot' = [ballot EXCEPT ![n][p] = b] /\ UNCHANGED <<electing, lastLog, late>>
      BY <1>5, Zenon DEF RequestVote, HandleVote
    <3> HIDE DEF b
    <3>4. QED
      BY <1>0, <2>1, <3>2, <3>3, BallotType
  <2>4. UNCHANGED <<leaderId, logVars, beatVars, subVars, wedged, crashes>>
    BY <1>5 DEF RequestVote, HandleVote
  <2>5. QED
    BY <2>2, <2>3, <2>4, TypeFrame DEF TypeInv, TypeOK
<1>6. ASSUME NEW p \in Peers(n), ReceiveVote(n, p)
      PROVE  TypeInv'
  <2>1. ElectTypeOK'
    <3> DEFINE st == IF ballot[n][p].term > term[n] THEN "learn" ELSE "done"
    <3>1. p \in Node /\ ballot[n][p] \in Ballots
      BY <1>0 DEF Peers, ElectTypeOK
    <3>2. [ballot[n][p] EXCEPT !.st = st] \in Ballots
      BY <3>1, BallotUpdates
    <3>3. /\ ballot' = [ballot EXCEPT ![n][p] = [@ EXCEPT !.st = st]]
          /\ UNCHANGED <<electing, lastLog, late>>
      BY <1>6 DEF ReceiveVote
    <3>4. ballot' = [ballot EXCEPT ![n][p] = [ballot[n][p] EXCEPT !.st = st]]
      BY <1>0, <3>1, <3>3 DEF ElectTypeOK
    <3>5. QED
      BY <1>0, <3>1, <3>2, <3>3, <3>4, BallotType
  <2>2. QED
    BY <1>6, <2>1, TypeFrame DEF ReceiveVote, TypeInv, TypeOK
<1>7. ASSUME NEW p \in Peers(n), LearnTerm(n, p)
      PROVE  TypeInv'
  <2>1. VoteTypeOK'
    BY <1>0, <1>7 DEF LearnTerm, Forget, Peers, VoteTypeOK, ElectTypeOK, Ballots, Roles
  <2>2. ElectTypeOK'
    BY <1>0, <1>7, BallotUpdates, BallotType DEF LearnTerm, Peers, ElectTypeOK
  <2>3. QED
    BY <1>7, <2>1, <2>2, TypeFrame DEF LearnTerm, TypeInv, TypeOK
<1>8. ASSUME NEW m \in late, RequestVoteLate(m)
      PROVE  TypeInv'
  <2>1. m \in VoteRequests
    BY <1>0 DEF ElectTypeOK
  <2>2. VoteTypeOK'
    BY <1>0, <1>8, <2>1, HandleVoteType DEF RequestVoteLate
  <2>3. ElectTypeOK'
    BY <1>0, <1>8 DEF RequestVoteLate, HandleVote, ElectTypeOK
  <2>4. UNCHANGED <<leaderId, logVars, beatVars, subVars, wedged, crashes>>
    BY <1>8 DEF RequestVoteLate, HandleVote
  <2>5. QED
    BY <2>2, <2>3, <2>4, TypeFrame DEF TypeInv, TypeOK
<1>9. QED
  BY <1>1, <1>2, <1>3, <1>4, <1>5, <1>6, <1>7, <1>8 DEF Election

\* heartbeatLoop, and the AppendEntries handler when it serves a heartbeat or a call
\* that has failed.
LEMMA TypeHeartbeat ==
  ASSUME TypeInv, Heartbeat
  PROVE  TypeInv'
<1>0. /\ VoteTypeOK /\ LogTypeOK /\ BeatTypeOK /\ SubTypeOK /\ CallsBelong
      /\ leaderId \in [Node -> Node \cup {None}] /\ wedged \in [Node -> BOOLEAN]
  BY DEF TypeInv, TypeOK
<1>1. ASSUME NEW n \in Node, HeartbeatTick(n)
      PROVE  TypeInv'
  <2>1. BeatTypeOK'
    <3>1. ASSUME NEW p \in Peers(n)
          PROVE  [tick |-> ticks, call |-> None, live |-> TRUE, from |-> n, to |-> p,
                  term |-> term[n], entries |-> Captured(n), commit |-> commitIdx[n]] \in Requests
      BY <1>0, CapturedType DEF Requests, Peers, BeatTypeOK, VoteTypeOK, LogTypeOK
    <3>2. beats' \subseteq Requests
      BY <1>0, <1>1, <3>1 DEF HeartbeatTick, BeatTypeOK
    <3>3. QED
      BY <1>0, <1>1, <3>2 DEF HeartbeatTick, BeatTypeOK
  <2>2. QED
    BY <1>1, <2>1, TypeFrame DEF HeartbeatTick, TypeInv, TypeOK
<1>2. ASSUME NEW n \in Node, HeartbeatLoopEnds(n)
      PROVE  TypeInv'
  <2>1. BeatTypeOK'
    BY <1>0, <1>2 DEF HeartbeatLoopEnds, BeatTypeOK
  <2>2. QED
    BY <1>2, <2>1, TypeFrame DEF HeartbeatLoopEnds, TypeInv, TypeOK
<1>3. ASSUME NEW n \in Node, HeartbeatLoopStopped(n)
      PROVE  TypeInv'
  <2>1. BeatTypeOK'
    BY <1>0, <1>3 DEF HeartbeatLoopStopped, BeatTypeOK
  <2>2. QED
    BY <1>3, <2>1, TypeFrame DEF HeartbeatLoopStopped, TypeInv, TypeOK
<1>4. ASSUME NEW m \in beats, DeliverHeartbeat(m)
      PROVE  TypeInv'
  <2>1. m \in Requests /\ stopHeartbeat \in [Node -> BOOLEAN]
    BY <1>0 DEF BeatTypeOK
  <2>2. m.from \in Node /\ m.to \in Node /\ m.term \in Nat /\ m.commit \in Nat /\ m.entries \in Slots
    BY <2>1 DEF Requests
  <2>3. UNCHANGED <<votes, forgotten, electVars, lastApplied, redis, heartbeats, ticks, sub, crashes>>
    BY <1>4 DEF DeliverHeartbeat
  <2>4. ASSUME NEW es \in Marshalled(m.entries), AcceptEntries(m.to, [m EXCEPT !.entries = es]),
               beats' = BeatsOf(m.to, beats \ {m}), rpc' = RpcsOf(m.to)
        PROVE  TypeInv'
    <3>1. es \in Seq(Entry)
      BY <2>2, MarshalledType
    <3> DEFINE b == [m EXCEPT !.entries = es]
    <3>2. b.from \in Node /\ b.term \in Nat /\ b.commit \in Nat /\ b.entries \in Seq(Entry)
      BY <2>1, <2>2, <3>1 DEF Requests
    <3>3. AcceptEntries(m.to, b)
      BY <2>4
    <3> HIDE DEF b
    <3>4. /\ term' \in [Node -> Nat] /\ role' \in [Node -> Roles]
          /\ votedFor' \in [Node -> Node \cup {None}] /\ stopHeartbeat' \in [Node -> BOOLEAN]
          /\ leaderId' \in [Node -> Node \cup {None}] /\ log' \in [Node -> Seq(Entry)]
          /\ commitIdx' \in [Node -> Nat] /\ wedged' \in [Node -> BOOLEAN]
      BY <1>0, <2>1, <2>2, <3>2, <3>3, AcceptType
    <3>5. VoteTypeOK' /\ LogTypeOK'
      BY <1>0, <2>3, <3>4 DEF VoteTypeOK, LogTypeOK
    <3>6. log'[m.to] \in Seq(Entry)
      BY <2>2, <3>4
    <3>7. beats' \subseteq Requests
      BY <1>0, <2>4, <3>6, BeatsOfType DEF BeatTypeOK
    <3>8. BeatTypeOK'
      BY <1>0, <2>3, <3>4, <3>7 DEF BeatTypeOK
    <3>9. SubTypeOK' /\ CallsBelong'
      BY <1>0, <2>3, <2>4, <3>6, RpcsOfType DEF SubTypeOK, CallsBelong
    <3>10. QED
      BY <2>3, <3>4, <3>5, <3>8, <3>9, TypeFrame DEF TypeInv, TypeOK
  <2>5. CASE /\ beats' = beats \ {m}
             /\ UNCHANGED <<term, role, votedFor, stopHeartbeat, leaderId, log, commitIdx, wedged, rpc>>
    <3>1. BeatTypeOK'
      BY <1>0, <2>3, <2>5 DEF BeatTypeOK
    <3>2. UNCHANGED voteVars /\ UNCHANGED logVars /\ UNCHANGED subVars
      BY <2>3, <2>5 DEF voteVars, logVars, subVars
    <3>3. QED
      BY <2>3, <2>5, <3>1, <3>2, TypeFrame DEF TypeInv, TypeOK
  <2>6. QED
    BY <1>4, <2>4, <2>5 DEF DeliverHeartbeat
<1>5. ASSUME NEW m \in beats, LoseHeartbeat(m)
      PROVE  TypeInv'
  <2>1. BeatTypeOK'
    BY <1>0, <1>5 DEF LoseHeartbeat, BeatTypeOK
  <2>2. QED
    BY <1>5, <2>1, TypeFrame DEF LoseHeartbeat, TypeInv, TypeOK
<1>6. QED
  BY <1>1, <1>2, <1>3, <1>4, <1>5 DEF Heartbeat

\* What a replication goroutine makes of its state.
LEMMA RpcUpdates ==
  /\ NoRpc \in Rpcs
  /\ \A x \in Rpcs : /\ [x EXCEPT !.st = "dial"] \in Rpcs /\ [x EXCEPT !.st = "acked"] \in Rpcs
                      /\ [x EXCEPT !.st = "hung"] \in Rpcs /\ [x EXCEPT !.st = "failed"] \in Rpcs
<1>1. NoRpc \in Rpcs
  BY DEF NoRpc, Rpcs, Slots
<1>2. ASSUME NEW x \in Rpcs, NEW s \in {"dial", "acked", "hung", "failed"}
      PROVE  [x EXCEPT !.st = s] \in Rpcs
  BY DEF Rpcs
<1>3. QED
  BY <1>1, <1>2

\* One replication call changes, its SubmitReading does not.  The other calls may
\* have had their slots overwritten.
LEMMA RpcType ==
  ASSUME TypeInv, NEW r \in Reading, NEW p \in Node, rpc[r][p].st # "none", NEW x \in Rpcs,
         NEW calls \in [Reading -> [Node -> Rpcs]],
         \A q \in Reading, v \in Node : calls[q][v].st = rpc[q][v].st,
         rpc' = [calls EXCEPT ![r][p] = x], UNCHANGED sub
  PROVE  SubTypeOK' /\ CallsBelong'
<1>1. SubTypeOK'
  BY DEF TypeInv, TypeOK, SubTypeOK
<1>2. sub[r].st # "new"
  BY DEF TypeInv, CallsBelong
<1>3. \A q \in Reading, v \in Node : rpc'[q][v].st = rpc[q][v].st \/ q = r
  OBVIOUS
<1>4. \A q \in Reading : sub'[q].st # "new" => sub'[q].node \in Node
  BY DEF TypeInv, CallsBelong
<1>5. ASSUME NEW q \in Reading, NEW v \in Node, rpc'[q][v].st # "none"
      PROVE  sub'[q].st # "new"
  BY <1>2, <1>3, <1>5 DEF TypeInv, CallsBelong
<1>6. QED
  BY <1>1, <1>4, <1>5 DEF CallsBelong

\* One SubmitReading moves on, with its calls untouched or all returned.
LEMMA SubType ==
  ASSUME TypeInv, NEW r \in Reading, NEW x \in Calls, sub[r].st # "new",
         x.st # "new", x.node = sub[r].node,
         sub' = [sub EXCEPT ![r] = x],
         rpc' = rpc \/ rpc' = [rpc EXCEPT ![r] = [p \in Node |-> NoRpc]]
  PROVE  SubTypeOK' /\ CallsBelong'
<1>1. NoRpc \in Rpcs
  BY DEF NoRpc, Rpcs, Slots
<1>2. SubTypeOK'
  BY <1>1 DEF TypeInv, TypeOK, SubTypeOK
<1>3. CallsBelong'
  BY DEF TypeInv, TypeOK, SubTypeOK, CallsBelong, NoRpc
<1>4. QED
  BY <1>2, <1>3

\* What the steps of SubmitReading do to its own state.
LEMMA CallUpdates ==
  ASSUME NEW c \in Calls
  PROVE  /\ \A s \in {"apply", "failed", "ok", "lost", "halted", "mark"} :
              LET x == [c EXCEPT !.st = s] IN x \in Calls /\ x.st = s /\ x.node = c.node
         /\ LET x == [c EXCEPT !.st = "apply", !.at = 0, !.cmd = None]
            IN x \in Calls /\ x.st = "apply" /\ x.node = c.node
BY DEF Calls

\* The request of a replication goroutine, and those of several that stay in flight.
LEMMA AppendCallType ==
  ASSUME SubTypeOK, NEW r \in Reading, NEW p \in Node, sub[r].node \in Node
  PROVE  AppendCall(r, p) \in Requests
<1>1. rpc[r][p] \in Rpcs /\ sub[r] \in Calls
  BY DEF SubTypeOK
<1>2. QED
  BY <1>1 DEF AppendCall, Requests, Rpcs, Calls

LEMMA StayInFlightType ==
  ASSUME NEW messages \in SUBSET Requests, NEW requests \in SUBSET Requests,
         StayInFlight(messages, requests)
  PROVE  beats' \subseteq Requests
BY DEF StayInFlight

\* SubmitReading, its goroutines, and the AppendEntries handler when it serves them.
LEMMA TypeReplication ==
  ASSUME TypeInv, NEW r \in Reading, NEW p \in Node,
         SubmitReading(r, p) \/ SendEntries(r, p) \/ AppendCallFails(r, p) \/ DeliverEntries(r, p)
  PROVE  TypeInv'
<1>0. /\ VoteTypeOK /\ LogTypeOK /\ BeatTypeOK /\ SubTypeOK /\ CallsBelong
      /\ leaderId \in [Node -> Node \cup {None}] /\ wedged \in [Node -> BOOLEAN]
  BY DEF TypeInv, TypeOK
<1>1. NoRpc \in Rpcs /\ [NoRpc EXCEPT !.st = "dial"] \in Rpcs /\ [NoRpc EXCEPT !.st = "acked"] \in Rpcs
      /\ [NoRpc EXCEPT !.st = "hung"] \in Rpcs /\ [NoRpc EXCEPT !.st = "failed"] \in Rpcs
  BY RpcUpdates
<1>2. CASE SubmitReading(r, p)
  <2>1. LogTypeOK'
    <3>1. [term |-> term[p], cmd |-> r] \in Entry /\ log[p] \in Seq(Entry)
      BY <1>0 DEF Entry, VoteTypeOK, LogTypeOK
    <3>2. Append(log[p], [term |-> term[p], cmd |-> r]) \in Seq(Entry)
      BY <3>1
    <3>3. QED
      BY <1>0, <1>2, <3>2 DEF SubmitReading, LogTypeOK
  <2>2. Len(log[p]) + 1 \in Nat /\ commitIdx[p] \in Nat /\ term[p] \in Nat
    BY <1>0 DEF LogTypeOK, VoteTypeOK
  <2> DEFINE c == [NewCall EXCEPT !.st = "replicate", !.node = p, !.term = term[p],
                                  !.idx = Len(log[p]) + 1, !.commit = commitIdx[p]]
  <2>3. c \in Calls /\ c.st = "replicate" /\ c.node = p
    BY <2>2 DEF NewCall, Calls
  <2>4. sub' = [sub EXCEPT ![r] = c]
    BY <1>2 DEF SubmitReading
  <2> HIDE DEF c
  <2>5. log'[p] \in Seq(Entry)
    BY <2>1 DEF LogTypeOK
  <2> DEFINE calls == RpcsOf(p)
             new == [q \in Node |-> IF q = p THEN NoRpc ELSE [NoRpc EXCEPT !.st = "dial"]]
  <2>6. /\ calls \in [Reading -> [Node -> Rpcs]]
        /\ \A q \in Reading, v \in Node : calls[q][v].st = rpc[q][v].st
    BY <1>0, <2>5, RpcsOfType
  <2>7. new \in [Node -> Rpcs]
    BY <1>1
  <2>8. rpc' = [calls EXCEPT ![r] = new]
    BY <1>2 DEF SubmitReading
  <2> HIDE DEF calls, new
  <2>9. SubTypeOK'
    BY <1>0, <2>3, <2>4, <2>6, <2>7, <2>8 DEF SubTypeOK
  <2>10. CallsBelong'
    <3>1. /\ sub'[r] = c
          /\ \A q \in Reading : q # r => sub'[q] = sub[q] /\ rpc'[q] = calls[q]
      BY <1>0, <2>4, <2>6, <2>8 DEF SubTypeOK
    <3>2. ASSUME NEW q \in Reading
          PROVE  sub'[q].st # "new" => sub'[q].node \in Node
      BY <1>0, <2>3, <3>1 DEF CallsBelong
    <3>3. ASSUME NEW q \in Reading, NEW v \in Node, rpc'[q][v].st # "none"
          PROVE  sub'[q].st # "new"
      <4>1. CASE q = r
        BY <2>3, <3>1, <4>1
      <4>2. CASE q # r
        BY <1>0, <2>6, <3>1, <3>3, <4>2 DEF CallsBelong
      <4>3. QED
        BY <4>1, <4>2
    <3>4. QED
      BY <3>2, <3>3 DEF CallsBelong
  <2>11. BeatTypeOK'
    <3>1. beats' \subseteq Requests
      BY <1>0, <1>2, <2>5, BeatsOfType DEF SubmitReading, BeatTypeOK
    <3>2. QED
      BY <1>0, <1>2, <3>1 DEF SubmitReading, BeatTypeOK
  <2>12. QED
    BY <1>2, <2>1, <2>9, <2>10, <2>11, TypeFrame DEF SubmitReading, TypeInv, TypeOK
<1>3. CASE SendEntries(r, p)
  <2>1. sub[r].node \in Node
    BY <1>0, <1>3 DEF SendEntries, CallsBelong
  <2>2. Captured(sub[r].node) \in Slots
    BY <1>0, <2>1, CapturedType DEF LogTypeOK
  <2>3. [st |-> "sent", term |-> term[sub[r].node], entries |-> Captured(sub[r].node)] \in Rpcs
    BY <1>0, <2>1, <2>2 DEF Rpcs, VoteTypeOK
  <2>4. SubTypeOK' /\ CallsBelong'
    BY <1>0, <1>3, <2>3, RpcType DEF SendEntries, SubTypeOK
  <2>5. QED
    BY <1>3, <2>4, TypeFrame DEF SendEntries, TypeInv, TypeOK
<1>4. CASE AppendCallFails(r, p)
  <2>1. SubTypeOK' /\ CallsBelong'
    BY <1>0, <1>1, <1>4, RpcType DEF AppendCallFails, SubTypeOK
  <2>2. sub[r].node \in Node
    BY <1>0, <1>4 DEF AppendCallFails, CallsBelong
  <2>3. beats' \subseteq Requests
    BY <1>0, <1>4, <2>2, AppendCallType, StayInFlightType DEF AppendCallFails, BeatTypeOK
  <2>4. BeatTypeOK'
    BY <1>0, <1>4, <2>3 DEF AppendCallFails, BeatTypeOK
  <2>5. QED
    BY <1>4, <2>1, <2>4, TypeFrame DEF AppendCallFails, TypeInv, TypeOK
<1>5. CASE DeliverEntries(r, p)
  <2>1. sub[r].node \in Node
    BY <1>0, <1>5 DEF DeliverEntries, CallsBelong
  <2> DEFINE m == AppendCall(r, p)
  <2>2. m \in Requests
    BY <1>0, <2>1, AppendCallType
  <2>3. m.from \in Node /\ m.term \in Nat /\ m.commit \in Nat /\ m.entries \in Slots
    BY <2>2 DEF Requests
  <2>4. /\ rpc[r][p].st = "sent"
        /\ UNCHANGED <<votes, forgotten, electVars, lastApplied, redis, heartbeats, ticks, sub, crashes>>
    BY <1>5 DEF DeliverEntries
  <2>5. ASSUME NEW es \in Marshalled(m.entries), AcceptEntries(p, [m EXCEPT !.entries = es]),
               beats' = BeatsOf(p, beats),
               rpc' = [RpcsOf(p) EXCEPT ![r][p] =
                         [NoRpc EXCEPT !.st = IF Commits(p, m) THEN "hung" ELSE "acked"]]
        PROVE  TypeInv'
    <3>1. es \in Seq(Entry)
      BY <2>3, MarshalledType
    <3> DEFINE b == [m EXCEPT !.entries = es]
    <3>2. b.from \in Node /\ b.term \in Nat /\ b.commit \in Nat /\ b.entries \in Seq(Entry)
      BY <2>2, <2>3, <3>1 DEF Requests
    <3>3. AcceptEntries(p, b)
      BY <2>5
    <3>4. stopHeartbeat \in [Node -> BOOLEAN]
      BY <1>0 DEF BeatTypeOK
    <3> HIDE DEF b, m
    <3>5. /\ term' \in [Node -> Nat] /\ role' \in [Node -> Roles]
          /\ votedFor' \in [Node -> Node \cup {None}] /\ stopHeartbeat' \in [Node -> BOOLEAN]
          /\ leaderId' \in [Node -> Node \cup {None}] /\ log' \in [Node -> Seq(Entry)]
          /\ commitIdx' \in [Node -> Nat] /\ wedged' \in [Node -> BOOLEAN]
      BY <1>0, <3>2, <3>3, <3>4, AcceptType
    <3>6. VoteTypeOK' /\ LogTypeOK'
      BY <1>0, <2>4, <3>5 DEF VoteTypeOK, LogTypeOK
    <3>7. log'[p] \in Seq(Entry)
      BY <3>5
    <3>8. beats' \subseteq Requests
      BY <1>0, <2>5, <3>7, BeatsOfType DEF BeatTypeOK
    <3>9. BeatTypeOK'
      BY <1>0, <2>4, <3>5, <3>8 DEF BeatTypeOK
    <3> DEFINE x == [NoRpc EXCEPT !.st = IF Commits(p, m) THEN "hung" ELSE "acked"]
    <3>10. x \in Rpcs /\ rpc' = [RpcsOf(p) EXCEPT ![r][p] = x]
      BY <1>1, <2>5
    <3> HIDE DEF x
    <3>11. SubTypeOK' /\ CallsBelong'
      BY <1>0, <2>4, <3>7, <3>10, RpcsOfType, RpcType
    <3>12. QED
      BY <2>4, <3>5, <3>6, <3>9, <3>11, TypeFrame DEF TypeInv, TypeOK
  <2>6. CASE /\ rpc' = [rpc EXCEPT ![r][p] = [NoRpc EXCEPT !.st = "failed"]]
             /\ UNCHANGED <<term, role, votedFor, stopHeartbeat, leaderId, log, commitIdx, wedged,
                            beats>>
    <3>1. UNCHANGED voteVars /\ UNCHANGED logVars /\ UNCHANGED beatVars
      BY <2>4, <2>6 DEF voteVars, logVars, beatVars
    <3>2. SubTypeOK' /\ CallsBelong'
      BY <1>0, <1>1, <2>4, <2>6, RpcType DEF SubTypeOK
    <3>3. QED
      BY <2>4, <2>6, <3>1, <3>2, TypeFrame DEF TypeInv, TypeOK
  <2>7. QED
    BY <1>5, <2>5, <2>6, Zenon DEF DeliverEntries
<1>6. QED
  BY <1>2, <1>3, <1>4, <1>5

\* The end of SubmitReading: the count, and applyCommittedEntries.
LEMMA TypeApplication ==
  ASSUME TypeInv, NEW r \in Reading,
         FinishReplication(r) \/ ApplyDone(r) \/ ApplyPick(r) \/ ApplyPush(r) \/ ApplyMark(r)
  PROVE  TypeInv'
<1>0. LogTypeOK /\ SubTypeOK /\ CallsBelong /\ sub[r] \in Calls
  BY DEF TypeInv, TypeOK, SubTypeOK
<1>1. sub[r].st # "new" /\ sub[r].node \in Node
  BY <1>0 DEF CallsBelong, FinishReplication, ApplyDone, ApplyPick, ApplyPush, ApplyMark
<1>2. sub[r].idx \in Nat /\ sub[r].at \in Nat
  BY <1>0 DEF Calls
<1>3. CASE FinishReplication(r)
  <2>1. LogTypeOK'
    BY <1>0, <1>1, <1>2, <1>3 DEF FinishReplication, LogTypeOK
  <2>2. PICK x \in Calls : x.st \in {"apply", "failed"} /\ x.node = sub[r].node /\ sub' = [sub EXCEPT ![r] = x]
    <3>1. sub' = [sub EXCEPT ![r] = [sub[r] EXCEPT !.st = "apply"]]
          \/ sub' = [sub EXCEPT ![r] = [sub[r] EXCEPT !.st = "failed"]]
      BY <1>0, <1>3 DEF FinishReplication, SubTypeOK
    <3>2. QED
      BY <1>0, <3>1, CallUpdates
  <2>3. SubTypeOK' /\ CallsBelong'
    BY <1>1, <1>3, <2>2, SubType DEF FinishReplication
  <2>4. QED
    BY <1>3, <2>1, <2>3, TypeFrame DEF FinishReplication, TypeInv, TypeOK
<1>4. CASE ApplyDone(r)
  <2>1. DEFINE x == [sub[r] EXCEPT !.st = "ok"]
  <2>2. x \in Calls /\ x.st = "ok" /\ x.node = sub[r].node
    BY <1>0, CallUpdates
  <2>3. SubTypeOK' /\ CallsBelong'
    BY <1>1, <1>4, <2>2, SubType DEF ApplyDone
  <2>4. QED
    BY <1>4, <2>3, TypeFrame DEF ApplyDone, TypeInv, TypeOK
<1>5. CASE ApplyPick(r)
  <2>1. DEFINE i == lastApplied[sub[r].node] + 1
  <2>2. i \in 1..Len(log[sub[r].node]) /\ log[sub[r].node] \in Seq(Entry)
    BY <1>0, <1>1, <1>5 DEF ApplyPick, LogTypeOK
  <2>3. DEFINE q == log[sub[r].node][i].cmd
  <2>4. DEFINE x == [sub[r] EXCEPT !.st = "push", !.at = i, !.cmd = q]
  <2>5. x \in Calls /\ x.st = "push" /\ x.node = sub[r].node
    <3>1. log[sub[r].node][i] \in Entry /\ i \in Nat
      BY <2>2
    <3>2. q \in Reading \cup {None}
      BY <3>1 DEF Entry
    <3> HIDE DEF i, q
    <3>3. sub[r] \in Calls
      BY <1>0
    <3>4. QED
      BY <3>1, <3>2, <3>3 DEF Calls
  <2>6. sub' = [sub EXCEPT ![r] = x]
    BY <1>5 DEF ApplyPick
  <2> HIDE DEF x
  <2>7. SubTypeOK' /\ CallsBelong'
    BY <1>1, <1>5, <2>5, <2>6, SubType DEF ApplyPick
  <2>8. QED
    BY <1>5, <2>7, TypeFrame DEF ApplyPick, TypeInv, TypeOK
<1>6. CASE ApplyPush(r)
  <2>1. DEFINE x == [sub[r] EXCEPT !.st = "mark"]
  <2>2. x \in Calls /\ x.st = "mark" /\ x.node = sub[r].node
    BY <1>0, CallUpdates
  <2>3. SubTypeOK' /\ CallsBelong'
    BY <1>1, <1>6, <2>2, SubType DEF ApplyPush
  <2>4. sub[r].cmd # None => sub[r].cmd \in Reading
    BY <1>0 DEF Calls
  <2>5. LogTypeOK'
    <3>1. redis[sub[r].node] \in Seq(Reading)
      BY <1>0, <1>1 DEF LogTypeOK
    <3>2. sub[r].cmd # None => Append(redis[sub[r].node], sub[r].cmd) \in Seq(Reading)
      BY <2>4, <3>1
    <3>3. QED
      BY <1>0, <1>6, <3>2 DEF ApplyPush, LogTypeOK
  <2>6. QED
    BY <1>6, <2>3, <2>5, TypeFrame DEF ApplyPush, TypeInv, TypeOK
<1>7. CASE ApplyMark(r)
  <2>1. DEFINE x == [sub[r] EXCEPT !.st = "apply", !.at = 0, !.cmd = None]
  <2>2. x \in Calls /\ x.st = "apply" /\ x.node = sub[r].node
    BY <1>0, CallUpdates
  <2>3. SubTypeOK' /\ CallsBelong'
    BY <1>1, <1>7, <2>2, SubType DEF ApplyMark
  <2>4. LogTypeOK'
    BY <1>0, <1>1, <1>2, <1>7 DEF ApplyMark, LogTypeOK
  <2>5. QED
    BY <1>7, <2>3, <2>4, TypeFrame DEF ApplyMark, TypeInv, TypeOK
<1>8. QED
  BY <1>3, <1>4, <1>5, <1>6, <1>7

\* The end and the restart of a process.
LEMMA TypeReboot ==
  ASSUME TypeInv, NEW n \in Node, Reboot(n), crashes' \in Nat
  PROVE  TypeInv'
<1>0. VoteTypeOK /\ ElectTypeOK /\ LogTypeOK /\ BeatTypeOK /\ SubTypeOK /\ CallsBelong
  BY DEF TypeInv, TypeOK
<1>1. VoteTypeOK'
  BY <1>0 DEF Reboot, Forget, VoteTypeOK, Roles
<1>2. ElectTypeOK'
  <2>1. \A p \in Node : VoteCall(n, p) \in VoteRequests
    BY <1>0, VoteCallType
  <2>2. late' \subseteq VoteRequests
    BY <1>0, <2>1 DEF Reboot, StayOnTheirWay, ElectTypeOK, Peers
  <2>3. QED
    BY <1>0, <2>2 DEF Reboot, NoBallot, Ballots, ElectTypeOK
<1>3. LogTypeOK'
  BY <1>0 DEF Reboot, LogTypeOK
<1>4. BeatTypeOK'
  <2> DEFINE messages == {IF m.from = n THEN [m EXCEPT !.live = FALSE] ELSE m : m \in beats}
             requests == {AppendCall(c[1], c[2]) :
                            c \in {d \in Reading \X Node :
                                     sub[d[1]].node = n /\ rpc[d[1]][d[2]].st = "sent"}}
  <2>1. messages \subseteq Requests
    <3>1. ASSUME NEW m \in beats
          PROVE  m \in Requests /\ [m EXCEPT !.live = FALSE] \in Requests
      BY <1>0 DEF BeatTypeOK, Requests
    <3>2. QED
      BY <3>1
  <2>2. requests \subseteq Requests
    <3>1. ASSUME NEW r \in Reading, NEW p \in Node, sub[r].node = n
          PROVE  AppendCall(r, p) \in Requests
      BY <1>0, <3>1, AppendCallType
    <3>2. QED
      BY <3>1
  <2>3. StayInFlight(messages, requests)
    BY DEF Reboot
  <2> HIDE DEF messages, requests
  <2>4. beats' \subseteq Requests
    BY <2>1, <2>2, <2>3, StayInFlightType
  <2>5. QED
    BY <1>0, <2>4 DEF Reboot, BeatTypeOK
<1>5. SubTypeOK'
  <2>1. ASSUME NEW r \in Reading
        PROVE  sub'[r] \in Calls
    BY <1>0, CallUpdates DEF Reboot, SubTypeOK
  <2>2. ASSUME NEW r \in Reading, NEW p \in Node
        PROVE  rpc'[r][p] \in Rpcs
    <3>1. rpc[r][p] \in Rpcs /\ NoRpc \in Rpcs /\ [rpc[r][p] EXCEPT !.st = "failed"] \in Rpcs
      BY <1>0, RpcUpdates DEF SubTypeOK
    <3>2. QED
      BY <1>0, <3>1 DEF Reboot, SubTypeOK
  <2>3. QED
    BY <1>0, <2>1, <2>2 DEF Reboot, SubTypeOK
<1>6. CallsBelong'
  BY <1>0 DEF Reboot, Active, CallsBelong, SubTypeOK, Calls, Rpcs, NoRpc
<1>7. QED
  BY <1>1, <1>2, <1>3, <1>4, <1>5, <1>6 DEF Reboot, TypeInv, TypeOK

LEMMA TypeStep == TypeInv /\ [Next]_vars => TypeInv'
<1> SUFFICES ASSUME TypeInv, [Next]_vars
             PROVE  TypeInv'
  OBVIOUS
<1>1. ASSUME NEW n \in Node, Crash(n)
      PROVE  TypeInv'
  <2>1. crashes' \in Nat
    BY <1>1 DEF Crash, TypeInv, TypeOK
  <2>2. QED
    BY <1>1, <2>1, TypeReboot DEF Crash
<1>2. ASSUME NEW r \in Reading, ApplyPanics(r)
      PROVE  TypeInv'
  <2>1. sub[r].node \in Node /\ crashes' \in Nat
    BY <1>2 DEF ApplyPanics, TypeInv, TypeOK, CallsBelong
  <2>2. QED
    BY <1>2, <2>1, TypeReboot DEF ApplyPanics
<1>3. ASSUME NEW r \in Reading, Submission(r)
      PROVE  TypeInv'
  BY <1>2, <1>3, TypeReplication, TypeApplication DEF Submission
<1>4. CASE UNCHANGED vars
  BY <1>4, TypeFrame DEF vars, TypeInv, TypeOK
<1>5. QED
  BY <1>1, <1>3, <1>4, TypeElection, TypeHeartbeat DEF Next

\* Every field, goroutine and message keeps its type in every reachable state.
THEOREM TypeCorrect == Spec => []TypeOK
<1>1. TypeInv => TypeOK
  BY DEF TypeInv
<1>2. QED
  BY <1>1, TypeInit, TypeStep, PTL DEF Spec
===============================================================================
