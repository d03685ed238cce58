-------------------------- MODULE RaftElectionProofs --------------------------
(***************************************************************************)
(* What elections guarantee, for every cluster and bound: a leader holds   *)
(* the votes of a majority in the term it leads, and two nodes are elected *)
(* in one term only if a voter lost track of a vote.                       *)
(***************************************************************************)
EXTENDS RaftTypeProofs

-------------------------------------------------------------------------------
(* The inductive invariant.                                                *)

\* A vote is forgotten, or of an earlier term, or the one votedFor records.
VotesRemembered ==
  \A v, c \in Node, t \in Nat : <<v, c, t>> \in votes =>
    \/ <<v, t>> \in forgotten
    \/ t < term[v]
    \/ t = term[v] /\ votedFor[v] = c

\* Nobody votes for two candidates in a term it remembers voting in.
OneVotePerTerm ==
  \A v, c, d \in Node, t \in Nat :
    <<v, c, t>> \in votes /\ <<v, d, t>> \in votes => c = d \/ <<v, t>> \in forgotten

\* Requests and granted ballots of a node that is still candidate belong to
\* the term it has now.
CandidatesTerm ==
  \A n \in Node : role[n] = "candidate" =>
    /\ <<n, n, term[n]>> \in votes
    /\ \A p \in Peers(n) : /\ ballot[n][p].st = "sent" => ballot[n][p].term = term[n]
                           /\ ballot[n][p].granted => <<p, n, term[n]>> \in votes

\* No goroutine of an election outlives it, and a leader is not in one.
ElectionsEnd ==
  /\ \A n \in Node : role[n] = "leader" => ~electing[n]
  /\ \A n, p \in Node : ballot[n][p].st # "none" => electing[n]

VoteInv == VotesRemembered /\ OneVotePerTerm
ElectInv == CandidatesTerm /\ ElectionsEnd /\ LeaderWasElected
IInv == TypeInv /\ VoteInv /\ ElectInv

-------------------------------------------------------------------------------
(* Majorities of voters.                                                   *)

LEMMA VotersFinite ==
  ASSUME NEW c, NEW t
  PROVE  Voters(c, t) \subseteq Node /\ IsFiniteSet(Voters(c, t)) /\ Cardinality(Voters(c, t)) \in Nat
<1>1. Voters(c, t) \subseteq Node
  BY DEF Voters
<1>2. QED
  BY <1>1, NodeAssumption, FS_Subset, FS_CardinalityType

\* Votes are never taken back, so an elected node stays elected.
LEMMA ElectedForever ==
  ASSUME NEW c, NEW t, Elected(c, t), votes \subseteq votes'
  PROVE  Elected(c, t)'
<1>1. Voters(c, t) \subseteq Voters(c, t)'
  BY DEF Voters
<1>2. IsFiniteSet(Voters(c, t)') /\ Cardinality(Voters(c, t)') \in Nat
  <2>1. Voters(c, t)' \subseteq Node
    BY DEF Voters
  <2>2. QED
    BY <2>1, NodeAssumption, FS_Subset, FS_CardinalityType
<1>3. Cardinality(Voters(c, t)) <= Cardinality(Voters(c, t)')
  BY <1>1, <1>2, FS_Subset
<1>4. Cardinality(Node) \in Nat
  BY NodeAssumption, FS_CardinalityType
<1>5. QED
  BY <1>2, <1>3, <1>4, VotersFinite DEF Elected, Majority

\* The votes counted by CountVotes are a majority of the cluster.
LEMMA CountedMajority ==
  ASSUME TypeInv, CandidatesTerm, NEW n \in Node, Wins(n)
  PROVE  Elected(n, term[n])
<1>1. GrantedBallots(n) \subseteq Node /\ n \notin GrantedBallots(n) /\ IsFiniteSet(GrantedBallots(n))
  <2>1. GrantedBallots(n) \subseteq Node /\ n \notin GrantedBallots(n)
    BY DEF GrantedBallots, Peers
  <2>2. QED
    BY <2>1, NodeAssumption, FS_Subset
<1>2. Cardinality(GrantedBallots(n) \cup {n}) = Cardinality(GrantedBallots(n)) + 1
  BY <1>1, FS_AddElement
<1>3. GrantedBallots(n) \cup {n} \subseteq Voters(n, term[n])
  BY DEF Wins, CandidatesTerm, GrantedBallots, Voters, Peers
<1>4. Cardinality(GrantedBallots(n) \cup {n}) <= Cardinality(Voters(n, term[n]))
  BY <1>3, VotersFinite, FS_Subset
<1>5. Cardinality(Node) \in Nat /\ Cardinality(GrantedBallots(n)) \in Nat
  BY <1>1, NodeAssumption, FS_CardinalityType
<1>6. QED
  BY <1>2, <1>4, <1>5, VotersFinite DEF Wins, Elected, Majority

\* Two nodes elected in one term share a voter, which voted twice.
LEMMA SharedVoter ==
  ASSUME OneVotePerTerm, NEW c \in Node, NEW d \in Node, NEW t \in Nat, c # d, Elected(c, t), Elected(d, t)
  PROVE  \E v \in Node : <<v, t>> \in forgotten
<1>1. Cardinality(Node) \in Nat
  BY NodeAssumption, FS_CardinalityType
<1>2. Cardinality(Voters(c, t)) + Cardinality(Voters(d, t)) > Cardinality(Node)
  BY <1>1, VotersFinite DEF Elected, Majority
<1>3. Voters(c, t) \cap Voters(d, t) # {}
  BY <1>2, VotersFinite, NodeAssumption, FS_MajoritiesIntersect
<1>4. PICK v \in Node : <<v, c, t>> \in votes /\ <<v, d, t>> \in votes
  BY <1>3 DEF Voters
<1>5. QED
  BY <1>4 DEF OneVotePerTerm

-------------------------------------------------------------------------------
(* Steps that leave the elections alone, and steps that only step down.    *)

LEMMA ElectFrame ==
  ASSUME VoteInv, ElectInv, UNCHANGED voteVars, UNCHANGED electVars
  PROVE  VoteInv' /\ ElectInv'
BY DEF VoteInv, VotesRemembered, OneVotePerTerm, ElectInv, CandidatesTerm, ElectionsEnd, LeaderWasElected,
       Elected, Voters, voteVars, electVars

\* n moves to a later term as a follower that has not voted in it.
StepsDown(n, t) ==
  /\ t \in Nat /\ t > term[n]
  /\ term' = [term EXCEPT ![n] = t]
  /\ role' = [role EXCEPT ![n] = "follower"]
  /\ votedFor' = [votedFor EXCEPT ![n] = None]
  /\ UNCHANGED <<votes, forgotten>>

LEMMA StepsDownInv ==
  ASSUME TypeInv, VoteInv, ElectInv, NEW n \in Node, NEW t, StepsDown(n, t), UNCHANGED electVars
  PROVE  VoteInv' /\ ElectInv'
<1>0. VoteTypeOK /\ ElectTypeOK
  BY DEF TypeInv, TypeOK
<1>1. VotesRemembered'
  BY <1>0 DEF VoteInv, VotesRemembered, StepsDown, VoteTypeOK
<1>2. OneVotePerTerm'
  BY DEF VoteInv, OneVotePerTerm, StepsDown
<1>3. CandidatesTerm'
  BY <1>0 DEF ElectInv, CandidatesTerm, StepsDown, VoteTypeOK, electVars
<1>4. ElectionsEnd'
  BY <1>0 DEF ElectInv, ElectionsEnd, StepsDown, VoteTypeOK, electVars
<1>5. LeaderWasElected'
  BY <1>0 DEF ElectInv, LeaderWasElected, StepsDown, VoteTypeOK, Elected, Voters
<1>6. QED
  BY <1>1, <1>2, <1>3, <1>4, <1>5 DEF VoteInv, ElectInv

\* The AppendEntries handler does one or the other.
LEMMA AcceptVotes ==
  ASSUME VoteTypeOK, NEW n \in Node, NEW m, m.term \in Nat, AcceptEntries(n, m),
         UNCHANGED <<votes, forgotten>>
  PROVE  UNCHANGED voteVars \/ StepsDown(n, m.term)
<1>1. CASE m.term > term[n]
  BY <1>1 DEF AcceptEntries, Newer, StepsDown
<1>2. CASE ~(m.term > term[n])
  <2>1. m.term = term[n]
    BY <1>2 DEF AcceptEntries, Newer, VoteTypeOK
  <2>2. UNCHANGED <<term, role, votedFor>>
    BY <1>2, <2>1 DEF AcceptEntries, Newer, VoteTypeOK
  <2>3. QED
    BY <2>2 DEF voteVars
<1>3. QED
  BY <1>1, <1>2

\* A node that restarts counting at an earlier term, or that installs its own
\* term again, forgets exactly the votes that would contradict its next one.
LEMMA ForgetVotes ==
  ASSUME VoteTypeOK, VotesRemembered, NEW n \in Node, NEW first \in Nat,
         term' = [term EXCEPT ![n] = first], votedFor' = [votedFor EXCEPT ![n] = None],
         forgotten' = Forget(n, first), votes' = votes
  PROVE  VotesRemembered'
<1>1. forgotten \subseteq forgotten'
  BY DEF Forget
<1>2. SUFFICES ASSUME NEW v \in Node, NEW c \in Node, NEW t \in Nat, <<v, c, t>> \in votes
               PROVE  <<v, t>> \in forgotten' \/ t < term'[v] \/ (t = term'[v] /\ votedFor'[v] = c)
  BY DEF VotesRemembered
<1>3. CASE v # n
  BY <1>1, <1>2, <1>3 DEF VotesRemembered, VoteTypeOK
<1>4. CASE v = n /\ t < first
  BY <1>4 DEF VoteTypeOK
<1>5. CASE v = n /\ t > term[n]
  BY <1>1, <1>2, <1>5 DEF VotesRemembered, VoteTypeOK
<1>6. CASE v = n /\ t >= first /\ t <= term[n]
  <2>1. t \in {u \in first..term[n] : \E d \in Node : <<n, d, u>> \in votes}
    <3>1. t \in first..term[n]
      BY <1>6 DEF VoteTypeOK
    <3>2. \E d \in Node : <<n, d, t>> \in votes
      BY <1>2, <1>6
    <3>3. QED
      BY <3>1, <3>2
  <2>2. QED
    BY <1>6, <2>1 DEF Forget
<1>7. QED
  BY <1>3, <1>4, <1>5, <1>6 DEF VoteTypeOK

\* The RequestVote handler adds a vote that contradicts none it remembers, and
\* makes nobody candidate or leader.
LEMMA HandleVoteInv ==
  ASSUME VoteTypeOK, VoteInv, NEW m \in VoteRequests, HandleVote(m)
  PROVE  /\ VoteInv' /\ votes \subseteq votes'
         /\ Grants(m) => <<m.to, m.from, m.term>> \in votes'
         /\ \A k \in Node : role'[k] \in {"candidate", "leader"} => role'[k] = role[k] /\ term'[k] = term[k]
<1> DEFINE p == m.to
           n == m.from
           t == m.term
<1>0. p \in Node /\ n \in Node /\ t \in Nat
  BY DEF VoteRequests
<1>1. /\ votes' = IF Grants(m) THEN votes \cup {<<p, n, t>>} ELSE votes
      /\ forgotten' = forgotten
      /\ term' = [term EXCEPT ![p] = IF Newer(p, t) THEN t ELSE @]
      /\ role' = [role EXCEPT ![p] = IF Newer(p, t) THEN "follower" ELSE @]
      /\ votedFor' = [votedFor EXCEPT ![p] = IF Grants(m) THEN n ELSE VoteInTerm(p, t)]
  BY Zenon DEF HandleVote
<1>2. Grants(m) => t >= term[p] /\ VoteInTerm(p, t) \in {None, n}
  BY DEF Grants
<1> HIDE DEF p, n, t
<1>3. VotesRemembered'
  BY <1>0, <1>1, <1>2, NodeAssumption DEF Newer, VoteInv, VotesRemembered, VoteTypeOK, VoteInTerm
<1>4. OneVotePerTerm'
  <2>1. ASSUME Grants(m), NEW d \in Node, <<p, d, t>> \in votes
        PROVE  d = n \/ <<p, t>> \in forgotten
    BY <1>0, <1>2, <2>1, NodeAssumption DEF Newer, VoteInTerm, VoteInv, VotesRemembered, VoteTypeOK
  <2>2. QED
    BY <1>1, <2>1 DEF VoteInv, OneVotePerTerm
<1>5. votes \subseteq votes' /\ (Grants(m) => <<p, n, t>> \in votes')
  BY <1>1
<1>6. \A k \in Node : role'[k] \in {"candidate", "leader"} => role'[k] = role[k] /\ term'[k] = term[k]
  BY <1>0, <1>1 DEF Newer, VoteTypeOK
<1>7. QED
  BY <1>3, <1>4, <1>5, <1>6 DEF VoteInv, p, n, t

-------------------------------------------------------------------------------
(* The steps of an election.                                               *)

LEMMA ElectionInv ==
  ASSUME TypeInv, VoteInv, ElectInv, NEW n \in Node, Election(n)
  PROVE  VoteInv' /\ ElectInv'
<1>0. VoteTypeOK /\ ElectTypeOK
  BY DEF TypeInv, TypeOK
<1>1. CASE StartElection(n)
  <2>1. votes \subseteq votes'
    BY <1>1 DEF StartElection
  <2>2. VotesRemembered'
    BY <1>0, <1>1 DEF StartElection, VoteInv, VotesRemembered, VoteTypeOK
  <2>3. OneVotePerTerm'
    <3>1. votes' = votes \cup {<<n, n, term[n] + 1>>} /\ forgotten' = forgotten /\ term[n] \in Nat
      BY <1>0, <1>1 DEF StartElection, VoteTypeOK
    <3>2. \A c \in Node : <<n, c, term[n] + 1>> \in votes => <<n, term[n] + 1>> \in forgotten
      BY <3>1 DEF VoteInv, VotesRemembered
    <3>3. QED
      BY <3>1, <3>2 DEF VoteInv, OneVotePerTerm
  <2>4. CandidatesTerm'
    BY <1>0, <1>1, <2>1 DEF StartElection, ElectInv, CandidatesTerm, VoteTypeOK, ElectTypeOK, NoBallot, Peers
  <2>5. ElectionsEnd'
    BY <1>0, <1>1 DEF StartElection, ElectInv, ElectionsEnd, VoteTypeOK, ElectTypeOK
  <2>6. LeaderWasElected'
    BY <1>0, <1>1, <2>1, ElectedForever DEF StartElection, ElectInv, LeaderWasElected, VoteTypeOK
  <2>7. QED
    BY <2>2, <2>3, <2>4, <2>5, <2>6 DEF VoteInv, ElectInv
<1>2. CASE CountVotes(n)
  <2>1. VoteInv'
    BY <1>2 DEF CountVotes, VoteInv, VotesRemembered, OneVotePerTerm
  <2>2. CandidatesTerm'
    BY <1>0, <1>2 DEF CountVotes, ElectInv, CandidatesTerm, VoteTypeOK, ElectTypeOK, NoBallot, Peers
  <2>3. ElectionsEnd'
    BY <1>0, <1>2 DEF CountVotes, ElectInv, ElectionsEnd, VoteTypeOK, ElectTypeOK, NoBallot
  <2>4. LeaderWasElected'
    <3>1. Wins(n) => Elected(n, term[n])
      BY CountedMajority DEF ElectInv
    <3>2. QED
      BY <1>0, <1>2, <3>1 DEF CountVotes, ElectInv, LeaderWasElected, VoteTypeOK, Elected, Voters
  <2>5. QED
    BY <2>1, <2>2, <2>3, <2>4 DEF ElectInv
<1>3. ASSUME NEW p \in Peers(n), RequestVote(n, p)
      PROVE  VoteInv' /\ ElectInv'
  <2> DEFINE m == VoteCall(n, p)
  <2>0. p \in Node /\ p # n /\ m \in VoteRequests /\ HandleVote(m)
    BY <1>0, <1>3, VoteCallType DEF Peers, RequestVote
  <2>1. m.from = n /\ m.to = p /\ m.term = ballot[n][p].term
    BY DEF VoteCall
  <2>2. /\ VoteInv' /\ votes \subseteq votes'
        /\ Grants(m) => <<p, n, m.term>> \in votes'
        /\ \A k \in Node : role'[k] \in {"candidate", "leader"} => role'[k] = role[k] /\ term'[k] = term[k]
    BY <1>0, <2>0, <2>1, HandleVoteInv
  <2>3. /\ ballot[n][p].st = "sent" /\ electing' = electing
        /\ ballot' = [ballot EXCEPT ![n][p] = [st |-> "reply", term |-> term'[p], granted |-> Grants(m)]]
    BY <1>3, Zenon DEF RequestVote, HandleVote
  <2> HIDE DEF m
  <2>4. CandidatesTerm'
    <3>1. ASSUME NEW k \in Node, role'[k] = "candidate", NEW q \in Peers(k)
          PROVE  /\ ballot'[k][q].st = "sent" => ballot'[k][q].term = term[k]
                 /\ ballot'[k][q].granted => <<q, k, term[k]>> \in votes'
      <4>1. role[k] = "candidate"
        BY <2>2, <3>1
      <4>2. CASE k = n /\ q = p
        <5>1. ballot'[n][p] = [st |-> "reply", term |-> term'[p], granted |-> Grants(m)]
          BY <1>0, <2>0, <2>3 DEF ElectTypeOK
        <5>2. m.term = term[n]
          BY <2>1, <2>3, <4>1, <4>2 DEF ElectInv, CandidatesTerm
        <5>3. QED
          BY <2>2, <4>2, <5>1, <5>2
      <4>3. CASE ~(k = n /\ q = p)
        <5>1. ballot'[k][q] = ballot[k][q]
          BY <1>0, <2>0, <2>3, <3>1, <4>3 DEF ElectTypeOK, Peers
        <5>2. QED
          BY <2>2, <3>1, <4>1, <5>1 DEF ElectInv, CandidatesTerm
      <4>4. QED
        BY <4>2, <4>3
    <3>2. QED
      BY <2>2, <3>1 DEF ElectInv, CandidatesTerm
  <2>5. ElectionsEnd'
    BY <1>0, <2>0, <2>2, <2>3 DEF ElectInv, ElectionsEnd, ElectTypeOK
  <2>6. LeaderWasElected'
    BY <2>2, ElectedForever DEF ElectInv, LeaderWasElected
  <2>7. QED
    BY <2>2, <2>4, <2>5, <2>6 DEF ElectInv
<1>4. ASSUME NEW p \in Peers(n), LearnTerm(n, p)
      PROVE  VoteInv' /\ ElectInv'
  <2>0. p \in Node /\ ballot[n][p].term \in Nat
    BY <1>0 DEF Peers, ElectTypeOK, Ballots
  <2>1. VotesRemembered'
    BY <1>0, <1>4, <2>0, ForgetVotes DEF LearnTerm, VoteInv
  <2>2. OneVotePerTerm'
    BY <1>4 DEF LearnTerm, Forget, VoteInv, OneVotePerTerm
  <2>3. CandidatesTerm'
    BY <1>0, <1>4, <2>0 DEF LearnTerm, ElectInv, CandidatesTerm, VoteTypeOK, ElectTypeOK, Peers
  <2>4. ElectionsEnd'
    BY <1>0, <1>4, <2>0 DEF LearnTerm, ElectInv, ElectionsEnd, VoteTypeOK, ElectTypeOK
  <2>5. LeaderWasElected'
    BY <1>0, <1>4 DEF LearnTerm, ElectInv, LeaderWasElected, VoteTypeOK, Elected, Voters
  <2>6. QED
    BY <2>1, <2>2, <2>3, <2>4, <2>5 DEF VoteInv, ElectInv
<1>5. ASSUME NEW p \in Peers(n), SendVoteRequest(n, p) \/ VoteCallFails(n, p) \/ ReceiveVote(n, p)
      PROVE  VoteInv' /\ ElectInv'
  <2>0. p \in Node /\ UNCHANGED voteVars /\ electing' = electing
    BY <1>5 DEF Peers, SendVoteRequest, VoteCallFails, ReceiveVote
  <2>1. VoteInv'
    BY <2>0 DEF VoteInv, VotesRemembered, OneVotePerTerm, voteVars
  <2>2. PICK b \in Ballots : /\ ballot' = [ballot EXCEPT ![n][p] = b]
                             /\ b.st = "sent" => b.term = term[n]
                             /\ b.granted => ballot[n][p].granted
    <3>1. ballot[n][p] \in Ballots /\ term[n] \in Nat
      BY <1>0, <2>0 DEF ElectTypeOK, VoteTypeOK
    <3>2. CASE SendVoteRequest(n, p)
      <4>1. [ballot[n][p] EXCEPT !.st = "sent", !.term = term[n]] \in Ballots
        BY <3>1, BallotUpdates
      <4>2. ballot' = [ballot EXCEPT ![n][p] = [ballot[n][p] EXCEPT !.st = "sent", !.term = term[n]]]
        BY <1>0, <2>0, <3>2 DEF SendVoteRequest, ElectTypeOK
      <4>3. QED
        BY <3>1, <4>1, <4>2 DEF Ballots
    <3>3. CASE VoteCallFails(n, p)
      <4>1. NoBallot \in Ballots /\ ~NoBallot.granted
        BY DEF NoBallot, Ballots
      <4>2. [NoBallot EXCEPT !.st = "done"] \in Ballots
        BY <4>1, BallotUpdates
      <4>3. QED
        BY <3>3, <4>1, <4>2 DEF VoteCallFails, Ballots
    <3>4. CASE ReceiveVote(n, p)
      <4>1. PICK z \in {"done", "learn"} : ballot' = [ballot EXCEPT ![n][p] = [ballot[n][p] EXCEPT !.st = z]]
        BY <1>0, <2>0, <3>4 DEF ReceiveVote, ElectTypeOK
      <4>2. [ballot[n][p] EXCEPT !.st = z] \in Ballots
        BY <3>1, BallotUpdates
      <4>3. QED
        BY <3>1, <4>1, <4>2 DEF Ballots
    <3>5. QED
      BY <1>5, <3>2, <3>3, <3>4
  <2>3. CandidatesTerm'
    BY <1>0, <2>0, <2>2 DEF ElectInv, CandidatesTerm, voteVars, ElectTypeOK, Peers
  <2>4. ElectionsEnd'
    <3>1. ballot[n][p].st # "none"
      BY <1>5 DEF SendVoteRequest, VoteCallFails, ReceiveVote
    <3>2. QED
      BY <1>0, <2>0, <2>2, <3>1 DEF ElectInv, ElectionsEnd, voteVars, ElectTypeOK
  <2>5. LeaderWasElected'
    BY <2>0 DEF ElectInv, LeaderWasElected, voteVars, Elected, Voters
  <2>6. QED
    BY <2>1, <2>3, <2>4, <2>5 DEF ElectInv
<1>6. ASSUME NEW m \in late, RequestVoteLate(m)
      PROVE  VoteInv' /\ ElectInv'
  <2>1. m \in VoteRequests /\ HandleVote(m) /\ UNCHANGED <<electing, ballot>>
    BY <1>0, <1>6 DEF ElectTypeOK, RequestVoteLate, HandleVote
  <2>2. /\ VoteInv' /\ votes \subseteq votes'
        /\ \A k \in Node : role'[k] \in {"candidate", "leader"} => role'[k] = role[k] /\ term'[k] = term[k]
    BY <1>0, <2>1, HandleVoteInv
  <2>3. CandidatesTerm' /\ ElectionsEnd'
    BY <2>1, <2>2 DEF ElectInv, CandidatesTerm, ElectionsEnd
  <2>4. LeaderWasElected'
    BY <2>2, ElectedForever DEF ElectInv, LeaderWasElected
  <2>5. QED
    BY <2>2, <2>3, <2>4 DEF ElectInv
<1>7. QED
  BY <1>1, <1>2, <1>3, <1>4, <1>5, <1>6 DEF Election

-------------------------------------------------------------------------------
(* Heartbeats, submissions and restarts.                                   *)

LEMMA HeartbeatInv ==
  ASSUME TypeInv, VoteInv, ElectInv, Heartbeat
  PROVE  VoteInv' /\ ElectInv'
<1>0. VoteTypeOK /\ LogTypeOK /\ beats \subseteq Requests
  BY DEF TypeInv, TypeOK, BeatTypeOK
<1>1. ASSUME NEW n \in Node, HeartbeatTick(n) \/ HeartbeatLoopEnds(n) \/ HeartbeatLoopStopped(n)
      PROVE  VoteInv' /\ ElectInv'
  BY <1>1, ElectFrame DEF HeartbeatTick, StillLeader, HeartbeatLoopEnds, HeartbeatLoopStopped
<1>2. ASSUME NEW m \in beats, LoseHeartbeat(m)
      PROVE  VoteInv' /\ ElectInv'
  BY <1>2, ElectFrame DEF LoseHeartbeat
<1>3. ASSUME NEW m \in beats, DeliverHeartbeat(m)
      PROVE  VoteInv' /\ ElectInv'
  <2>0. m.to \in Node /\ m.term \in Nat /\ m \in Requests
    BY <1>0 DEF Requests
  <2>1. UNCHANGED electVars /\ UNCHANGED <<votes, forgotten>>
    BY <1>3 DEF DeliverHeartbeat
  <2>2. ASSUME NEW e, AcceptEntries(m.to, [m EXCEPT !.entries = e])
        PROVE  VoteInv' /\ ElectInv'
    <3>1. DEFINE b == [m EXCEPT !.entries = e]
    <3>2. b.term = m.term
      BY <2>0 DEF Requests
    <3>3. AcceptEntries(m.to, b)
      BY <2>2
    <3> HIDE DEF b
    <3>4. UNCHANGED voteVars \/ StepsDown(m.to, b.term)
      BY <1>0, <2>0, <2>1, <3>2, <3>3, AcceptVotes
    <3>5. QED
      BY <2>0, <2>1, <3>4, ElectFrame, StepsDownInv
  <2>3. CASE UNCHANGED <<term, role, votedFor>>
    BY <2>1, <2>3, ElectFrame DEF voteVars
  <2>4. QED
    BY <1>3, <2>2, <2>3 DEF DeliverHeartbeat
<1>4. QED
  BY <1>1, <1>2, <1>3 DEF Heartbeat

LEMMA RebootInv ==
  ASSUME TypeInv, VoteInv, ElectInv, NEW n \in Node, Reboot(n)
  PROVE  VoteInv' /\ ElectInv'
<1>0. VoteTypeOK /\ ElectTypeOK
  BY DEF TypeInv, TypeOK
<1>1. VotesRemembered'
  BY <1>0, ForgetVotes DEF Reboot, VoteInv
<1>2. OneVotePerTerm'
  BY DEF Reboot, Forget, VoteInv, OneVotePerTerm
<1>3. CandidatesTerm'
  BY <1>0 DEF Reboot, ElectInv, CandidatesTerm, VoteTypeOK, ElectTypeOK, Peers
<1>4. ElectionsEnd'
  BY <1>0 DEF Reboot, ElectInv, ElectionsEnd, VoteTypeOK, ElectTypeOK, NoBallot
<1>5. LeaderWasElected'
  BY <1>0 DEF Reboot, ElectInv, LeaderWasElected, VoteTypeOK, Elected, Voters
<1>6. QED
  BY <1>1, <1>2, <1>3, <1>4, <1>5 DEF VoteInv, ElectInv

LEMMA SubmissionInv ==
  ASSUME TypeInv, VoteInv, ElectInv, NEW r \in Reading, Submission(r)
  PROVE  VoteInv' /\ ElectInv'
<1>0. VoteTypeOK /\ SubTypeOK /\ CallsBelong
  BY DEF TypeInv, TypeOK
<1>1. ASSUME NEW p \in Node, SubmitReading(r, p) \/ SendEntries(r, p) \/ AppendCallFails(r, p)
      PROVE  VoteInv' /\ ElectInv'
  BY <1>1, ElectFrame DEF SubmitReading, SendEntries, AppendCallFails
<1>2. CASE FinishReplication(r) \/ ApplyDone(r) \/ ApplyPick(r) \/ ApplyPush(r) \/ ApplyMark(r)
  BY <1>2, ElectFrame DEF FinishReplication, ApplyDone, ApplyPick, ApplyPush, ApplyMark
<1>3. CASE ApplyPanics(r)
  BY <1>0, <1>3, RebootInv DEF ApplyPanics, CallsBelong
<1>4. ASSUME NEW p \in Node, DeliverEntries(r, p)
      PROVE  VoteInv' /\ ElectInv'
  <2>1. UNCHANGED electVars /\ UNCHANGED <<votes, forgotten>> /\ rpc[r][p].term \in Nat
    BY <1>0, <1>4 DEF DeliverEntries, SubTypeOK, Rpcs
  <2>2. DEFINE m == AppendCall(r, p)
  <2>3. ASSUME NEW e, AcceptEntries(p, [m EXCEPT !.entries = e])
        PROVE  VoteInv' /\ ElectInv'
    <3>1. DEFINE b == [m EXCEPT !.entries = e]
    <3>2. b.term \in Nat
      BY <2>1 DEF AppendCall
    <3>3. AcceptEntries(p, b)
      BY <2>3
    <3> HIDE DEF b, m
    <3>4. UNCHANGED voteVars \/ StepsDown(p, b.term)
      BY <1>0, <2>1, <3>2, <3>3, AcceptVotes
    <3>5. QED
      BY <2>1, <3>4, ElectFrame, StepsDownInv
  <2>4. CASE UNCHANGED <<term, role, votedFor>>
    BY <2>1, <2>4, ElectFrame DEF voteVars
  <2>5. QED
    BY <1>4, <2>3, <2>4 DEF DeliverEntries
<1>5. QED
  BY <1>1, <1>2, <1>3, <1>4 DEF Submission

-------------------------------------------------------------------------------
(* The theorems.                                                           *)

LEMMA InitInv == Init => IInv
<1> SUFFICES ASSUME Init PROVE IInv
  OBVIOUS
<1>1. VoteInv /\ ElectInv
  BY DEF Init, NewCluster, VoteInv, VotesRemembered, OneVotePerTerm, ElectInv, CandidatesTerm, ElectionsEnd,
         LeaderWasElected, NoBallot
<1>2. QED
  BY <1>1, TypeInit DEF IInv

LEMMA StepInv == IInv /\ [Next]_vars => IInv'
<1> SUFFICES ASSUME IInv, [Next]_vars PROVE IInv'
  OBVIOUS
<1>0. TypeInv /\ VoteInv /\ ElectInv
  BY DEF IInv
<1>1. ASSUME NEW n \in Node, Crash(n)
      PROVE  VoteInv' /\ ElectInv'
  BY <1>0, <1>1, RebootInv DEF Crash
<1>2. ASSUME UNCHANGED vars
      PROVE  VoteInv' /\ ElectInv'
  <2>1. UNCHANGED voteVars /\ UNCHANGED electVars
    BY <1>2 DEF vars
  <2>2. QED
    BY <1>0, <2>1, ElectFrame
<1>3. ASSUME NEW n \in Node, Election(n)
      PROVE  VoteInv' /\ ElectInv'
  BY <1>0, <1>3, ElectionInv
<1>4. ASSUME Heartbeat
      PROVE  VoteInv' /\ ElectInv'
  BY <1>0, <1>4, HeartbeatInv
<1>5. ASSUME NEW r \in Reading, Submission(r)
      PROVE  VoteInv' /\ ElectInv'
  BY <1>0, <1>5, SubmissionInv
<1>6. QED
  BY <1>0, <1>1, <1>2, <1>3, <1>4, <1>5, TypeStep DEF Next, IInv

LEMMA Inductive == Spec => []IInv
BY InitInv, StepInv, PTL DEF Spec

\* A leader was voted for, in the very term it leads, by a majority.
THEOREM LeadersAreElected == Spec => []LeaderWasElected
<1>1. IInv => LeaderWasElected
  BY DEF IInv, ElectInv
<1>2. QED
  BY <1>1, Inductive, PTL

\* The check of the role that startElection makes before counting is enough:
\* what a candidate counts are votes of its present term (main.go:529).
THEOREM BallotsCurrent == Spec => []BallotsAreForThisTerm
<1>1. IInv => BallotsAreForThisTerm
  BY DEF IInv, ElectInv, CandidatesTerm, BallotsAreForThisTerm
<1>2. QED
  BY <1>1, Inductive, PTL

\* Two nodes elected in one term share a voter that forgot its first vote: no
\* other interleaving, delay or loss splits a term.
THEOREM SplitTerms == Spec => []SplitTermNeedsForgottenVote
<1>1. IInv => SplitTermNeedsForgottenVote
  <2>1. SUFFICES ASSUME IInv, NEW t \in VotedTerms, NEW c \in Node, NEW d \in Node,
                        Elected(c, t), Elected(d, t), c # d
                 PROVE  \E v \in Node : <<v, t>> \in forgotten
    BY DEF SplitTermNeedsForgottenVote
  <2>2. t \in Nat
    BY <2>1 DEF IInv, TypeInv, TypeOK, VoteTypeOK, VotedTerms
  <2>3. QED
    BY <2>1, <2>2, SharedVoter DEF IInv, VoteInv
<1>2. QED
  BY <1>1, Inductive, PTL

\* A leader lowers its role only for a later term, or by restarting: when it
\* leads, no goroutine of its election is left to act on a reply.
THEOREM LeadersStepDown == Spec => StepsDownForHigherTerm
<1> DEFINE Kept == \A n \in Node : role[n] = "leader" /\ role'[n] # "leader"
                                     => term'[n] > term[n] \/ term'[n] = 0
<1>1. IInv /\ [Next]_vars => Kept
  <2> SUFFICES ASSUME IInv, [Next]_vars PROVE Kept
    OBVIOUS
  <2>0. TypeInv /\ VoteTypeOK /\ ElectTypeOK /\ LogTypeOK /\ ElectionsEnd /\ CallsBelong
        /\ beats \subseteq Requests /\ SubTypeOK
    BY DEF IInv, TypeInv, TypeOK, ElectInv, BeatTypeOK
  <2>1. ASSUME NEW n \in Node, Election(n)
        PROVE  Kept
    <3>1. CASE StartElection(n)
      BY <2>0, <3>1 DEF StartElection, VoteTypeOK
    <3>2. CASE CountVotes(n)
      BY <2>0, <3>2 DEF CountVotes, VoteTypeOK
    <3>3. ASSUME NEW m \in VoteRequests, HandleVote(m)
          PROVE  Kept
      BY <2>0, <3>3 DEF HandleVote, Newer, VoteTypeOK, VoteRequests
    <3>4. ASSUME NEW p \in Peers(n), LearnTerm(n, p)
          PROVE  Kept
      <4>1. role[n] # "leader"
        BY <2>0, <3>4 DEF LearnTerm, ElectionsEnd, Peers
      <4>2. QED
        BY <2>0, <3>4, <4>1 DEF LearnTerm, VoteTypeOK
    <3>5. ASSUME NEW p \in Peers(n), SendVoteRequest(n, p) \/ VoteCallFails(n, p) \/ ReceiveVote(n, p)
          PROVE  Kept
      BY <3>5 DEF SendVoteRequest, VoteCallFails, ReceiveVote, voteVars
    <3>6. ASSUME NEW p \in Peers(n), RequestVote(n, p)
          PROVE  Kept
      BY <2>0, <3>3, <3>6, VoteCallType DEF RequestVote, Peers
    <3>7. ASSUME NEW m \in late, RequestVoteLate(m)
          PROVE  Kept
      BY <2>0, <3>3, <3>7 DEF RequestVoteLate, ElectTypeOK
    <3>8. QED
      BY <2>1, <3>1, <3>2, <3>4, <3>5, <3>6, <3>7 DEF Election
  <2>2. ASSUME NEW n \in Node, NEW m, m.term \in Nat, AcceptEntries(n, m), UNCHANGED <<votes, forgotten>>
        PROVE  Kept
    <3>1. CASE UNCHANGED voteVars
      BY <3>1 DEF voteVars
    <3>2. CASE StepsDown(n, m.term)
      BY <2>0, <3>2 DEF StepsDown, VoteTypeOK
    <3>3. QED
      BY <2>0, <2>2, <3>1, <3>2, AcceptVotes
  <2>3. ASSUME Heartbeat
        PROVE  Kept
    <3>1. ASSUME NEW n \in Node, HeartbeatTick(n) \/ HeartbeatLoopEnds(n) \/ HeartbeatLoopStopped(n)
          PROVE  Kept
      BY <3>1 DEF HeartbeatTick, StillLeader, HeartbeatLoopEnds, HeartbeatLoopStopped, voteVars
    <3>2. ASSUME NEW m \in beats, LoseHeartbeat(m)
          PROVE  Kept
      BY <3>2 DEF LoseHeartbeat, voteVars
    <3>3. ASSUME NEW m \in beats, DeliverHeartbeat(m)
          PROVE  Kept
      <4>1. m \in Requests /\ m.to \in Node /\ m.term \in Nat
        BY <2>0 DEF Requests
      <4>2. ASSUME NEW e, AcceptEntries(m.to, [m EXCEPT !.entries = e])
            PROVE  Kept
        <5>1. [m EXCEPT !.entries = e].term \in Nat
          BY <4>1 DEF Requests
        <5>2. QED
          BY <2>2, <3>3, <4>1, <4>2, <5>1 DEF DeliverHeartbeat
      <4>3. CASE UNCHANGED role
        BY <4>3
      <4>4. QED
        BY <3>3, <4>2, <4>3 DEF DeliverHeartbeat
    <3>4. QED
      BY <2>3, <3>1, <3>2, <3>3 DEF Heartbeat
  <2>4. ASSUME NEW n \in Node, Reboot(n)
        PROVE  Kept
    BY <2>0, <2>4 DEF Reboot, VoteTypeOK
  <2>5. ASSUME NEW r \in Reading, Submission(r)
        PROVE  Kept
    <3>1. ASSUME NEW p \in Node, SubmitReading(r, p) \/ SendEntries(r, p) \/ AppendCallFails(r, p)
          PROVE  Kept
      BY <3>1 DEF SubmitReading, SendEntries, AppendCallFails, voteVars
    <3>2. ASSUME FinishReplication(r) \/ ApplyDone(r) \/ ApplyPick(r) \/ ApplyPush(r) \/ ApplyMark(r)
          PROVE  Kept
      BY <3>2 DEF FinishReplication, ApplyDone, ApplyPick, ApplyPush, ApplyMark, voteVars
    <3>3. ASSUME ApplyPanics(r)
          PROVE  Kept
      BY <2>0, <2>4, <3>3 DEF ApplyPanics, CallsBelong
    <3>4. ASSUME NEW p \in Node, DeliverEntries(r, p)
          PROVE  Kept
      <4>1. rpc[r][p].term \in Nat
        BY <2>0 DEF SubTypeOK, Rpcs
      <4>2. CASE UNCHANGED role
        BY <4>2
      <4>3. ASSUME NEW e, AcceptEntries(p, [AppendCall(r, p) EXCEPT !.entries = e])
            PROVE  Kept
        <5>1. [AppendCall(r, p) EXCEPT !.entries = e].term \in Nat
          BY <4>1 DEF AppendCall
        <5>2. QED
          BY <2>2, <3>4, <4>3, <5>1 DEF DeliverEntries
      <4>4. QED
        BY <3>4, <4>2, <4>3 DEF DeliverEntries
    <3>5. QED
      BY <2>5, <3>1, <3>2, <3>3, <3>4 DEF Submission
  <2>6. ASSUME UNCHANGED vars
        PROVE  Kept
    BY <2>6 DEF vars, voteVars
  <2>7. QED
    BY <2>1, <2>3, <2>4, <2>5, <2>6 DEF Next, Crash
<1>2. QED
  BY <1>1, Inductive, PTL DEF Spec, StepsDownForHigherTerm
===============================================================================
