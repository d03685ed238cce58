------------------------------ MODULE MCRaftNode ------------------------------
(***************************************************************************)
(* Small instances of RaftNode for TLC.  An election takes some twenty     *)
(* steps, so the runs about what comes after one start where it has ended, *)
(* in a state the program reaches from Init.                               *)
(***************************************************************************)
EXTENDS RaftProperties, TLC

\* Nodes are alike, and so are the readings that can be encoded.
Symmetry ==
  Permutations(Node) \cup {f \in Permutations(Reading) : \A r \in Unencodable : f[r] = r}

\* No election is under way and no AppendEntries in flight; nobody has crashed, been
\* told to stop its heartbeats, or locked itself out.
Quiet ==
  /\ stopHeartbeat = [n \in Node |-> FALSE]
  /\ wedged = [n \in Node |-> FALSE]
  /\ electing = [n \in Node |-> FALSE]
  /\ lastLog = [n \in Node |-> [index |-> 0, term |-> 0]]
  /\ ballot = [n \in Node |-> [p \in Node |-> NoBallot]]
  /\ beats = {} /\ forgotten = {}

\* Every node voted for l in term t and knows it is leader.
LedBy(l, t) ==
  /\ Quiet /\ late = {}
  /\ term = [n \in Node |-> t]
  /\ role = [n \in Node |-> IF n = l THEN "leader" ELSE "follower"]
  /\ votedFor = [n \in Node |-> l]
  /\ votes = {<<v, l, t>> : v \in Node}
  /\ heartbeats = [n \in Node |-> IF n = l THEN 1 ELSE 0]

NothingSubmitted ==
  /\ log = [n \in Node |-> <<>>]
  /\ commitIdx = [n \in Node |-> 0]
  /\ lastApplied = [n \in Node |-> 0]
  /\ sub = [r \in Reading |-> NewCall]
  /\ rpc = [r \in Reading |-> [p \in Node |-> NoRpc]]
  /\ redis = [n \in Node |-> <<>>]

\* l was elected in term t, and has sent no heartbeat.
AfterElection(l, t) ==
  /\ LedBy(l, t) /\ NothingSubmitted
  /\ leaderId = [n \in Node |-> IF n = l THEN l ELSE None]

\* l was elected in term 1, and one reading is in every log, committed and applied by
\* l; the followers will hear of the commit with the first heartbeat.
FirstReading == CHOOSE r \in Reading : TRUE
AfterFirstReading(l) ==
  /\ leaderId = [n \in Node |-> l]
  /\ commitIdx = [n \in Node |-> IF n = l THEN 1 ELSE 0]
  /\ lastApplied = [n \in Node |-> IF n = l THEN 1 ELSE 0]
  /\ rpc = [r \in Reading |-> [p \in Node |-> NoRpc]]
  /\ redis = [n \in Node |-> IF n = l THEN <<FirstReading>> ELSE <<>>]
FirstEntry == <<[term |-> 1, cmd |-> FirstReading]>>
FirstCall(l) == [NewCall EXCEPT !.st = "ok", !.node = l, !.term = 1, !.idx = 1]

\* l still leads, and the other readings are to come.
NextReading(l) ==
  /\ LedBy(l, 1) /\ AfterFirstReading(l)
  /\ log = [n \in Node |-> FirstEntry]
  /\ sub = [r \in Reading |-> IF r = FirstReading THEN FirstCall(l) ELSE NewCall]

\* The same, but another node has since called an election and none of its requests
\* was answered.
ElectionFailed(l) ==
  \E c \in Peers(l) :
    /\ Quiet /\ late = {} /\ AfterFirstReading(l)
    /\ term = [n \in Node |-> IF n = c THEN 2 ELSE 1]
    /\ role = [n \in Node |-> IF n = l THEN "leader" ELSE IF n = c THEN "candidate" ELSE "follower"]
    /\ votedFor = [n \in Node |-> IF n = c THEN c ELSE l]
    /\ votes = {<<v, l, 1>> : v \in Node} \cup {<<c, c, 2>>}
    /\ heartbeats = [n \in Node |-> IF n = l THEN 1 ELSE 0]
    /\ log = [n \in Node |-> FirstEntry]
    /\ sub = [r \in Reading |-> IF r = FirstReading THEN FirstCall(l) ELSE NewCall]

\* A second reading was submitted to l, and all its calls failed.
SecondFailed(l) ==
  \E r \in Reading \ {FirstReading} :
    /\ LedBy(l, 1) /\ AfterFirstReading(l)
    /\ log = [n \in Node |-> IF n = l THEN Append(FirstEntry, [term |-> 1, cmd |-> r])
                                     ELSE FirstEntry]
    /\ sub = [q \in Reading |->
                CASE q = FirstReading -> FirstCall(l)
                  [] q = r -> [NewCall EXCEPT !.st = "failed", !.node = l, !.term = 1, !.idx = 2]
                  [] OTHER -> NewCall]

\* l, elected in term 1, has begun to replicate a reading.  A second node has
\* since been elected in term 2 by the third; its call to l failed, the request
\* may still arrive.
TwoLeaders ==
  \E l, n \in Node, r \in Reading \ Unencodable :
    /\ l # n /\ Quiet
    /\ term = [v \in Node |-> IF v = l THEN 1 ELSE 2]
    /\ role = [v \in Node |-> IF v \in {l, n} THEN "leader" ELSE "follower"]
    /\ votedFor = [v \in Node |-> IF v = l THEN l ELSE n]
    /\ leaderId = [v \in Node |-> IF v \in {l, n} THEN v ELSE None]
    /\ late = {[from |-> n, to |-> l, term |-> 2, last |-> [index |-> 0, term |-> 0]]}
    /\ votes = {<<v, l, 1>> : v \in Node} \cup {<<v, n, 2>> : v \in Peers(l)}
    /\ heartbeats = [v \in Node |-> IF v \in {l, n} THEN 1 ELSE 0]
    /\ log = [v \in Node |-> IF v = l THEN <<[term |-> 1, cmd |-> r]>> ELSE <<>>]
    /\ commitIdx = [v \in Node |-> 0]
    /\ lastApplied = [v \in Node |-> 0]
    /\ sub = [q \in Reading |-> IF q = r THEN [NewCall EXCEPT !.st = "replicate", !.node = l,
                                                              !.term = 1, !.idx = 1]
                                         ELSE NewCall]
    /\ rpc = [q \in Reading |-> [p \in Node |-> IF q = r /\ p # l
                                                  THEN [NoRpc EXCEPT !.st = "dial"] ELSE NoRpc]]
    /\ redis = [v \in Node |-> <<>>]

-------------------------------------------------------------------------------
(* The run raft_cluster: three starts, of which the counters tell TLC which *)
(* a behaviour has.                                                         *)

FromScratch == ticks > MaxTicks
FromTwoLeaders == crashes > MaxCrashes

ClusterSpec ==
  /\ \/ NewCluster /\ ticks = MaxTicks + 1 /\ crashes = MaxCrashes
     \/ (\E l \in Node : AfterElection(l, 1)) /\ ticks = 0 /\ crashes = 0
     \/ TwoLeaders /\ ticks = 0 /\ crashes = MaxCrashes + 1
  /\ [][Next]_vars

Submitted == Cardinality({r \in Reading : sub[r] # NewCall})
LateAppends == Cardinality({m \in beats : m.call # None})
SecondElection == IF \E v \in votes : v[3] > 1 THEN 1 ELSE 0

\* A new cluster elects, twice.  After the first election two things may happen:
\* another election, a heartbeat round, a restart, a request that outlives its
\* call, or, without another election, a reading.  With two leaders, who have one reading
\* and one such request behind them, there is a reading more, a heartbeat round or a
\* late AppendEntries.
Scope ==
  \/ FromScratch /\ Submitted + Cardinality(late) = 0
  \/ FromTwoLeaders /\ Submitted + ticks + LateAppends <= 2
  \/ /\ Submitted + SecondElection + ticks + crashes + Cardinality(late) + LateAppends <= 2
     /\ SecondElection = 0 \/ Submitted = 0

-------------------------------------------------------------------------------
\* The other runs.  NoRoundYet: no heartbeat round was sent and no node restarted.
NoRoundYet == ticks = 0 /\ crashes = 0
First == CHOOSE n \in Node : TRUE

\* The leader of term 1 is about to send its first heartbeats.
ElectedSpec == AfterElection(First, 1) /\ NoRoundYet /\ [][Next]_vars
FairCommittedSpec == NextReading(First) /\ NoRoundYet /\ [][Next]_vars /\ Fairness

\* The run raft_returns: a leader of the last term, to whom both readings can be
\* submitted at once; one that submits a reading while another node calls an
\* election; and one that tells of its commit while both the others do.
ReturnsSpec ==
  /\ \/ AfterElection(First, MaxTerm) /\ ticks = MaxTicks
     \/ ElectionFailed(First) /\ ticks = 0
     \/ SecondFailed(First) /\ ticks = 0
  /\ crashes = 0 /\ [][Next]_vars /\ Fairness
===============================================================================
