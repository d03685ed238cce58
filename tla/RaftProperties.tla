---------------------------- MODULE RaftProperties ----------------------------
(***************************************************************************)
(* What a cluster of RaftNode processes promises, and what its comments    *)
(* and documentation say it does.                                          *)
(***************************************************************************)
EXTENDS RaftNode

Voters(c, t) == {v \in Node : <<v, c, t>> \in votes}
Elected(c, t) == Majority(Cardinality(Voters(c, t)))
VotedTerms == {w[3] : w \in votes}

Roles == {"follower", "candidate", "leader"}
Ballots == [st : {"none", "dial", "sent", "reply", "learn", "done"}, term : Nat, granted : BOOLEAN]
VoteRequests == [from : Node, to : Node, term : Nat, last : [index : Nat, term : Nat]]
Calls == [st : {"new", "replicate", "failed", "apply", "push", "mark", "ok", "lost", "halted"},
          node : Node \cup {None}, term : Nat, idx : Nat, commit : Nat, at : Nat,
          cmd : Reading \cup {None}]
Slots == Seq(SUBSET Entry)
Rpcs == [st : {"none", "dial", "sent", "hung", "acked", "failed"}, term : Nat, entries : Slots]
Requests == [tick : Nat, call : Reading \cup {None}, live : BOOLEAN, from : Node, to : Node,
             term : Nat, entries : Slots, commit : Nat]

VoteTypeOK ==
  /\ term \in [Node -> Nat]
  /\ role \in [Node -> Roles]
  /\ votedFor \in [Node -> Node \cup {None}]
  /\ votes \subseteq Node \X Node \X Nat
  /\ forgotten \subseteq Node \X Nat

ElectTypeOK ==
  /\ electing \in [Node -> BOOLEAN]
  /\ lastLog \in [Node -> [index : Nat, term : Nat]]
  /\ ballot \in [Node -> [Node -> Ballots]]
  /\ late \subseteq VoteRequests

LogTypeOK ==
  /\ log \in [Node -> Seq(Entry)]
  /\ commitIdx \in [Node -> Nat]
  /\ lastApplied \in [Node -> Nat]
  /\ redis \in [Node -> Seq(Reading)]

BeatTypeOK ==
  /\ stopHeartbeat \in [Node -> BOOLEAN]
  /\ heartbeats \in [Node -> Nat]
  /\ beats \subseteq Requests
  /\ ticks \in Nat

SubTypeOK == sub \in [Reading -> Calls] /\ rpc \in [Reading -> [Node -> Rpcs]]

\* The type invariant of the node's fields, goroutines and messages.
TypeOK ==
  /\ VoteTypeOK /\ ElectTypeOK /\ LogTypeOK /\ BeatTypeOK /\ SubTypeOK
  /\ leaderId \in [Node -> Node \cup {None}]
  /\ wedged \in [Node -> BOOLEAN]
  /\ crashes \in Nat

-------------------------------------------------------------------------------
\* The comment above the vote count (main.go:529) checks "we're still a
\* candidate and term hasn't changed", the code only the role.  The role is
\* enough: every granted ballot of a node that is still candidate is a vote
\* cast for it in the term it has now.
BallotsAreForThisTerm ==
  \A n \in Node : role[n] = "candidate" /\ electing[n] =>
    \A p \in Peers(n) : ballot[n][p].granted => <<p, n, term[n]>> \in votes

\* A leader holds the votes of a majority in the very term it leads.
LeaderWasElected == \A n \in Node : role[n] = "leader" => Elected(n, term[n])

\* Two nodes are elected in one term only if some voter lost track of a vote
\* of that term: by a restart, or by LearnTerm acting on a stale test.
SplitTermNeedsForgottenVote ==
  \A t \in VotedTerms : \A c \in {n \in Node : Elected(n, t)} : \A d \in Node \ {c} :
    Elected(d, t) => \E v \in Node : <<v, t>> \in forgotten

\* A leader gives up its role only for a higher term (or by restarting): the
\* goroutines of its election, which could lower it, have all returned.
StepsDownForHigherTerm ==
  [][\A n \in Node : role[n] = "leader" /\ role'[n] # "leader"
        => term'[n] > term[n] \/ term'[n] = 0]_vars

\* Every heartbeat in flight carries a term its sender was elected in.
HeartbeatsAreFromElectedLeaders ==
  \A m \in beats : m.call = None => Elected(m.from, m.term)

\* The submissions at index i whose node was elected in the term it gave the entry.
SubmittedAt(i) == {r \in Reading : sub[r].idx = i /\ Elected(sub[r].node, sub[r].term)}

\* Whatever logs have been replaced by, the term and the command of an entry are
\* those of submissions on elected leaders, at the very index of the entry.  They
\* need not be of one submission, nor need the command decode: a slot that one
\* leader wrote and another overwrote can be marshalled half and half.
EntriesComeFromElectedLeaders ==
  \A n \in Node : \A i \in DOMAIN log[n] :
    LET e == log[n][i]
    IN /\ \E r \in SubmittedAt(i) : e.term = sub[r].term
       /\ \/ e.cmd \in SubmittedAt(i)
          \/ e.cmd = None /\ \E q, r \in SubmittedAt(i) : q # r

\* A majority acknowledged the call: it reached applyCommittedEntries.
MajorityAcked(r) == sub[r].st \in {"apply", "push", "mark", "ok", "halted"}

\* A commit a node learns from a leader is never applied: what it has written to
\* its Redis lies at or below the index of a submission of its own that a majority
\* acknowledged.
AppliesOwnCommitsOnly ==
  \A n \in Node : \A i \in DOMAIN redis[n] :
    \E r \in Reading : /\ MajorityAcked(r) /\ sub[r].node = n
                       /\ sub[r].idx >= sub[redis[n][i]].idx

\* The node's role, leaderId and lock change only as LeaderView says: leaderId is
\* emptied by an election or a restart, set to the node itself by its own
\* victory, and otherwise only to a node that was once elected.
EverElected == {w[2] : w \in {x \in votes : Elected(x[2], x[3])}}
View == INSTANCE LeaderView WITH led <- EverElected
ViewsChangeAsPromised == [][View!ViewNext]_(View!view)

\* An election comes to its count, unless the candidate or a peer it waits for
\* has wedged: lost calls, refusals and peers that learn of other terms do not
\* keep startElection from returning.
ElectionReturns ==
  \A n \in Node :
    electing[n] ~> \/ ~electing[n] \/ wedged[n]
                   \/ \E p \in Peers(n) : wedged[p] /\ ballot[n][p].st = "sent"

\* SubmitReading returns, unless its node or a peer it waits for has wedged:
\* concurrent submissions that apply the same entries do not block each other.
SubmissionReturns ==
  \A r \in Reading :
    Active(r, sub[r].node) ~> \/ ~Active(r, sub[r].node) \/ wedged[sub[r].node]
                              \/ \E p \in Node : wedged[p] /\ rpc[r][p].st \in {"sent", "hung"}

-------------------------------------------------------------------------------
(* Statements of the repository's comments and documentation that the code *)
(* contradicts.                                                            *)

\* architecture2/Readme.md:251: "only ONE leader exists at a time".  Even read
\* term by term, the code does not keep it.
OneLeaderPerTerm ==
  \A c, d \in Node : role[c] = "leader" /\ role[d] = "leader" /\ term[c] = term[d] => c = d

\* main.go:552-554: heartbeatLoop "runs on the leader" and "exits if the node
\* ceases to be leader".
LeaderHasHeartbeatLoop == \A n \in Node : role[n] = "leader" => heartbeats[n] > 0

\* main.go:333-335: SubmitReading replicates the reading, "committing once a
\* majority have acknowledged".  A committed reading is in a majority of logs.
Holds(n, r) == sub[r].idx \in DOMAIN log[n] /\ log[n][sub[r].idx].cmd = r
CommittedIsOnMajority ==
  \A r \in Reading : sub[r].st \in {"apply", "push", "mark", "ok"} =>
    Majority(Cardinality({n \in Node : Holds(n, r)}))

\* main.go:4-5: "The log entries are applied to a Redis stream once committed".
CommittedIsApplied ==
  \A n \in Node : commitIdx[n] > lastApplied[n] ~> commitIdx[n] <= lastApplied[n]
===============================================================================
