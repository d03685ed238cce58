------------------------------- MODULE RaftNode -------------------------------
(***************************************************************************)
(* The Raft node of architecture2/raftnode/main.go: leader election,       *)
(* heartbeats, log replication and the application of committed entries.   *)
(*                                                                         *)
(* One section of code that holds rn.mu is one action; what happens        *)
(* between two such sections (a dial, an RPC in flight, a Redis call) is   *)
(* where other actions interleave.  Each goroutine the code starts has its *)
(* own program counter: ballot[n][p] for the vote request of n to p,       *)
(* rpc[r][p] for the AppendEntries call that carries reading r to p, a     *)
(* member of beats for a heartbeat.  A call may fail at any point; one that *)
(* fails once it was sent may still be served.                             *)
(*                                                                         *)
(* The dummy entry at index 0 is left out: log[n][i] is rn.log[i], and     *)
(* Len(log[n]) is lastLogIndex().  An entry's own Index field is never     *)
(* read by the code.                                                       *)
(***************************************************************************)
EXTENDS Naturals, Sequences, FiniteSets

CONSTANTS Node,         \* the cluster; every node's PEERS is Node minus itself
          Reading,      \* the readings clients submit, each at most once
          Unencodable,  \* readings json.Marshal rejects (a NaN or Inf value)
          None,         \* the empty string in votedFor and leaderId
          MaxTerm,      \* bound: no election starts at this term
          MaxTicks,     \* bound: heartbeat rounds, over all nodes
          MaxLate,      \* bound: requests in flight whose call has failed, of each RPC
          MaxCrashes    \* bound: node restarts

ASSUME NodeAssumption == IsFiniteSet(Node) /\ None \notin Node
ASSUME ReadingAssumption == Unencodable \subseteq Reading /\ None \notin Reading
ASSUME BoundAssumption ==
  MaxTerm \in Nat /\ MaxTicks \in Nat /\ MaxLate \in Nat /\ MaxCrashes \in Nat

VARIABLES
  term, role, votedFor, leaderId,      \* the fields of RaftNode
  log, commitIdx, lastApplied,
  stopHeartbeat,  \* a token waits in the channel of that name (capacity 1)
  wedged,         \* rn.mu is held by a handler that will never release it
  electing,       \* the election goroutine is inside startElection
  lastLog,        \* lastIndex and lastTerm, read when the election started
  ballot,         \* the goroutines of startElection
  late,           \* vote requests in flight whose call has failed at the candidate
  heartbeats,     \* how many heartbeatLoop goroutines run
  beats,          \* AppendEntries in flight that nobody waits for: heartbeats, failed calls
  ticks,          \* heartbeat rounds sent so far
  sub, rpc,       \* SubmitReading calls and their replication goroutines
  redis,          \* the 'readings' stream of the node's own Redis
  crashes,        \* restarts so far
  votes,          \* history: <<v, c, t>> if v ever voted for c in term t
  forgotten       \* history: <<v, t>> if v voted in term t and lost track of it

voteVars == <<term, role, votedFor, votes, forgotten>>
electVars == <<electing, lastLog, ballot, late>>
logVars  == <<log, commitIdx, lastApplied, redis>>
beatVars == <<stopHeartbeat, heartbeats, beats, ticks>>
subVars  == <<sub, rpc>>
vars == <<voteVars, leaderId, electVars, logVars, beatVars, subVars, wedged, crashes>>

Peers(n) == Node \ {n}

\* votes*2 > len(rn.peers)+1, and the same test on successCount
Majority(k) == 2 * k > Cardinality(Node)

LastTerm(n) == IF log[n] = <<>> THEN 0 ELSE log[n][Len(log[n])].term

\* A command None is one that does not decode: its slot was read while it was
\* overwritten (see Readable).
Entry == [term : Nat, cmd : Reading \cup {None}]
NoBallot == [st |-> "none", term |-> 0, granted |-> FALSE]
NoRpc == [st |-> "none", term |-> 0, entries |-> <<>>]
NewCall == [st |-> "new", node |-> None, term |-> 0, idx |-> 0, commit |-> 0, at |-> 0,
            cmd |-> None]

\* What NewRaftNode builds in every process of a cluster that starts.
NewCluster ==
  /\ term = [n \in Node |-> 0]
  /\ role = [n \in Node |-> "follower"]
  /\ votedFor = [n \in Node |-> None]
  /\ leaderId = [n \in Node |-> None]
  /\ log = [n \in Node |-> <<>>]
  /\ commitIdx = [n \in Node |-> 0]
  /\ lastApplied = [n \in Node |-> 0]
  /\ stopHeartbeat = [n \in Node |-> FALSE]
  /\ wedged = [n \in Node |-> FALSE]
  /\ electing = [n \in Node |-> FALSE]
  /\ lastLog = [n \in Node |-> [index |-> 0, term |-> 0]]
  /\ ballot = [n \in Node |-> [p \in Node |-> NoBallot]] /\ late = {}
  /\ heartbeats = [n \in Node |-> 0]
  /\ beats = {}
  /\ sub = [r \in Reading |-> NewCall]
  /\ rpc = [r \in Reading |-> [p \in Node |-> NoRpc]]
  /\ redis = [n \in Node |-> <<>>]
  /\ votes = {} /\ forgotten = {}

Init == NewCluster /\ ticks = 0 /\ crashes = 0

-------------------------------------------------------------------------------
(* Election: ElectionLoop and startElection, and the RequestVote handler.  *)

\* The votes n cast in terms first, first+1, ... up to its current term: what
\* it no longer remembers once its term is first and its votedFor is empty.
Forget(n, first) ==
  forgotten \cup {<<n, t>> : t \in {u \in first..term[n] :
                                      \E c \in Node : <<n, c, u>> \in votes}}

\* The election timer fires: the first locked section of startElection.  A
\* leader returns at once; a timeout is otherwise possible at any time.
StartElection(n) ==
  /\ ~wedged[n] /\ ~electing[n] /\ role[n] # "leader"
  /\ term[n] < MaxTerm
  /\ term' = [term EXCEPT ![n] = @ + 1]
  /\ role' = [role EXCEPT ![n] = "candidate"]
  /\ votedFor' = [votedFor EXCEPT ![n] = n]
  /\ leaderId' = [leaderId EXCEPT ![n] = None]
  /\ electing' = [electing EXCEPT ![n] = TRUE]
  /\ lastLog' = [lastLog EXCEPT ![n] = [index |-> Len(log[n]), term |-> LastTerm(n)]]
  /\ ballot' = [ballot EXCEPT ![n] =
                  [p \in Node |-> IF p = n THEN NoBallot ELSE [NoBallot EXCEPT !.st = "dial"]]]
  /\ votes' = votes \cup {<<n, n, term[n] + 1>>}
  /\ UNCHANGED <<late, forgotten, logVars, beatVars, subVars, wedged, crashes>>

\* The connection to p is up: the request takes rn.term as it is now, read
\* without the lock, which need not be the term of this election any more.
SendVoteRequest(n, p) ==
  /\ ballot[n][p].st = "dial"
  /\ ballot' = [ballot EXCEPT ![n][p] = [@ EXCEPT !.st = "sent", !.term = term[n]]]
  /\ UNCHANGED <<voteVars, leaderId, electing, lastLog, late, logVars, beatVars, subVars, wedged,
                 crashes>>

VoteCall(n, p) == [from |-> n, to |-> p, term |-> ballot[n][p].term, last |-> lastLog[n]]

\* Any of these requests, whose calls have failed, may still arrive.
StayOnTheirWay(requests) ==
  \E on \in SUBSET requests : late' = late \cup on /\ Cardinality(late \cup on) <= MaxLate

\* The dial times out, or the call returns an error: counted as no vote.
VoteCallFails(n, p) ==
  /\ ballot[n][p].st \in {"dial", "sent", "reply"}
  /\ StayOnTheirWay(IF ballot[n][p].st = "sent" THEN {VoteCall(n, p)} ELSE {})
  /\ ballot' = [ballot EXCEPT ![n][p] = [NoBallot EXCEPT !.st = "done"]]
  /\ UNCHANGED <<voteVars, leaderId, electing, lastLog, logVars, beatVars, subVars, wedged,
                 crashes>>

\* A message of term t makes p step down.
NotOlder(p, t) == t >= term[p]
Newer(p, t) == t > term[p]

\* votedFor of p after it has looked at the term t of a request.
VoteInTerm(p, t) == IF Newer(p, t) THEN None ELSE votedFor[p]

\* The candidate's log, as it was when its election started, is at least as up
\* to date as v's.
UpToDate(last, v) ==
  \/ last.term > LastTerm(v)
  \/ last.term = LastTerm(v) /\ last.index >= Len(log[v])

GrantsAgain(m) == m.term >= term[m.to] /\ UpToDate(m.last, m.to)
Grants(m) ==
  /\ m.term >= term[m.to]
  /\ VoteInTerm(m.to, m.term) \in {None, m.from}
  /\ UpToDate(m.last, m.to)

\* The receiver of m runs RequestVote: one locked section.
HandleVote(m) ==
  LET p == m.to
      newer == Newer(p, m.term)
  IN /\ ~wedged[p]
     /\ term' = [term EXCEPT ![p] = IF newer THEN m.term ELSE @]
     /\ role' = [role EXCEPT ![p] = IF newer THEN "follower" ELSE @]
     /\ votedFor' = [votedFor EXCEPT ![p] = IF Grants(m) THEN m.from ELSE VoteInTerm(p, m.term)]
     /\ votes' = IF Grants(m) THEN votes \cup {<<p, m.from, m.term>>} ELSE votes
     /\ UNCHANGED <<forgotten, leaderId, electing, lastLog, logVars, beatVars, subVars, wedged,
                    crashes>>

\* The request of n reaches p, and n waits for the answer.
RequestVote(n, p) ==
  /\ ballot[n][p].st = "sent" /\ HandleVote(VoteCall(n, p))
  /\ ballot' = [ballot EXCEPT ![n][p] =
                  [st |-> "reply", term |-> term'[p], granted |-> Grants(VoteCall(n, p))]]
  /\ UNCHANGED late

\* A request reaches its peer though its call has failed: nobody gets the answer.
RequestVoteLate(m) ==
  /\ HandleVote(m)
  /\ late' = late \ {m}
  /\ UNCHANGED ballot

\* The reply is read and its vote queued; resp.Term > rn.term is tested
\* without the lock.
ReceiveVote(n, p) ==
  /\ ballot[n][p].st = "reply"
  /\ ballot' = [ballot EXCEPT ![n][p].st = IF ballot[n][p].term > term[n] THEN "learn" ELSE "done"]
  /\ UNCHANGED <<voteVars, leaderId, electing, lastLog, late, logVars, beatVars, subVars, wedged,
                 crashes>>

LearnTermInRole(n, p) ==
  /\ ballot[n][p].st = "learn" /\ ~wedged[n]
  /\ term' = [term EXCEPT ![n] = ballot[n][p].term]
  /\ votedFor' = [votedFor EXCEPT ![n] = None]
  /\ forgotten' = Forget(n, ballot[n][p].term)
  /\ ballot' = [ballot EXCEPT ![n][p].st = "done"]
  /\ UNCHANGED <<role, votes, leaderId, electing, lastLog, late, logVars, beatVars, subVars, wedged,
                 crashes>>

\* The goroutine that saw a higher term gets the lock and installs that term
\* without testing it again.
LearnTerm(n, p) ==
  /\ ballot[n][p].st = "learn" /\ ~wedged[n]
  /\ term' = [term EXCEPT ![n] = ballot[n][p].term]
  /\ role' = [role EXCEPT ![n] = "follower"]
  /\ votedFor' = [votedFor EXCEPT ![n] = None]
  /\ forgotten' = Forget(n, ballot[n][p].term)
  /\ ballot' = [ballot EXCEPT ![n][p].st = "done"]
  /\ UNCHANGED <<votes, leaderId, electing, lastLog, late, logVars, beatVars, subVars, wedged,
                 crashes>>

GrantedBallots(n) == {p \in Peers(n) : ballot[n][p].granted}

\* wg.Wait() of startElection: every goroutine has returned.
EveryPeerGrants(n) == \A p \in Peers(n) : ballot[n][p].st = "done" /\ ballot[n][p].granted
AllBallotsIn(n) == \A p \in Peers(n) : ballot[n][p].st = "done"

WinsInAnyRole(n) == Majority(1 + Cardinality(GrantedBallots(n)))
Wins(n) == role[n] = "candidate" /\ Majority(1 + Cardinality(GrantedBallots(n)))

\* The votes are counted: the last locked section of startElection.  nextIndex
\* and matchIndex, which the code fills here, are never read.
CountVotes(n) ==
  /\ electing[n] /\ ~wedged[n] /\ AllBallotsIn(n)
  /\ IF Wins(n)
       THEN /\ role' = [role EXCEPT ![n] = "leader"]
            /\ leaderId' = [leaderId EXCEPT ![n] = n]
            /\ heartbeats' = [heartbeats EXCEPT ![n] = @ + 1]
       ELSE UNCHANGED <<role, leaderId, heartbeats>>
  /\ electing' = [electing EXCEPT ![n] = FALSE]
  /\ ballot' = [ballot EXCEPT ![n] = [p \in Node |-> NoBallot]]
  /\ lastLog' = [lastLog EXCEPT ![n] = [index |-> 0, term |-> 0]]
  /\ UNCHANGED <<term, votedFor, votes, forgotten, late, logVars, stopHeartbeat, beats, ticks,
                 subVars, wedged, crashes>>

-------------------------------------------------------------------------------
(* AppendEntries, sent by heartbeatLoop and by SubmitReading.              *)

\* A message points into the sender's log and is marshalled after the lock was
\* released, while AppendEntries and SubmitReading write to the same array.  So
\* entries[i] is the set of all entries that slot i has held since the message
\* was built.  (When the array was reallocated the message keeps the first one.)
Captured(n) == [i \in DOMAIN log[n] |-> {log[n][i]}]
Overwritten(n, slots) ==
  [i \in DOMAIN slots |-> slots[i] \cup {log'[n][j] : j \in DOMAIN log'[n] \cap {i}}]

\* The log of n has been written to: what its messages may be found to hold.
BeatsOf(n, messages) ==
  {IF m.from = n /\ m.live THEN [m EXCEPT !.entries = Overwritten(n, @)] ELSE m : m \in messages}
RpcsOf(n) ==
  [r \in Reading |-> IF sub[r].node # n THEN rpc[r]
                     ELSE [p \in Node |-> [rpc[r][p] EXCEPT !.entries = Overwritten(n, @)]]]

\* Term and Command are read one after the other, so they may be of two entries;
\* and Command is a pointer and a length, which fit only if they are of one.
Readable(slot) ==
  LET cmds == {e.cmd : e \in slot}
      torn == IF \E c, d \in cmds : c # d THEN {None} ELSE {}
  IN [term : {e.term : e \in slot}, cmd : cmds \cup torn]

\* What the receiver of a message with these slots may get.
Marshalled(slots) ==
  {es \in [DOMAIN slots -> UNION {Readable(slots[i]) : i \in DOMAIN slots}] :
     \A i \in DOMAIN slots : es[i] \in Readable(slots[i])}

Commits(n, m) == m.commit > commitIdx[n]

\* n runs AppendEntries for a message whose term is not stale.  Every sender
\* passes the dummy entry as prevLogIndex, so the consistency check succeeds
\* and the whole log is replaced.  A message that advances commitIdx makes the
\* handler call applyCommittedEntries, which locks rn.mu a second time: the
\* handler never returns and never releases the lock.
AcceptEntries(n, m) ==
  LET newer == Newer(n, m.term)
      stuck == Commits(n, m)
  IN /\ ~wedged[n] /\ m.term >= term[n]
     /\ term' = [term EXCEPT ![n] = m.term]
     /\ role' = [role EXCEPT ![n] = IF newer THEN "follower" ELSE @]
     /\ votedFor' = [votedFor EXCEPT ![n] = IF newer THEN None ELSE @]
     /\ stopHeartbeat' = [stopHeartbeat EXCEPT ![n] = @ \/ newer]
     /\ leaderId' = [leaderId EXCEPT ![n] = m.from]
     /\ log' = [log EXCEPT ![n] = m.entries]
     /\ commitIdx' = [commitIdx EXCEPT ![n] =
                        IF ~stuck THEN @
                        ELSE IF m.commit < Len(m.entries) THEN m.commit ELSE Len(m.entries)]
     /\ wedged' = [wedged EXCEPT ![n] = stuck]

Stale(n, m) == ~wedged[n] /\ m.term < term[n]

LoopRuns(n) == heartbeats[n] > 0
StillLeader(n) == role[n] = "leader"

\* A tick of a heartbeatLoop that finds the node still leader.  Losing the
\* leadership between its two locked sections only makes the loop end here
\* rather than at its next tick, so the two are one step.
HeartbeatTick(n) ==
  /\ heartbeats[n] > 0 /\ ~wedged[n] /\ StillLeader(n)
  /\ ticks < MaxTicks
  /\ ticks' = ticks + 1
  /\ beats' = beats \cup {[tick |-> ticks, call |-> None, live |-> TRUE, from |-> n, to |-> p,
                           term |-> term[n], entries |-> Captured(n),
                           commit |-> commitIdx[n]] : p \in Peers(n)}
  /\ UNCHANGED <<voteVars, leaderId, electVars, logVars, stopHeartbeat, heartbeats, subVars,
                 wedged, crashes>>

\* A tick that finds the node no longer leader ends the loop.
HeartbeatLoopEnds(n) ==
  /\ heartbeats[n] > 0 /\ ~wedged[n] /\ ~StillLeader(n)
  /\ heartbeats' = [heartbeats EXCEPT ![n] = @ - 1]
  /\ UNCHANGED <<voteVars, leaderId, electVars, logVars, stopHeartbeat, beats, ticks, subVars,
                 wedged, crashes>>

\* A token in stopHeartbeat ends the loop, whichever loop the token was meant for.
HeartbeatTokenDrained(n) ==
  /\ stopHeartbeat[n]
  /\ heartbeats' = [heartbeats EXCEPT ![n] = @ - 1]
  /\ stopHeartbeat' = [stopHeartbeat EXCEPT ![n] = FALSE]
  /\ UNCHANGED <<voteVars, leaderId, electVars, logVars, beats, ticks, subVars, wedged, crashes>>

HeartbeatLoopStopped(n) ==
  /\ heartbeats[n] > 0 /\ stopHeartbeat[n]
  /\ heartbeats' = [heartbeats EXCEPT ![n] = @ - 1]
  /\ stopHeartbeat' = [stopHeartbeat EXCEPT ![n] = FALSE]
  /\ UNCHANGED <<voteVars, leaderId, electVars, logVars, beats, ticks, subVars, wedged, crashes>>

\* A heartbeat, or an AppendEntries whose call has failed, reaches its peer;
\* nobody looks at the reply.
DeliverHeartbeat(m) ==
  /\ \/ /\ \E es \in Marshalled(m.entries) : AcceptEntries(m.to, [m EXCEPT !.entries = es])
        /\ beats' = BeatsOf(m.to, beats \ {m}) /\ rpc' = RpcsOf(m.to)
     \/ /\ Stale(m.to, m)
        /\ beats' = beats \ {m}
        /\ UNCHANGED <<term, role, votedFor, stopHeartbeat, leaderId, log, commitIdx, wedged, rpc>>
  /\ UNCHANGED <<votes, forgotten, electVars, lastApplied, redis, heartbeats, ticks, sub, crashes>>

\* It does not: the dial or the call fails.
LoseHeartbeat(m) ==
  /\ beats' = beats \ {m}
  /\ UNCHANGED <<voteVars, leaderId, electVars, logVars, stopHeartbeat, heartbeats, ticks,
                 subVars, wedged, crashes>>

-------------------------------------------------------------------------------
(* SubmitReading and applyCommittedEntries.                                *)

\* The first locked section on a leader.  On any other node the call returns
\* "not leader" and leaves no trace: the client may submit the reading again.
MaySubmitInAnyRole(n) == TRUE
MaySubmit(n) == role[n] = "leader"

SubmitReading(r, n) ==
  /\ sub[r].st = "new" /\ ~wedged[n] /\ MaySubmit(n)
  /\ log' = [log EXCEPT ![n] = Append(@, [term |-> term[n], cmd |-> r])]
  /\ sub' = [sub EXCEPT ![r] = [NewCall EXCEPT !.st = "replicate", !.node = n, !.term = term[n],
                                  !.idx = Len(log[n]) + 1, !.commit = commitIdx[n]]]
  /\ rpc' = [RpcsOf(n) EXCEPT ![r] =
               [p \in Node |-> IF p = n THEN NoRpc ELSE [NoRpc EXCEPT !.st = "dial"]]]
  /\ beats' = BeatsOf(n, beats)
  /\ UNCHANGED <<voteVars, leaderId, electVars, commitIdx, lastApplied, redis, stopHeartbeat,
                 heartbeats, ticks, wedged, crashes>>

\* The goroutine for p is connected and reads the whole log and the term under
\* the lock; it does not look at the role again.  commit is the older value.
SendEntries(r, p) ==
  LET n == sub[r].node
  IN /\ rpc[r][p].st = "dial" /\ ~wedged[n]
     /\ rpc' = [rpc EXCEPT ![r][p] = [st |-> "sent", term |-> term[n], entries |-> Captured(n)]]
     /\ UNCHANGED <<voteVars, leaderId, electVars, logVars, beatVars, sub, wedged, crashes>>

\* The request of the goroutine for p.
AppendCall(r, p) ==
  [tick |-> 0, call |-> r, live |-> FALSE, from |-> sub[r].node, to |-> p, term |-> rpc[r][p].term,
   entries |-> rpc[r][p].entries, commit |-> sub[r].commit]

\* Any of these requests, whose calls have failed, may still arrive.
StayInFlight(messages, requests) ==
  \E on \in SUBSET requests :
    /\ beats' = messages \cup on
    /\ Cardinality({m \in messages \cup on : m.call # None}) <= MaxLate

\* The dial times out or the call returns an error.
AppendCallFails(r, p) ==
  /\ rpc[r][p].st \in {"dial", "sent", "hung", "acked"}
  /\ StayInFlight(beats, IF rpc[r][p].st = "sent" THEN {AppendCall(r, p)} ELSE {})
  /\ rpc' = [rpc EXCEPT ![r][p] = [NoRpc EXCEPT !.st = "failed"]]
  /\ UNCHANGED <<voteVars, leaderId, electVars, logVars, stopHeartbeat, heartbeats, ticks, sub,
                 wedged, crashes>>

\* The call reaches p.  It is acknowledged, rejected as stale, or hangs with
\* the handler.
DeliverEntries(r, p) ==
  LET m == AppendCall(r, p)
  IN /\ rpc[r][p].st = "sent"
     /\ \/ /\ \E es \in Marshalled(m.entries) : AcceptEntries(p, [m EXCEPT !.entries = es])
           /\ beats' = BeatsOf(p, beats)
           /\ rpc' = [RpcsOf(p) EXCEPT ![r][p] =
                        [NoRpc EXCEPT !.st = IF Commits(p, m) THEN "hung" ELSE "acked"]]
        \/ /\ Stale(p, m)
           /\ rpc' = [rpc EXCEPT ![r][p] = [NoRpc EXCEPT !.st = "failed"]]
           /\ UNCHANGED <<term, role, votedFor, stopHeartbeat, leaderId, log, commitIdx, wedged,
                          beats>>
     /\ UNCHANGED <<votes, forgotten, electVars, lastApplied, redis, heartbeats, ticks, sub,
                    crashes>>

\* wg.Wait() of SubmitReading: every replication goroutine has returned.
EveryPeerAcks(r) == \A p \in Peers(sub[r].node) : rpc[r][p].st = "acked"
AllAnswered(r) == \A p \in Peers(sub[r].node) : rpc[r][p].st \in {"acked", "failed"}

Acks(r) == 1 + Cardinality({p \in Node : rpc[r][p].st = "acked"})

\* The successes are counted; a majority sets commitIdx to this entry's index, whatever it was.
FinishReplication(r) ==
  LET n == sub[r].node
  IN /\ sub[r].st = "replicate"
     /\ AllAnswered(r)
     /\ \/ /\ Majority(Acks(r)) /\ ~wedged[n]
           /\ commitIdx' = [commitIdx EXCEPT ![n] = sub[r].idx]
           /\ sub' = [sub EXCEPT ![r].st = "apply"]
        \/ /\ ~Majority(Acks(r))
           /\ sub' = [sub EXCEPT ![r].st = "failed"]
           /\ UNCHANGED commitIdx
     /\ rpc' = [rpc EXCEPT ![r] = [p \in Node |-> NoRpc]]
     /\ UNCHANGED <<voteVars, leaderId, electVars, log, lastApplied, redis, beatVars, wedged,
                    crashes>>

\* The loop condition of applyCommittedEntries.
HasEntries(n) == lastApplied[n] < Len(log[n])
MoreToApply(n) == lastApplied[n] < commitIdx[n]

\* applyCommittedEntries finds nothing left to apply: SubmitReading returns nil.
ApplyDone(r) ==
  LET n == sub[r].node
  IN /\ sub[r].st = "apply" /\ ~wedged[n] /\ ~MoreToApply(n)
     /\ sub' = [sub EXCEPT ![r].st = "ok"]
     /\ UNCHANGED <<voteVars, leaderId, electVars, logVars, beatVars, rpc, wedged, crashes>>

\* applyCommittedEntries copies the next entry and releases the lock.
ApplyPick(r) ==
  LET n == sub[r].node
      i == lastApplied[n] + 1
  IN /\ sub[r].st = "apply" /\ ~wedged[n] /\ MoreToApply(n)
     /\ i <= Len(log[n])
     /\ sub' = [sub EXCEPT ![r] = [@ EXCEPT !.st = "push", !.at = i, !.cmd = log[n][i].cmd]]
     /\ UNCHANGED <<voteVars, leaderId, electVars, logVars, beatVars, rpc, wedged, crashes>>

\* XAdd.  An error is logged and a command that does not decode is skipped: one
\* that was never encoded, or was garbled on its way.
ApplyPush(r) ==
  LET n == sub[r].node
  IN /\ sub[r].st = "push"
     /\ \/ /\ sub[r].cmd \notin Unencodable \cup {None}
           /\ redis' = [redis EXCEPT ![n] = Append(@, sub[r].cmd)]
        \/ UNCHANGED redis
     /\ sub' = [sub EXCEPT ![r].st = "mark"]
     /\ UNCHANGED <<voteVars, leaderId, electVars, log, commitIdx, lastApplied, beatVars, rpc,
                    wedged, crashes>>

ApplyMark(r) ==
  LET n == sub[r].node
  IN /\ sub[r].st = "mark" /\ ~wedged[n]
     /\ lastApplied' = [lastApplied EXCEPT ![n] = sub[r].at]
     /\ sub' = [sub EXCEPT ![r] = [@ EXCEPT !.st = "apply", !.at = 0, !.cmd = None]]
     /\ UNCHANGED <<voteVars, leaderId, electVars, log, commitIdx, redis, beatVars, rpc, wedged,
                    crashes>>

-------------------------------------------------------------------------------
(* Crashes.  Nothing but Redis survives one: NewRaftNode starts from term  *)
(* 0 with no vote and an empty log.                                        *)

Active(r, n) == sub[r].node = n /\ sub[r].st \in {"replicate", "apply", "push", "mark"}

\* The process of n ends and its container starts it again.  Its calls end, but
\* a request that was sent may still arrive.  A call that hung in n fails at its
\* caller.
Reboot(n) ==
  /\ term' = [term EXCEPT ![n] = 0]
  /\ role' = [role EXCEPT ![n] = "follower"]
  /\ votedFor' = [votedFor EXCEPT ![n] = None]
  /\ forgotten' = Forget(n, 0)
  /\ leaderId' = [leaderId EXCEPT ![n] = None]
  /\ log' = [log EXCEPT ![n] = <<>>]
  /\ commitIdx' = [commitIdx EXCEPT ![n] = 0]
  /\ lastApplied' = [lastApplied EXCEPT ![n] = 0]
  /\ stopHeartbeat' = [stopHeartbeat EXCEPT ![n] = FALSE]
  /\ wedged' = [wedged EXCEPT ![n] = FALSE]
  /\ electing' = [electing EXCEPT ![n] = FALSE]
  /\ lastLog' = [lastLog EXCEPT ![n] = [index |-> 0, term |-> 0]]
  /\ ballot' = [ballot EXCEPT ![n] = [p \in Node |-> NoBallot]]
  /\ heartbeats' = [heartbeats EXCEPT ![n] = 0]
  /\ StayOnTheirWay({VoteCall(n, p) : p \in {q \in Peers(n) : ballot[n][q].st = "sent"}})
  /\ StayInFlight({IF m.from = n THEN [m EXCEPT !.live = FALSE] ELSE m : m \in beats},
                  {AppendCall(c[1], c[2]) :
                     c \in {d \in Reading \X Node : sub[d[1]].node = n /\ rpc[d[1]][d[2]].st = "sent"}})
  /\ sub' = [r \in Reading |->
               IF ~Active(r, n) THEN sub[r]
               ELSE [sub[r] EXCEPT !.st = IF @ = "replicate" THEN "lost" ELSE "halted"]]
  /\ rpc' = [r \in Reading |->
               IF sub[r].node = n THEN [p \in Node |-> NoRpc]
               ELSE [rpc[r] EXCEPT ![n] = IF @.st = "hung" THEN [@ EXCEPT !.st = "failed"] ELSE @]]
  /\ UNCHANGED <<votes, redis, ticks>>

Crash(n) == crashes < MaxCrashes /\ crashes' = crashes + 1 /\ Reboot(n)

\* rn.log[idx] is out of range in applyCommittedEntries: the process panics.
ApplyPanics(r) ==
  LET n == sub[r].node
  IN /\ sub[r].st = "apply" /\ ~wedged[n] /\ MoreToApply(n)
     /\ lastApplied[n] + 1 > Len(log[n])
     /\ Reboot(n) /\ UNCHANGED crashes

-------------------------------------------------------------------------------
Election(n) ==
  \/ StartElection(n) \/ CountVotes(n)
  \/ \E p \in Peers(n) : \/ SendVoteRequest(n, p) \/ VoteCallFails(n, p) \/ RequestVote(n, p)
                         \/ ReceiveVote(n, p) \/ LearnTerm(n, p)
  \/ \E m \in late : m.from = n /\ RequestVoteLate(m)

Heartbeat ==
  \/ \E n \in Node : HeartbeatTick(n) \/ HeartbeatLoopEnds(n) \/ HeartbeatLoopStopped(n)
  \/ \E m \in beats : DeliverHeartbeat(m) \/ LoseHeartbeat(m)

Submission(r) ==
  \/ \E n \in Node : SubmitReading(r, n)
  \/ \E p \in Node : SendEntries(r, p) \/ AppendCallFails(r, p) \/ DeliverEntries(r, p)
  \/ FinishReplication(r) \/ ApplyDone(r) \/ ApplyPick(r) \/ ApplyPush(r) \/ ApplyMark(r)
  \/ ApplyPanics(r)

Next ==
  \/ \E n \in Node : Election(n) \/ Crash(n)
  \/ Heartbeat
  \/ \E r \in Reading : Submission(r)

Spec == Init /\ [][Next]_vars

\* One goroutine of startElection or SubmitReading.  A dial has a deadline: it
\* connects or fails.  A request that was sent is served by a live handler.
VoteGoroutine(n, p) ==
  \/ ballot[n][p].st = "dial" /\ (SendVoteRequest(n, p) \/ VoteCallFails(n, p))
  \/ RequestVote(n, p) \/ ReceiveVote(n, p) \/ LearnTerm(n, p)
EntriesGoroutine(r, p) ==
  \/ rpc[r][p].st = "dial" /\ (SendEntries(r, p) \/ AppendCallFails(r, p))
  \/ DeliverEntries(r, p)

\* A goroutine that can run does run.  Nothing makes an election time out, a client
\* submit, a call fail, a heartbeat arrive or a node restart.
Fairness ==
  /\ \A n \in Node :
       WF_vars(CountVotes(n)) /\ \A p \in Peers(n) : WF_vars(VoteGoroutine(n, p))
  /\ \A r \in Reading :
       /\ WF_vars(FinishReplication(r) \/ ApplyDone(r) \/ ApplyPick(r) \/ ApplyPush(r)
                   \/ ApplyMark(r) \/ ApplyPanics(r))
       /\ \A p \in Node : WF_vars(EntriesGoroutine(r, p))

FairSpec == Spec /\ Fairness
===============================================================================
