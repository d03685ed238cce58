----------------------------- MODULE RaftLogProofs -----------------------------
(***************************************************************************)
(* Where log entries, messages and applied readings come from, for every   *)
(* cluster, set of readings and bound; and that a cluster of RaftNode      *)
(* processes shows the other components what LeaderView says.              *)
(***************************************************************************)
EXTENDS RaftElectionProofs, SequenceTheorems

-------------------------------------------------------------------------------
(* The inductive invariant.                                                *)

\* A reading that was submitted has its node, term and index for good.
Taken(r) == sub[r].st # "new"
Makers(i) == {r \in SubmittedAt(i) : Taken(r)}

\* e is made of what elected leaders gave index i: of one of their entries, or of two.
GoodEntry(e, i) ==
  /\ \E r \in Makers(i) : e.term = sub[r].term
  /\ e.cmd \in Makers(i) \/ (e.cmd = None /\ \E q, r \in Makers(i) : q # r)
GoodLog(s) == \A i \in DOMAIN s : GoodEntry(s[i], i)
GoodSlots(s) == \A i \in DOMAIN s : \A e \in s[i] : GoodEntry(e, i)

\* Every log is good, and so is every slot of a message: it holds an entry of its
\* sender's log, and all that is written over it.
LogsGood ==
  /\ \A n \in Node : GoodLog(log[n])
  /\ \A m \in beats : GoodSlots(m.entries)
  /\ \A r \in Reading, p \in Node : GoodSlots(rpc[r][p].entries)

\* Who sends AppendEntries was elected, a heartbeat in the very term it carries.
\* No node sends itself a request.
SendersElected ==
  /\ \A m \in beats : /\ m.to # m.from /\ m.from \in EverElected
                      /\ m.call = None => Elected(m.from, m.term)
  /\ \A r \in Reading : Taken(r) => sub[r].node \in EverElected
  /\ \A r \in Reading, p \in Node : rpc[r][p].st # "none" => p # sub[r].node
  /\ \A m \in late : m.to # m.from

\* A majority acknowledged a submission on n at index i or above.
CommittedAt(n, i) == \E r \in Reading : MajorityAcked(r) /\ sub[r].node = n /\ sub[r].idx >= i

\* As long as a node can still apply entries, its commitIdx is its own: one that
\* it learns from a leader locks it out.
CommitsKnown ==
  \A n \in Node : ~wedged[n] /\ commitIdx[n] > 0 => CommittedAt(n, commitIdx[n])

\* What is in Redis, or on the way to it, was committed by its node.
Applied(n, q) == Taken(q) /\ CommittedAt(n, sub[q].idx)
AppliedKnown ==
  /\ \A n \in Node : \A i \in DOMAIN redis[n] : Applied(n, redis[n][i])
  /\ \A r \in Reading : sub[r].st = "push" => sub[r].cmd = None \/ Applied(sub[r].node, sub[r].cmd)

LogInv == SendersElected /\ LogsGood /\ CommitsKnown /\ AppliedKnown
FullInv == IInv /\ LogInv
-------------------------------------------------------------------------------
(* What no step takes back.                                                *)

\* Votes stay, and a call that has begun keeps its node, term and index; one that
\* found a majority does not get out of that.
Kept ==
  /\ votes \subseteq votes'
  /\ \A r \in Reading : Taken(r) =>
       /\ sub'[r].st # "new" /\ sub'[r].node = sub[r].node
       /\ sub'[r].term = sub[r].term /\ sub'[r].idx = sub[r].idx
       /\ MajorityAcked(r) => MajorityAcked(r)'

LEMMA RebootKeeps == ASSUME TypeInv, NEW n \in Node, Reboot(n) PROVE Kept
<1>1. sub \in [Reading -> Calls]
  BY DEF TypeInv, TypeOK, SubTypeOK
<1>2. ASSUME NEW r \in Reading
      PROVE  /\ sub'[r].node = sub[r].node /\ sub'[r].term = sub[r].term /\ sub'[r].idx = sub[r].idx
             /\ \/ sub'[r].st = sub[r].st
                \/ sub'[r].st = "lost" /\ sub[r].st = "replicate"
                \/ sub'[r].st = "halted" /\ sub[r].st # "new"
  <2>1. sub[r] \in Calls
    BY <1>1
  <2>2. \/ sub'[r] = sub[r]
        \/ sub'[r] = [sub[r] EXCEPT !.st = "lost"] /\ sub[r].st = "replicate"
        \/ sub'[r] = [sub[r] EXCEPT !.st = "halted"] /\ sub[r].st # "new"
    BY <2>1 DEF Reboot, Active, Calls
  <2>3. QED
    BY <2>1, <2>2 DEF Calls
<1>3. votes' = votes
  BY DEF Reboot
<1>4. QED
  BY <1>2, <1>3 DEF Kept, Taken, MajorityAcked

LEMMA StepKeeps == ASSUME TypeInv, Next PROVE Kept
<1>0. sub \in [Reading -> Calls] /\ CallsBelong
  BY DEF TypeInv, TypeOK, SubTypeOK
<1>1. ASSUME votes \subseteq votes', UNCHANGED sub
      PROVE  Kept
  BY <1>1 DEF Kept, Taken, MajorityAcked
<1>2. ASSUME NEW n \in Node, Election(n)
      PROVE  Kept
  <2>1. UNCHANGED sub /\ votes \subseteq votes'
    BY <1>2 DEF Election, StartElection, CountVotes, SendVoteRequest, VoteCallFails, RequestVote,
                RequestVoteLate, HandleVote, ReceiveVote, LearnTerm, subVars, voteVars
  <2>2. QED
    BY <1>1, <2>1
<1>3. ASSUME Heartbeat
      PROVE  Kept
  <2>1. UNCHANGED sub /\ UNCHANGED votes
    BY <1>3 DEF Heartbeat, HeartbeatTick, HeartbeatLoopEnds, HeartbeatLoopStopped, DeliverHeartbeat,
                LoseHeartbeat, subVars, voteVars
  <2>2. QED
    BY <1>1, <2>1
<1>4. ASSUME NEW r \in Reading, Submission(r)
      PROVE  Kept
  <2>1. ASSUME NEW n \in Node, SubmitReading(r, n)
        PROVE  Kept
    BY <1>0, <2>1 DEF SubmitReading, Kept, Taken, MajorityAcked, voteVars
  <2>2. ASSUME NEW p \in Node, SendEntries(r, p) \/ AppendCallFails(r, p) \/ DeliverEntries(r, p)
        PROVE  Kept
    <3>1. UNCHANGED sub /\ UNCHANGED votes
      BY <2>2 DEF SendEntries, AppendCallFails, DeliverEntries, voteVars
    <3>2. QED
      BY <1>1, <3>1
  <2>3. ASSUME FinishReplication(r) \/ ApplyDone(r) \/ ApplyPick(r) \/ ApplyPush(r) \/ ApplyMark(r)
        PROVE  Kept
    <3>1. UNCHANGED votes
      BY <2>3 DEF FinishReplication, ApplyDone, ApplyPick, ApplyPush, ApplyMark, voteVars
    <3>2. \A q \in Reading : q # r => sub'[q] = sub[q]
      BY <1>0, <2>3 DEF FinishReplication, ApplyDone, ApplyPick, ApplyPush, ApplyMark
    <3>3. sub[r] \in Calls
      BY <1>0
    <3> DEFINE Acked == {"apply", "push", "mark", "ok", "halted"}
    <3>4. /\ sub'[r].node = sub[r].node /\ sub'[r].term = sub[r].term /\ sub'[r].idx = sub[r].idx
          /\ sub'[r].st \in Acked \/ (sub'[r].st = "failed" /\ sub[r].st = "replicate")
      <4>1. CASE FinishReplication(r) \/ ApplyDone(r) \/ ApplyPush(r)
        <5>1. \E z \in Acked \cup {"failed"} :
                sub'[r] = [sub[r] EXCEPT !.st = z] /\ (z = "failed" => sub[r].st = "replicate")
          BY <1>0, <4>1 DEF FinishReplication, ApplyDone, ApplyPush
        <5>2. QED
          BY <3>3, <5>1 DEF Calls
      <4>2. CASE ApplyPick(r)
        <5>1. sub'[r] = [sub[r] EXCEPT !.st = "push", !.at = lastApplied[sub[r].node] + 1,
                         !.cmd = log[sub[r].node][lastApplied[sub[r].node] + 1].cmd]
          BY <1>0, <4>2 DEF ApplyPick
        <5>2. QED
          BY <3>3, <5>1 DEF Calls
      <4>3. CASE ApplyMark(r)
        <5>1. sub'[r] = [sub[r] EXCEPT !.st = "apply", !.at = 0, !.cmd = None]
          BY <1>0, <4>3 DEF ApplyMark
        <5>2. QED
          BY <3>3, <5>1 DEF Calls
      <4>4. QED
        BY <2>3, <4>1, <4>2, <4>3
    <3>5. QED
      BY <3>1, <3>2, <3>4 DEF Kept, Taken, MajorityAcked
  <2>4. CASE ApplyPanics(r)
    BY <1>0, <2>4, RebootKeeps DEF ApplyPanics, CallsBelong
  <2>5. QED
    BY <1>4, <2>1, <2>2, <2>3, <2>4 DEF Submission
<1>5. QED
  BY <1>2, <1>3, <1>4, RebootKeeps DEF Next, Crash

\* A node elected in some term is one of EverElected.
LEMMA ElectedVoters ==
  ASSUME NEW c, NEW t, Elected(c, t)
  PROVE  c \in EverElected
<1>1. Cardinality(Voters(c, t)) # 0
  BY NodeAssumption, FS_CardinalityType, VotersFinite DEF Elected, Majority
<1>2. PICK v \in Voters(c, t) : TRUE
  BY <1>1, FS_EmptySet
<1>3. <<v, c, t>> \in {x \in votes : Elected(x[2], x[3])}
  BY <1>2 DEF Voters
<1>4. QED
  BY <1>3 DEF EverElected

LEMMA ElectedKept ==
  ASSUME votes \subseteq votes'
  PROVE  EverElected \subseteq EverElected'
<1>1. ASSUME NEW x \in votes, Elected(x[2], x[3])
      PROVE  x \in votes' /\ Elected(x[2], x[3])'
  BY <1>1, ElectedForever
<1>2. QED
  BY <1>1 DEF EverElected

\* A good entry stays good, and what was committed stays committed.
LEMMA MakersKept ==
  ASSUME Kept, NEW i, NEW r \in Makers(i)
  PROVE  r \in Makers(i)' /\ sub'[r].term = sub[r].term
<1>1. r \in Reading /\ Taken(r) /\ sub[r].idx = i /\ Elected(sub[r].node, sub[r].term)
  BY DEF Makers, SubmittedAt
<1>2. Elected(sub[r].node, sub[r].term)'
  BY <1>1, ElectedForever DEF Kept
<1>3. QED
  BY <1>1, <1>2 DEF Kept, Taken, Makers, SubmittedAt

LEMMA EntryKept ==
  ASSUME Kept, NEW e, NEW i, GoodEntry(e, i)
  PROVE  GoodEntry(e, i)'
<1>1. PICK r \in Makers(i) : e.term = sub[r].term
  BY DEF GoodEntry
<1>2. (\E q \in Makers(i) : e.term = sub[q].term)'
  BY <1>1, MakersKept
<1>3. e.cmd \in Makers(i)' \/ (e.cmd = None /\ \E q, d \in Makers(i)' : q # d)
  BY MakersKept DEF GoodEntry
<1>4. QED
  BY <1>2, <1>3 DEF GoodEntry

LEMMA GoodKept ==
  ASSUME Kept, NEW s
  PROVE  /\ GoodLog(s) => GoodLog(s)'
         /\ GoodSlots(s) => GoodSlots(s)'
BY EntryKept DEF GoodLog, GoodSlots

LEMMA CommittedKept ==
  ASSUME Kept, NEW n, NEW i, CommittedAt(n, i)
  PROVE  CommittedAt(n, i)'
<1>1. PICK r \in Reading : MajorityAcked(r) /\ sub[r].node = n /\ sub[r].idx >= i
  BY DEF CommittedAt
<1>2. MajorityAcked(r)' /\ sub'[r].node = n /\ sub'[r].idx >= i
  BY <1>1 DEF Kept, Taken, MajorityAcked
<1>3. QED
  BY <1>2 DEF CommittedAt
-------------------------------------------------------------------------------
(* What a step may do to logs, messages, commit indices and Redis.         *)

LogsMove ==
  /\ \A n \in Node : log'[n] = log[n] \/ GoodLog(log[n])'
  /\ \A m \in beats' : (\E k \in beats : m.entries = k.entries) \/ GoodSlots(m.entries)'
  /\ \A r \in Reading, p \in Node :
       rpc'[r][p].entries = rpc[r][p].entries \/ GoodSlots(rpc[r][p].entries)'

SendersMove ==
  /\ \A m \in beats' :
       \/ \E k \in beats : m.to = k.to /\ m.from = k.from /\ m.term = k.term /\ m.call = k.call
       \/ m.to # m.from /\ (m.from \in EverElected)' /\ (m.call = None => Elected(m.from, m.term)')
  /\ \A r \in Reading : Taken(r)' => Taken(r) \/ (sub[r].node \in EverElected)'
  /\ \A r \in Reading, p \in Node : rpc'[r][p].st # "none" => rpc[r][p].st # "none" \/ p # sub'[r].node
  /\ \A m \in late' : m \in late \/ m.to # m.from

CommitsMove ==
  \A n \in Node : ~wedged'[n] /\ commitIdx'[n] > 0 =>
    \/ ~wedged[n] /\ commitIdx'[n] = commitIdx[n]
    \/ CommittedAt(n, commitIdx[n])'

AppliedMove ==
  /\ \A n \in Node : redis'[n] = redis[n] \/ \E q \in Reading : Applied(n, q) /\ redis'[n] = Append(redis[n], q)
  /\ \A r \in Reading : sub'[r].st = "push" =>
       \/ sub[r].st = "push" /\ sub'[r].cmd = sub[r].cmd
       \/ sub'[r].cmd = None
       \/ sub[r].st = "apply" /\ \E q \in Reading : Applied(sub[r].node, q) /\ sub'[r].cmd = q

LEMMA LogsGoodStep == ASSUME LogsGood, Kept, LogsMove PROVE LogsGood'
<1>1. ASSUME NEW n \in Node
      PROVE  GoodLog(log[n])'
  <2>1. PICK s : s = log[n]
    OBVIOUS
  <2>2. GoodLog(s)'
    BY <2>1, GoodKept DEF LogsGood
  <2>3. CASE log'[n] = log[n]
    BY <2>1, <2>2, <2>3
  <2>4. QED
    BY <2>3 DEF LogsMove
<1>2. ASSUME NEW m \in beats'
      PROVE  GoodSlots(m.entries)'
  <2>1. ASSUME NEW k \in beats, m.entries = k.entries
        PROVE  GoodSlots(m.entries)'
    <3>1. GoodSlots(m.entries)
      BY <2>1 DEF LogsGood
    <3>2. QED
      BY <3>1, GoodKept
  <2>2. QED
    BY <2>1 DEF LogsMove
<1>3. ASSUME NEW r \in Reading, NEW p \in Node
      PROVE  GoodSlots(rpc[r][p].entries)'
  <2>1. PICK s : s = rpc[r][p].entries
    OBVIOUS
  <2>2. GoodSlots(s)'
    BY <2>1, GoodKept DEF LogsGood
  <2>3. CASE rpc'[r][p].entries = rpc[r][p].entries
    BY <2>1, <2>2, <2>3
  <2>4. QED
    BY <2>3 DEF LogsMove
<1>4. QED
  BY <1>1, <1>2, <1>3 DEF LogsGood

LEMMA SendersStep == ASSUME TypeInv, SendersElected, Kept, SendersMove PROVE SendersElected'
<1>1. ASSUME NEW m \in beats'
      PROVE  m.to # m.from /\ m.from \in EverElected' /\ (m.call = None => Elected(m.from, m.term)')
  <2>1. ASSUME NEW k \in beats, m.to = k.to, m.from = k.from, m.term = k.term, m.call = k.call
        PROVE  m.to # m.from /\ m.from \in EverElected' /\ (m.call = None => Elected(m.from, m.term)')
    <3>1. m.to # m.from /\ m.from \in EverElected /\ (m.call = None => Elected(m.from, m.term))
      BY <2>1 DEF SendersElected
    <3>2. m.from \in EverElected'
      BY <3>1, ElectedKept DEF Kept
    <3>3. m.call = None => Elected(m.from, m.term)'
      BY <3>1, ElectedForever DEF Kept
    <3>4. QED
      BY <3>1, <3>2, <3>3
  <2>2. QED
    BY <2>1 DEF SendersMove
<1>2. ASSUME NEW r \in Reading, Taken(r)'
      PROVE  sub'[r].node \in EverElected'
  <2>1. CASE Taken(r)
    BY <2>1, ElectedKept DEF SendersElected, Kept
  <2>2. QED
    BY <1>2, <2>1 DEF SendersMove
<1>3. ASSUME NEW r \in Reading, NEW p \in Node, rpc'[r][p].st # "none"
      PROVE  p # sub'[r].node
  <2>1. CASE rpc[r][p].st # "none"
    <3>1. Taken(r)
      BY <2>1 DEF TypeInv, CallsBelong, Taken
    <3>2. QED
      BY <2>1, <3>1 DEF SendersElected, Kept
  <2>2. QED
    BY <1>3, <2>1 DEF SendersMove
<1>4. \A m \in late' : m.to # m.from
  BY DEF SendersMove, SendersElected
<1>5. QED
  BY <1>1, <1>2, <1>3, <1>4 DEF SendersElected

LEMMA CommitsStep == ASSUME CommitsKnown, Kept, CommitsMove PROVE CommitsKnown'
<1>1. SUFFICES ASSUME NEW n \in Node, ~wedged'[n], commitIdx'[n] > 0
               PROVE  CommittedAt(n, commitIdx[n])'
  BY DEF CommitsKnown
<1>2. CASE ~wedged[n] /\ commitIdx'[n] = commitIdx[n]
  <2>1. CommittedAt(n, commitIdx[n])
    BY <1>1, <1>2 DEF CommitsKnown
  <2>2. \A i : i = commitIdx[n] => CommittedAt(n, i)'
    BY <2>1, CommittedKept
  <2>3. QED
    BY <1>2, <2>2
<1>3. QED
  BY <1>1, <1>2 DEF CommitsMove

LEMMA AppliedKept ==
  ASSUME Kept, NEW n, NEW q \in Reading, Applied(n, q)
  PROVE  Applied(n, q)'
<1>1. Taken(q)' /\ sub'[q].idx = sub[q].idx
  BY DEF Kept, Taken, Applied
<1>2. \A i : i = sub[q].idx => CommittedAt(n, i)'
  BY CommittedKept DEF Applied
<1>3. QED
  BY <1>1, <1>2 DEF Applied

LEMMA AppliedStep == ASSUME TypeInv, AppliedKnown, Kept, AppliedMove PROVE AppliedKnown'
<1>0. redis \in [Node -> Seq(Reading)] /\ CallsBelong
  BY DEF TypeInv, TypeOK, LogTypeOK
<1>1. ASSUME NEW n \in Node, NEW i \in DOMAIN redis'[n]
      PROVE  Applied(n, redis[n][i])'
  <2>1. ASSUME NEW q \in Reading, Applied(n, q), redis'[n][i] = q
        PROVE  Applied(n, redis[n][i])'
    BY <2>1, AppliedKept
  <2>2. ASSUME NEW j \in DOMAIN redis[n]
        PROVE  redis[n][j] \in Reading /\ Applied(n, redis[n][j])
    BY <1>0 DEF AppliedKnown
  <2>3. CASE redis'[n] = redis[n]
    BY <1>1, <2>1, <2>2, <2>3
  <2>4. ASSUME NEW q \in Reading, Applied(n, q), redis'[n] = Append(redis[n], q)
        PROVE  Applied(n, redis[n][i])'
    <3>1. redis[n] \in Seq(Reading)
      BY <1>0
    <3>2. redis'[n][i] = q \/ (i \in DOMAIN redis[n] /\ redis'[n][i] = redis[n][i])
      BY <1>1, <2>4, <3>1
    <3>3. QED
      BY <2>1, <2>2, <2>4, <3>2
  <2>5. QED
    BY <2>3, <2>4 DEF AppliedMove
<1>2. ASSUME NEW r \in Reading, sub'[r].st = "push"
      PROVE  (sub[r].cmd = None \/ Applied(sub[r].node, sub[r].cmd))'
  <2>0. SUFFICES ASSUME sub'[r].cmd # None PROVE Applied(sub[r].node, sub[r].cmd)'
    OBVIOUS
  <2>1. PICK q \in Reading : Applied(sub[r].node, q) /\ sub'[r].cmd = q /\ sub[r].st # "new"
    <3>1. sub[r].cmd # None => sub[r].cmd \in Reading
      BY DEF TypeInv, TypeOK, SubTypeOK, Calls
    <3>2. QED
      BY <1>2, <2>0, <3>1 DEF AppliedKnown, AppliedMove
  <2>2. \A k : k = sub[r].node => Applied(k, q)'
    BY <2>1, AppliedKept
  <2>3. sub'[r].node = sub[r].node
    BY <2>1 DEF Kept, Taken
  <2>4. QED
    BY <2>1, <2>2, <2>3
<1>3. QED
  BY <1>1, <1>2 DEF AppliedKnown
LogMove == LogsMove /\ SendersMove /\ CommitsMove /\ AppliedMove

LEMMA MoveStep == ASSUME TypeInv, LogInv, Kept, LogMove PROVE LogInv'
BY LogsGoodStep, SendersStep, CommitsStep, AppliedStep DEF LogInv, LogMove

LEMMA MoveFrame ==
  /\ UNCHANGED <<log, beats, rpc>> => LogsMove
  /\ UNCHANGED <<beats, sub, rpc, late>> => SendersMove
  /\ UNCHANGED <<commitIdx, wedged>> => CommitsMove
  /\ UNCHANGED <<redis, sub>> => AppliedMove
<1>1. UNCHANGED <<log, beats, rpc>> => LogsMove
  BY DEF LogsMove
<1>2. UNCHANGED <<beats, sub, rpc, late>> => SendersMove
  BY DEF SendersMove, Taken
<1>3. UNCHANGED <<commitIdx, wedged>> => CommitsMove
  BY DEF CommitsMove
<1>4. UNCHANGED <<redis, sub>> => AppliedMove
  BY DEF AppliedMove
<1>5. QED
  BY <1>1, <1>2, <1>3, <1>4

-------------------------------------------------------------------------------
(* Every action makes such a move.                                         *)

LEMMA EmptyGood == /\ GoodLog(<<>>) /\ GoodSlots(<<>>)
                   /\ GoodLog(<<>>)' /\ GoodSlots(<<>>)'
BY DEF GoodLog, GoodSlots

\* A message built from a good log has good slots.
LEMMA CapturedGood == ASSUME NEW n, GoodLog(log[n]) PROVE GoodSlots(Captured(n))
BY DEF GoodLog, GoodSlots, Captured

\* A term and a command read from good entries of one slot make a good entry, and
\* a command torn between two entries has a maker for each.
LEMMA MarshalledGood ==
  ASSUME NEW slots, GoodSlots(slots), NEW es \in Marshalled(slots)
  PROVE  GoodLog(es)
<1>1. SUFFICES ASSUME NEW i \in DOMAIN es PROVE GoodEntry(es[i], i)
  BY DEF GoodLog
<1>2. i \in DOMAIN slots /\ es[i] \in Readable(slots[i])
  BY DEF Marshalled
<1>3. \A e \in slots[i] : GoodEntry(e, i)
  BY <1>2 DEF GoodSlots
<1>4. PICK e \in slots[i] : es[i].term = e.term
  BY <1>2 DEF Readable
<1>5. \E r \in Makers(i) : es[i].term = sub[r].term
  BY <1>3, <1>4 DEF GoodEntry
<1>6. es[i].cmd \in Makers(i) \/ (es[i].cmd = None /\ \E q, r \in Makers(i) : q # r)
  <2>1. CASE \E c \in slots[i] : es[i].cmd = c.cmd
    BY <1>3, <2>1 DEF GoodEntry
  <2>2. CASE es[i].cmd = None /\ \E c, d \in slots[i] : c.cmd # d.cmd
    BY <1>3, <2>2 DEF GoodEntry
  <2>3. QED
    BY <1>2, <2>1, <2>2 DEF Readable
<1>7. QED
  BY <1>5, <1>6 DEF GoodEntry

\* Good slots stay good when a good log is written over them.
LEMMA OverwrittenGood ==
  ASSUME NEW n, NEW slots, GoodSlots(slots)', GoodLog(log[n])', NEW x, x = Overwritten(n, slots)
  PROVE  GoodSlots(x)'
<1>1. SUFFICES ASSUME NEW i \in DOMAIN x, NEW e \in x[i] PROVE GoodEntry(e, i)'
  BY DEF GoodSlots
<1>2. i \in DOMAIN slots /\ x[i] = slots[i] \cup {log'[n][j] : j \in DOMAIN log'[n] \cap {i}}
  BY DEF Overwritten
<1>3. CASE e \in slots[i]
  BY <1>2, <1>3 DEF GoodSlots
<1>4. CASE e = log'[n][i] /\ i \in DOMAIN log'[n]
  BY <1>4 DEF GoodLog
<1>5. QED
  BY <1>2, <1>3, <1>4

LEMMA BeatsOfGood ==
  ASSUME TypeInv, LogsGood, Kept, NEW n, GoodLog(log[n])', NEW messages \in SUBSET beats,
         NEW m \in BeatsOf(n, messages)
  PROVE  /\ GoodSlots(m.entries)'
         /\ \E k \in beats : m.to = k.to /\ m.from = k.from /\ m.term = k.term /\ m.call = k.call
<1>1. PICK k \in messages : m = IF k.from = n /\ k.live THEN [k EXCEPT !.entries = Overwritten(n, @)] ELSE k
  BY DEF BeatsOf
<1>2. k \in Requests /\ GoodSlots(k.entries)
  BY DEF TypeInv, TypeOK, BeatTypeOK, LogsGood
<1>3. GoodSlots(k.entries)'
  BY <1>2, GoodKept
<1>4. CASE m = k
  BY <1>3, <1>4
<1>5. CASE m = [k EXCEPT !.entries = Overwritten(n, k.entries)]
  <2>1. /\ m.entries = Overwritten(n, k.entries)
        /\ m.to = k.to /\ m.from = k.from /\ m.term = k.term /\ m.call = k.call
    BY <1>2, <1>5 DEF Requests
  <2>2. PICK x : x = m.entries
    OBVIOUS
  <2>3. GoodSlots(x)'
    BY <1>3, <2>1, <2>2, OverwrittenGood
  <2>4. QED
    BY <2>1, <2>2, <2>3
<1>6. QED
  BY <1>1, <1>4, <1>5

LEMMA RpcsOfGood ==
  ASSUME TypeInv, LogsGood, Kept, NEW n, GoodLog(log[n])', NEW r \in Reading, NEW p \in Node,
         NEW x, x = RpcsOf(n)[r][p].entries
  PROVE  GoodSlots(x)' /\ RpcsOf(n)[r][p].st = rpc[r][p].st
<1>1. rpc[r] \in [Node -> Rpcs] /\ rpc[r][p] \in Rpcs
  BY DEF TypeInv, TypeOK, SubTypeOK
<1>2. PICK s : s = rpc[r][p].entries
  OBVIOUS
<1>3. GoodSlots(s)'
  BY <1>2, GoodKept DEF LogsGood
<1>4. CASE sub[r].node # n
  <2>1. RpcsOf(n)[r][p] = rpc[r][p]
    BY <1>4 DEF RpcsOf
  <2>2. QED
    BY <1>2, <1>3, <2>1
<1>5. CASE sub[r].node = n
  <2>1. RpcsOf(n)[r][p] = [rpc[r][p] EXCEPT !.entries = Overwritten(n, @)]
    BY <1>5 DEF RpcsOf
  <2>2. x = Overwritten(n, s) /\ RpcsOf(n)[r][p].st = rpc[r][p].st
    BY <1>1, <1>2, <2>1 DEF Rpcs
  <2>3. QED
    BY <1>3, <2>2, OverwrittenGood
<1>6. QED
  BY <1>4, <1>5

\* AppendEntries at n takes the entries of the message for its log, and learns
\* of a commit only at the price of its lock.
LEMMA AcceptMoves ==
  ASSUME TypeInv, NEW n \in Node, NEW m, AcceptEntries(n, m), GoodLog(m.entries)'
  PROVE  /\ \A k \in Node : log'[k] = log[k] \/ GoodLog(log[k])'
         /\ GoodLog(log[n])'
         /\ CommitsMove
<1>0. LogTypeOK /\ wedged \in [Node -> BOOLEAN]
  BY DEF TypeInv, TypeOK
<1>1. /\ log' = [log EXCEPT ![n] = m.entries]
      /\ wedged' = [wedged EXCEPT ![n] = Commits(n, m)]
      /\ ~Commits(n, m) => commitIdx' = commitIdx
      /\ \A k \in Node : k # n => commitIdx'[k] = commitIdx[k]
      /\ ~wedged[n]
  BY <1>0 DEF AcceptEntries, LogTypeOK
<1>2. log'[n] = m.entries /\ \A k \in Node : k # n => log'[k] = log[k]
  BY <1>0, <1>1 DEF LogTypeOK
<1>3. GoodLog(log[n])'
  BY <1>2 DEF GoodLog
<1>4. CommitsMove
  BY <1>0, <1>1 DEF CommitsMove
<1>5. QED
  BY <1>2, <1>3, <1>4

LEMMA ElectionMoves == ASSUME TypeInv, NEW n \in Node, Election(n) PROVE LogMove
<1>1. UNCHANGED <<log, beats, rpc, sub, commitIdx, wedged, redis>>
  BY DEF Election, StartElection, CountVotes, SendVoteRequest, VoteCallFails, RequestVote, RequestVoteLate,
         HandleVote, ReceiveVote, LearnTerm, subVars, logVars, beatVars
<1>2. \A m \in late' : m \in late \/ m.to # m.from
  <2>1. ASSUME NEW p \in Peers(n), VoteCallFails(n, p)
        PROVE  \A m \in late' : m \in late \/ m.to # m.from
    BY <2>1 DEF VoteCallFails, StayOnTheirWay, VoteCall, Peers
  <2>2. QED
    BY <2>1 DEF Election, StartElection, CountVotes, SendVoteRequest, RequestVote, RequestVoteLate,
                ReceiveVote, LearnTerm
<1>3. SendersMove
  BY <1>1, <1>2 DEF SendersMove, Taken
<1>4. QED
  BY <1>1, <1>3, MoveFrame DEF LogMove

LEMMA TickMoves ==
  ASSUME TypeInv, LeaderWasElected, LogInv, Kept, NEW n \in Node, HeartbeatTick(n)
  PROVE  LogMove
<1>0. LogTypeOK /\ VoteTypeOK
  BY DEF TypeInv, TypeOK
<1>1. UNCHANGED <<log, votes, sub, rpc, commitIdx, wedged, redis, late>>
  BY DEF HeartbeatTick, logVars, subVars, voteVars, electVars
<1>2. PICK s, t : s = Captured(n) /\ t = term[n]
  OBVIOUS
<1>3. ASSUME NEW m \in beats', m \notin beats
      PROVE  m.from = n /\ m.to # n /\ m.term = t /\ m.entries = s
  <2>1. beats' = beats \cup {[tick |-> ticks, call |-> None, live |-> TRUE, from |-> n, to |-> p,
                             term |-> term[n], entries |-> Captured(n),
                             commit |-> commitIdx[n]] : p \in Peers(n)}
    BY Zenon DEF HeartbeatTick
  <2>2. PICK p \in Peers(n) : m = [tick |-> ticks, call |-> None, live |-> TRUE, from |-> n, to |-> p,
                                   term |-> term[n], entries |-> Captured(n), commit |-> commitIdx[n]]
    BY <1>3, <2>1, Zenon
  <2>3. QED
    BY <1>2, <2>2 DEF Peers
<1>4. GoodSlots(s)'
  <2>1. GoodSlots(s)
    BY <1>2, CapturedGood DEF LogInv, LogsGood
  <2>2. QED
    BY <2>1, GoodKept
<1>5. Elected(n, t)'
  <2>1. Elected(n, t)
    BY <1>2 DEF HeartbeatTick, StillLeader, LeaderWasElected
  <2>2. QED
    BY <2>1, ElectedForever DEF Kept
<1>6. n \in EverElected'
  <2>1. Elected(n, t)
    BY <1>2 DEF HeartbeatTick, StillLeader, LeaderWasElected
  <2>2. n \in EverElected
    BY <2>1, ElectedVoters
  <2>3. QED
    BY <2>2, ElectedKept DEF Kept
<1>7. LogsMove
  BY <1>1, <1>3, <1>4 DEF LogsMove
<1>8. SendersMove
  BY <1>1, <1>3, <1>5, <1>6 DEF SendersMove, Taken
<1>9. QED
  BY <1>1, <1>7, <1>8, MoveFrame DEF LogMove

LEMMA HeartbeatMoves == ASSUME TypeInv, LeaderWasElected, LogInv, Heartbeat, Kept PROVE LogMove
<1>1. ASSUME NEW n \in Node, HeartbeatLoopEnds(n) \/ HeartbeatLoopStopped(n)
      PROVE  LogMove
  <2>1. UNCHANGED <<log, beats, rpc, sub, commitIdx, wedged, redis, late>>
    BY <1>1 DEF HeartbeatLoopEnds, HeartbeatLoopStopped, logVars, subVars, electVars
  <2>2. QED
    BY <2>1, MoveFrame DEF LogMove
<1>2. ASSUME NEW m \in beats, LoseHeartbeat(m)
      PROVE  LogMove
  <2>1. UNCHANGED <<log, rpc, sub, commitIdx, wedged, redis, late>> /\ beats' \subseteq beats
    BY <1>2 DEF LoseHeartbeat, logVars, subVars, electVars
  <2>2. LogsMove /\ SendersMove
    BY <2>1 DEF LogsMove, SendersMove, Taken
  <2>3. QED
    BY <2>1, <2>2, MoveFrame DEF LogMove
<1>3. ASSUME NEW m \in beats, DeliverHeartbeat(m)
      PROVE  LogMove
  <2>0. m \in Requests /\ m.to \in Node
    BY DEF TypeInv, TypeOK, BeatTypeOK, Requests
  <2>1. UNCHANGED <<sub, redis, late>>
    BY <1>3 DEF DeliverHeartbeat, electVars
  <2>2. AppliedMove
    BY <2>1, MoveFrame
  <2>3. ASSUME NEW es \in Marshalled(m.entries), AcceptEntries(m.to, [m EXCEPT !.entries = es]),
               beats' = BeatsOf(m.to, beats \ {m}), rpc' = RpcsOf(m.to)
        PROVE  LogsMove /\ SendersMove /\ CommitsMove
    <3>1. GoodLog(es)
      BY MarshalledGood DEF LogInv, LogsGood
    <3>2. DEFINE b == [m EXCEPT !.entries = es]
    <3>3. b.entries = es
      BY <2>0 DEF Requests
    <3>4. AcceptEntries(m.to, b)
      BY <2>3
    <3> HIDE DEF b
    <3>5. GoodLog(es)'
      BY <3>1, GoodKept
    <3>6. GoodLog(b.entries)'
      BY <3>3, <3>5
    <3>7. /\ \A k \in Node : log'[k] = log[k] \/ GoodLog(log[k])'
          /\ GoodLog(log[m.to])' /\ CommitsMove
      BY <2>0, <3>4, <3>6, AcceptMoves
    <3>8. LogsGood
      BY DEF LogInv
    <3>9. ASSUME NEW k \in beats'
          PROVE  /\ GoodSlots(k.entries)'
                 /\ \E h \in beats : k.to = h.to /\ k.from = h.from /\ k.term = h.term /\ k.call = h.call
      BY <2>3, <3>7, <3>8, BeatsOfGood
    <3>10. ASSUME NEW r \in Reading, NEW p \in Node
           PROVE  GoodSlots(rpc[r][p].entries)' /\ rpc'[r][p].st = rpc[r][p].st
      <4>1. PICK x : x = rpc'[r][p].entries
        OBVIOUS
      <4>2. GoodSlots(x)' /\ rpc'[r][p].st = rpc[r][p].st
        BY <2>3, <3>7, <3>8, <4>1, RpcsOfGood
      <4>3. QED
        BY <4>1, <4>2
    <3>11. LogsMove
      BY <3>7, <3>9, <3>10 DEF LogsMove
    <3>12. SendersMove
      BY <2>1, <3>9, <3>10 DEF SendersMove, Taken
    <3>13. QED
      BY <3>7, <3>11, <3>12
  <2>4. CASE UNCHANGED <<log, commitIdx, wedged, rpc>> /\ beats' \subseteq beats
    <3>1. LogsMove /\ SendersMove
      BY <2>1, <2>4 DEF LogsMove, SendersMove, Taken
    <3>2. QED
      BY <2>2, <2>4, <3>1, MoveFrame DEF LogMove
  <2>5. QED
    BY <1>3, <2>2, <2>3, <2>4 DEF DeliverHeartbeat, LogMove
<1>4. QED
  BY <1>1, <1>2, <1>3, TickMoves DEF Heartbeat

LEMMA SubmitMoves ==
  ASSUME TypeInv, LeaderWasElected, LogInv, Kept, NEW r \in Reading, NEW p \in Node, SubmitReading(r, p)
  PROVE  LogMove
<1>0. LogTypeOK /\ SubTypeOK /\ CallsBelong /\ VoteTypeOK /\ LogsGood
  BY DEF TypeInv, TypeOK, LogInv
<1>1. PICK s \in Seq(Entry), t \in Nat : s = log[p] /\ t = term[p]
  BY <1>0 DEF LogTypeOK, VoteTypeOK
<1>2. /\ UNCHANGED <<commitIdx, wedged, redis, votes, late>>
      /\ log' = [log EXCEPT ![p] = Append(s, [term |-> t, cmd |-> r])]
      /\ sub'[r].st = "replicate" /\ sub'[r].node = p /\ sub'[r].term = t /\ sub'[r].idx = Len(s) + 1
      /\ \A q \in Reading : q # r => sub'[q] = sub[q]
      /\ beats' = BeatsOf(p, beats)
  BY <1>0, <1>1 DEF SubmitReading, electVars, voteVars, SubTypeOK, NewCall
<1>3. ASSUME NEW q \in Reading, NEW k \in Node
      PROVE  \/ q # r /\ rpc'[q][k] = RpcsOf(p)[q][k]
             \/ q = r /\ rpc'[q][k].entries = <<>> /\ (rpc'[q][k].st # "none" => k # p)
  <2>1. DOMAIN RpcsOf(p) = Reading
    BY DEF RpcsOf
  <2>2. rpc' = [RpcsOf(p) EXCEPT ![r] = [k2 \in Node |-> IF k2 = p THEN NoRpc ELSE [NoRpc EXCEPT !.st = "dial"]]]
    BY DEF SubmitReading
  <2>3. CASE q # r
    BY <2>1, <2>2, <2>3
  <2>4. CASE q = r
    <3>1. rpc'[q][k] = IF k = p THEN NoRpc ELSE [NoRpc EXCEPT !.st = "dial"]
      BY <2>1, <2>2, <2>4
    <3>2. QED
      BY <2>4, <3>1 DEF NoRpc
  <2>5. QED
    BY <2>3, <2>4
<1>4. Elected(p, t) /\ Elected(p, t)' /\ p \in EverElected'
  <2>1. Elected(p, t)
    BY <1>1 DEF SubmitReading, MaySubmit, LeaderWasElected
  <2>2. p \in EverElected
    BY <2>1, ElectedVoters
  <2>3. QED
    BY <2>1, <2>2, ElectedForever, ElectedKept DEF Kept
<1>5. GoodLog(log[p])'
  <2>1. GoodLog(s)'
    BY <1>1, GoodKept DEF LogInv, LogsGood
  <2>2. log'[p] = Append(s, [term |-> t, cmd |-> r])
    BY <1>0, <1>2 DEF LogTypeOK
  <2>3. ASSUME NEW i \in DOMAIN log'[p]
        PROVE  GoodEntry(log[p][i], i)'
    <3>1. CASE i \in DOMAIN s
      BY <1>1, <2>1, <2>2, <3>1 DEF GoodLog
    <3>2. CASE i = Len(s) + 1
      <4>1. log'[p][i] = [term |-> t, cmd |-> r]
        BY <1>1, <2>2, <3>2
      <4>2. log'[p][i].term = t /\ log'[p][i].cmd = r
        BY <4>1
      <4>3. r \in Makers(i)'
        BY <1>2, <1>4, <3>2 DEF Makers, SubmittedAt, Taken
      <4>4. QED
        BY <1>2, <4>2, <4>3 DEF GoodEntry
    <3>3. QED
      BY <1>1, <2>2, <3>1, <3>2
  <2>4. QED
    BY <2>3 DEF GoodLog
<1>6. ASSUME NEW q \in Reading, NEW k \in Node
      PROVE  GoodSlots(rpc[q][k].entries)'
  <2>1. PICK x : x = rpc'[q][k].entries
    OBVIOUS
  <2>2. CASE x = <<>>
    BY <2>1, <2>2, EmptyGood
  <2>3. CASE rpc'[q][k] = RpcsOf(p)[q][k]
    <3>1. GoodSlots(x)'
      BY <1>0, <1>5, <2>1, <2>3, RpcsOfGood
    <3>2. QED
      BY <2>1, <3>1
  <2>4. QED
    BY <1>3, <2>1, <2>2, <2>3
<1>7. ASSUME NEW m \in beats'
      PROVE  /\ GoodSlots(m.entries)'
             /\ \E k \in beats : m.to = k.to /\ m.from = k.from /\ m.term = k.term /\ m.call = k.call
  BY <1>0, <1>2, <1>5, BeatsOfGood
<1>8. LogsMove
  <2>1. \A k \in Node : k # p => log'[k] = log[k]
    BY <1>0, <1>2 DEF LogTypeOK
  <2>2. QED
    BY <1>5, <1>6, <1>7, <2>1 DEF LogsMove
<1>9. SendersMove
  <2>1. ASSUME NEW q \in Reading, NEW k \in Node, rpc'[q][k].st # "none"
        PROVE  rpc[q][k].st # "none" \/ k # sub'[q].node
    <3>1. PICK x : x = RpcsOf(p)[q][k].entries
      OBVIOUS
    <3>2. RpcsOf(p)[q][k].st = rpc[q][k].st
      BY <1>0, <1>5, <3>1, RpcsOfGood
    <3>3. QED
      BY <1>2, <1>3, <2>1, <3>2
  <2>2. QED
    BY <1>2, <1>4, <1>7, <2>1 DEF SendersMove, Taken
<1>10. CommitsMove /\ AppliedMove
  BY <1>2, MoveFrame DEF AppliedMove
<1>11. QED
  BY <1>8, <1>9, <1>10 DEF LogMove

LEMMA SendMoves ==
  ASSUME TypeInv, LogInv, Kept, NEW r \in Reading, NEW p \in Node, SendEntries(r, p)
  PROVE  LogMove
<1>0. SubTypeOK /\ CallsBelong
  BY DEF TypeInv, TypeOK
<1>1. /\ UNCHANGED <<log, beats, commitIdx, wedged, redis, sub, late>>
      /\ rpc[r][p].st # "none"
      /\ \A q \in Reading, k \in Node : <<q, k>> # <<r, p>> => rpc'[q][k] = rpc[q][k]
  BY <1>0 DEF SendEntries, logVars, beatVars, electVars, SubTypeOK
<1>2. PICK s : s = Captured(sub[r].node)
  OBVIOUS
<1>3. rpc'[r][p].entries = s
  BY <1>0, <1>2 DEF SendEntries, SubTypeOK
<1>4. GoodSlots(s)'
  <2>1. GoodLog(log[sub[r].node])
    BY <1>0, <1>1 DEF CallsBelong, LogInv, LogsGood
  <2>2. GoodSlots(s)
    BY <1>2, <2>1, CapturedGood
  <2>3. QED
    BY <2>2, GoodKept
<1>5. LogsMove
  BY <1>1, <1>3, <1>4 DEF LogsMove
<1>6. SendersMove
  BY <1>1 DEF SendersMove, Taken
<1>7. QED
  BY <1>1, <1>5, <1>6, MoveFrame DEF LogMove

\* The request of a call is good, and comes from an elected node.
LEMMA AppendCallGood ==
  ASSUME TypeInv, LogInv, Kept, NEW r \in Reading, NEW p \in Node, rpc[r][p].st # "none",
         NEW m, m = AppendCall(r, p)
  PROVE  GoodSlots(m.entries)' /\ m.to # m.from /\ m.from \in EverElected' /\ m.call # None
<1>1. Taken(r)
  BY DEF TypeInv, CallsBelong, Taken
<1>2. /\ m.entries = rpc[r][p].entries /\ m.to = p /\ m.from = sub[r].node /\ m.call = r
  BY DEF AppendCall
<1>3. GoodSlots(m.entries)
  BY <1>2 DEF LogInv, LogsGood
<1>4. m.to # m.from /\ m.from \in EverElected
  BY <1>1, <1>2 DEF LogInv, SendersElected
<1>5. QED
  BY <1>2, <1>3, <1>4, GoodKept, ElectedKept, ReadingAssumption DEF Kept

LEMMA CallFailsMoves ==
  ASSUME TypeInv, LogInv, Kept, NEW r \in Reading, NEW p \in Node, AppendCallFails(r, p)
  PROVE  LogMove
<1>0. SubTypeOK /\ CallsBelong
  BY DEF TypeInv, TypeOK
<1>1. /\ UNCHANGED <<log, commitIdx, wedged, redis, sub, late>>
      /\ rpc[r][p].st # "none" /\ rpc'[r][p].entries = <<>>
      /\ \A q \in Reading, k \in Node : <<q, k>> # <<r, p>> => rpc'[q][k] = rpc[q][k]
  BY <1>0 DEF AppendCallFails, logVars, electVars, SubTypeOK, NoRpc
<1>2. \A m \in beats' : m \in beats \/ m = AppendCall(r, p)
  BY DEF AppendCallFails, StayInFlight
<1>3. LogsMove
  BY <1>1, <1>2, AppendCallGood, EmptyGood DEF LogsMove
<1>4. SendersMove
  BY <1>1, <1>2, AppendCallGood DEF SendersMove, Taken
<1>5. QED
  BY <1>1, <1>3, <1>4, MoveFrame DEF LogMove

LEMMA DeliverMoves ==
  ASSUME TypeInv, LogInv, Kept, NEW r \in Reading, NEW p \in Node, DeliverEntries(r, p)
  PROVE  LogMove
<1>0. SubTypeOK /\ CallsBelong /\ LogsGood
  BY DEF TypeInv, TypeOK, LogInv
<1>1. UNCHANGED <<sub, redis, late>> /\ rpc[r][p].st # "none"
  BY DEF DeliverEntries, electVars
<1>2. AppliedMove
  BY <1>1, MoveFrame
<1>3. PICK m : m = AppendCall(r, p)
  OBVIOUS
<1>4. ASSUME NEW es \in Marshalled(m.entries), AcceptEntries(p, [m EXCEPT !.entries = es]),
             beats' = BeatsOf(p, beats),
             NEW s, rpc' = [RpcsOf(p) EXCEPT ![r][p] = [NoRpc EXCEPT !.st = s]]
      PROVE  LogsMove /\ SendersMove /\ CommitsMove
  <2>1. GoodLog(es)
    <3>1. m.entries = rpc[r][p].entries
      BY <1>3 DEF AppendCall
    <3>2. QED
      BY <1>0, <1>4, <3>1, MarshalledGood DEF LogsGood
  <2>2. DEFINE b == [m EXCEPT !.entries = es]
  <2>3. b.entries = es /\ AcceptEntries(p, b)
    BY <1>3, <1>4 DEF AppendCall
  <2> HIDE DEF b
  <2>4. GoodLog(es)'
    BY <2>1, GoodKept
  <2>5. GoodLog(b.entries)'
    BY <2>3, <2>4
  <2>6. /\ \A k \in Node : log'[k] = log[k] \/ GoodLog(log[k])'
        /\ GoodLog(log[p])' /\ CommitsMove
    BY <2>3, <2>5, AcceptMoves
  <2>7. ASSUME NEW k \in beats'
        PROVE  /\ GoodSlots(k.entries)'
               /\ \E h \in beats : k.to = h.to /\ k.from = h.from /\ k.term = h.term /\ k.call = h.call
    BY <1>0, <1>4, <2>6, BeatsOfGood
  <2>8. ASSUME NEW q \in Reading, NEW k \in Node
        PROVE  rpc'[q][k] = RpcsOf(p)[q][k] \/ (q = r /\ k = p /\ rpc'[q][k].entries = <<>>)
    <3>1. DOMAIN RpcsOf(p) = Reading /\ DOMAIN RpcsOf(p)[r] = Node
      BY <1>0 DEF RpcsOf, SubTypeOK
    <3>2. CASE q = r /\ k = p
      BY <1>4, <3>1, <3>2 DEF NoRpc
    <3>3. CASE <<q, k>> # <<r, p>>
      BY <1>4, <3>1, <3>3
    <3>4. QED
      BY <3>2, <3>3
  <2>9. ASSUME NEW q \in Reading, NEW k \in Node
        PROVE  GoodSlots(rpc[q][k].entries)' /\ (rpc'[q][k].st # "none" => rpc[q][k].st # "none")
    <3>1. PICK x : x = rpc'[q][k].entries
      OBVIOUS
    <3>2. CASE rpc'[q][k] = RpcsOf(p)[q][k]
      <4>1. GoodSlots(x)' /\ RpcsOf(p)[q][k].st = rpc[q][k].st
        BY <1>0, <2>6, <3>1, <3>2, RpcsOfGood
      <4>2. QED
        BY <3>1, <3>2, <4>1
    <3>3. CASE q = r /\ k = p /\ x = <<>>
      BY <1>1, <3>1, <3>3, EmptyGood
    <3>4. QED
      BY <2>8, <3>1, <3>2, <3>3
  <2>10. LogsMove
    BY <2>6, <2>7, <2>9 DEF LogsMove
  <2>11. SendersMove
    BY <1>1, <2>7, <2>9 DEF SendersMove, Taken
  <2>12. QED
    BY <2>6, <2>10, <2>11
<1>5. CASE /\ UNCHANGED <<log, commitIdx, wedged, beats>>
           /\ rpc' = [rpc EXCEPT ![r][p] = [NoRpc EXCEPT !.st = "failed"]]
  <2>1. /\ rpc'[r][p].entries = <<>>
        /\ \A q \in Reading, k \in Node : <<q, k>> # <<r, p>> => rpc'[q][k] = rpc[q][k]
    BY <1>0, <1>5 DEF SubTypeOK, NoRpc
  <2>2. LogsMove /\ SendersMove
    BY <1>1, <1>5, <2>1, EmptyGood DEF LogsMove, SendersMove, Taken
  <2>3. QED
    BY <1>2, <1>5, <2>2, MoveFrame DEF LogMove
<1>6. QED
  BY <1>2, <1>3, <1>4, <1>5 DEF DeliverEntries, LogMove

LEMMA ReplicationMoves ==
  ASSUME TypeInv, LeaderWasElected, LogInv, Kept, NEW r \in Reading, NEW p \in Node,
         SubmitReading(r, p) \/ SendEntries(r, p) \/ AppendCallFails(r, p) \/ DeliverEntries(r, p)
  PROVE  LogMove
BY SubmitMoves, SendMoves, CallFailsMoves, DeliverMoves

LEMMA ApplicationMoves ==
  ASSUME TypeInv, LogInv, Kept, NEW r \in Reading,
         FinishReplication(r) \/ ApplyDone(r) \/ ApplyPick(r) \/ ApplyPush(r) \/ ApplyMark(r)
  PROVE  LogMove
<1>0. LogTypeOK /\ SubTypeOK /\ CallsBelong /\ sub[r] \in Calls
  BY DEF TypeInv, TypeOK, SubTypeOK
<1>1. Taken(r) /\ sub[r].node \in Node
  BY <1>0 DEF Taken, CallsBelong, FinishReplication, ApplyDone, ApplyPick, ApplyPush, ApplyMark
<1>2. LogsMove /\ SendersMove
  <2>1. UNCHANGED <<log, beats, late>> /\ \A q \in Reading : q # r => sub'[q] = sub[q]
    BY <1>0 DEF FinishReplication, ApplyDone, ApplyPick, ApplyPush, ApplyMark, beatVars, logVars, electVars,
                SubTypeOK
  <2>2. \A q \in Reading, k \in Node : rpc'[q][k] = rpc[q][k] \/ rpc'[q][k] = NoRpc
    BY <1>0 DEF FinishReplication, ApplyDone, ApplyPick, ApplyPush, ApplyMark, SubTypeOK
  <2>3. LogsMove
    BY <2>1, <2>2 DEF LogsMove, GoodSlots, NoRpc
  <2>4. SendersMove
    BY <1>1, <2>1, <2>2 DEF SendersMove, Taken, NoRpc
  <2>5. QED
    BY <2>3, <2>4
<1>3. CASE FinishReplication(r)
  <2>1. /\ UNCHANGED <<redis, wedged>> /\ sub'[r].st # "push"
        /\ \A q \in Reading : q # r => sub'[q] = sub[q]
        /\ sub'[r].node = sub[r].node /\ sub'[r].idx = sub[r].idx
        /\ \A n \in Node : \/ commitIdx'[n] = commitIdx[n]
                           \/ n = sub[r].node /\ commitIdx'[n] = sub[r].idx /\ sub'[r].st = "apply"
    BY <1>0, <1>1, <1>3 DEF FinishReplication, SubTypeOK, LogTypeOK, Calls
  <2>2. CommitsMove
    <3>1. SUFFICES ASSUME NEW n \in Node, n = sub'[r].node, commitIdx'[n] = sub'[r].idx, sub'[r].st = "apply"
                   PROVE  CommittedAt(n, commitIdx[n])'
      BY <2>1 DEF CommitsMove
    <3>2. sub'[r].idx \in Nat
      BY <1>0, <2>1 DEF Calls
    <3>3. QED
      BY <3>1, <3>2 DEF CommittedAt, MajorityAcked
  <2>3. AppliedMove
    BY <2>1 DEF AppliedMove
  <2>4. QED
    BY <1>2, <2>2, <2>3 DEF LogMove
<1>4. CASE ApplyDone(r) \/ ApplyMark(r)
  <2>1. /\ UNCHANGED <<redis, wedged, commitIdx>>
        /\ \A q \in Reading : q # r => sub'[q] = sub[q]
    BY <1>0, <1>4 DEF ApplyDone, ApplyMark, logVars, SubTypeOK
  <2>2. sub'[r].st # "push"
    <3>1. CASE ApplyDone(r)
      BY <1>0, <3>1 DEF ApplyDone, SubTypeOK, Calls
    <3>2. CASE ApplyMark(r)
      <4>1. sub'[r] = [sub[r] EXCEPT !.st = "apply", !.at = 0, !.cmd = None]
        BY <1>0, <3>2 DEF ApplyMark, SubTypeOK
      <4>2. QED
        BY <1>0, <4>1 DEF Calls
    <3>3. QED
      BY <1>4, <3>1, <3>2
  <2>3. AppliedMove
    BY <2>1, <2>2 DEF AppliedMove
  <2>4. QED
    BY <1>2, <2>1, <2>3, MoveFrame DEF LogMove
<1>5. CASE ApplyPick(r)
  <2>1. PICK n \in Node, i \in Nat : n = sub[r].node /\ i = lastApplied[n] + 1
    BY <1>0, <1>1 DEF LogTypeOK
  <2>2. /\ UNCHANGED <<redis, wedged, commitIdx>> /\ sub[r].st = "apply" /\ ~wedged[n]
        /\ i <= commitIdx[n] /\ i \in DOMAIN log[n] /\ i > 0
    BY <1>0, <1>5, <2>1 DEF ApplyPick, MoreToApply, logVars, LogTypeOK
  <2>3. PICK q : q = log[n][i].cmd
    OBVIOUS
  <2>4. q = None \/ (q \in Reading /\ Applied(n, q))
    <3>1. SUFFICES ASSUME q # None PROVE q \in Reading /\ Applied(n, q)
      OBVIOUS
    <3>2. q \in Reading /\ Taken(q) /\ sub[q].idx = i
      BY <2>2, <2>3, <3>1 DEF LogInv, LogsGood, GoodLog, GoodEntry, Makers, SubmittedAt
    <3>3. CommittedAt(n, commitIdx[n]) /\ commitIdx[n] \in Nat
      BY <1>0, <2>1, <2>2 DEF LogInv, CommitsKnown, LogTypeOK
    <3>4. PICK c \in Reading : MajorityAcked(c) /\ sub[c].node = n /\ sub[c].idx >= commitIdx[n]
      BY <3>3 DEF CommittedAt
    <3>5. sub[c].idx >= i
      BY <1>0, <2>1, <2>2, <3>3, <3>4 DEF SubTypeOK, Calls
    <3>6. QED
      BY <3>2, <3>4, <3>5 DEF Applied, CommittedAt
  <2>5. AppliedMove
    <3>1. sub' = [sub EXCEPT ![r] = [@ EXCEPT !.st = "push", !.at = i, !.cmd = q]]
      BY <1>5, <2>1, <2>3 DEF ApplyPick
    <3>2. sub'[r].cmd = q /\ \A k \in Reading : k # r => sub'[k] = sub[k]
      BY <1>0, <3>1 DEF SubTypeOK, Calls
    <3>3. QED
      BY <2>1, <2>2, <2>4, <3>2 DEF AppliedMove
  <2>6. QED
    BY <1>2, <2>2, <2>5, MoveFrame DEF LogMove
<1>6. CASE ApplyPush(r)
  <2>1. PICK n \in Node, q \in Reading \cup {None} : n = sub[r].node /\ q = sub[r].cmd
    BY <1>0, <1>1 DEF SubTypeOK, Calls
  <2>2. q = None \/ (q \in Reading /\ Applied(n, q))
    BY <1>0, <1>6, <2>1 DEF ApplyPush, LogInv, AppliedKnown, Calls
  <2>3. /\ UNCHANGED <<wedged, commitIdx>>
        /\ redis' = redis \/ (redis' = [redis EXCEPT ![n] = Append(@, q)] /\ q # None)
        /\ sub' = [sub EXCEPT ![r].st = "mark"]
    BY <1>6, <2>1 DEF ApplyPush
  <2>4. sub'[r].st # "push" /\ \A k \in Reading : k # r => sub'[k] = sub[k]
    BY <1>0, <2>3 DEF SubTypeOK, Calls
  <2>5. AppliedMove
    BY <1>0, <2>2, <2>3, <2>4 DEF AppliedMove, LogTypeOK
  <2>6. QED
    BY <1>2, <2>3, <2>5, MoveFrame DEF LogMove
<1>7. QED
  BY <1>3, <1>4, <1>5, <1>6

LEMMA RebootMoves == ASSUME TypeInv, LogInv, Kept, NEW n \in Node, Reboot(n) PROVE LogMove
<1>0. LogTypeOK /\ SubTypeOK /\ CallsBelong /\ beats \subseteq Requests /\ wedged \in [Node -> BOOLEAN]
  BY DEF TypeInv, TypeOK, BeatTypeOK
<1>1. /\ redis' = redis
      /\ log' = [log EXCEPT ![n] = <<>>]
      /\ commitIdx' = [commitIdx EXCEPT ![n] = 0]
      /\ wedged' = [wedged EXCEPT ![n] = FALSE]
  BY DEF Reboot
<1>2. ASSUME NEW r \in Reading
      PROVE  /\ sub'[r].st = sub[r].st \/ (sub'[r].st \in {"lost", "halted"} /\ sub[r].st # "new")
             /\ sub'[r].cmd = sub[r].cmd /\ sub'[r].node = sub[r].node
  BY <1>0 DEF Reboot, Active, SubTypeOK, Calls
<1>3. ASSUME NEW r \in Reading, NEW p \in Node
      PROVE  /\ rpc'[r][p].entries = rpc[r][p].entries \/ rpc'[r][p].entries = <<>>
             /\ rpc'[r][p].st # "none" => rpc[r][p].st # "none"
  <2>1. rpc[r] \in [Node -> Rpcs] /\ rpc[r][p] \in Rpcs
    BY <1>0 DEF SubTypeOK
  <2>2. rpc'[r][p] = NoRpc \/ rpc'[r][p] = rpc[r][p]
        \/ (rpc[r][p].st = "hung" /\ rpc'[r][p] = [rpc[r][p] EXCEPT !.st = "failed"])
    BY <1>0, <2>1 DEF Reboot
  <2>3. CASE rpc'[r][p] = NoRpc \/ rpc'[r][p] = rpc[r][p]
    BY <2>3 DEF NoRpc
  <2>4. CASE rpc[r][p].st = "hung" /\ rpc'[r][p] = [rpc[r][p] EXCEPT !.st = "failed"]
    BY <2>1, <2>4 DEF Rpcs
  <2>5. QED
    BY <2>2, <2>3, <2>4
<1>4. ASSUME NEW m \in beats'
      PROVE  \/ \E k \in beats : /\ m.to = k.to /\ m.from = k.from /\ m.term = k.term /\ m.call = k.call
                                 /\ m.entries = k.entries
             \/ \E r \in Reading, p \in Node : rpc[r][p].st # "none" /\ m = AppendCall(r, p)
  <2>1. \/ m \in {IF k.from = n THEN [k EXCEPT !.live = FALSE] ELSE k : k \in beats}
        \/ m \in {AppendCall(c[1], c[2]) :
                   c \in {d \in Reading \X Node : sub[d[1]].node = n /\ rpc[d[1]][d[2]].st = "sent"}}
    BY DEF Reboot, StayInFlight
  <2>2. CASE m \in {IF k.from = n THEN [k EXCEPT !.live = FALSE] ELSE k : k \in beats}
    <3>1. PICK k \in beats : m = IF k.from = n THEN [k EXCEPT !.live = FALSE] ELSE k
      BY <2>2
    <3>2. k \in Requests
      BY <1>0
    <3>3. /\ m.to = k.to /\ m.from = k.from /\ m.term = k.term /\ m.call = k.call
          /\ m.entries = k.entries
      BY <3>1, <3>2 DEF Requests
    <3>4. QED
      BY <3>3
  <2>3. CASE m \in {AppendCall(c[1], c[2]) :
                     c \in {d \in Reading \X Node : sub[d[1]].node = n /\ rpc[d[1]][d[2]].st = "sent"}}
    <3>1. PICK c \in Reading \X Node : rpc[c[1]][c[2]].st = "sent" /\ m = AppendCall(c[1], c[2])
      BY <2>3
    <3>2. c[1] \in Reading /\ c[2] \in Node
      OBVIOUS
    <3>3. QED
      BY <3>1, <3>2
  <2>4. QED
    BY <2>1, <2>2, <2>3
<1>5. ASSUME NEW m \in beats', NEW r \in Reading, NEW p \in Node, rpc[r][p].st # "none", m = AppendCall(r, p)
      PROVE  GoodSlots(m.entries)' /\ m.to # m.from /\ m.from \in EverElected' /\ m.call # None
  BY <1>5, AppendCallGood
<1>6. \A m \in late' : m \in late \/ m.to # m.from
  BY DEF Reboot, StayOnTheirWay, VoteCall, Peers
<1>7. LogsMove
  <2>1. \A k \in Node : log'[k] = log[k] \/ GoodLog(log[k])'
    BY <1>0, <1>1 DEF LogTypeOK, GoodLog
  <2>2. \A m \in beats' : (\E k \in beats : m.entries = k.entries) \/ GoodSlots(m.entries)'
    BY <1>4, <1>5
  <2>3. ASSUME NEW r \in Reading, NEW p \in Node
        PROVE  rpc'[r][p].entries = rpc[r][p].entries \/ GoodSlots(rpc[r][p].entries)'
    BY <1>3 DEF GoodSlots
  <2>4. QED
    BY <2>1, <2>2, <2>3 DEF LogsMove
<1>8. SendersMove
  BY <1>2, <1>3, <1>4, <1>5, <1>6 DEF SendersMove, Taken
<1>9. CommitsMove
  BY <1>0, <1>1 DEF CommitsMove, LogTypeOK
<1>10. AppliedMove
  BY <1>1, <1>2 DEF AppliedMove
<1>11. QED
  BY <1>7, <1>8, <1>9, <1>10 DEF LogMove

LEMMA NextMoves == ASSUME TypeInv, LeaderWasElected, LogInv, Kept, Next PROVE LogMove
<1>1. ASSUME NEW n \in Node, Crash(n)
      PROVE  LogMove
  BY <1>1, RebootMoves DEF Crash
<1>2. ASSUME NEW r \in Reading, ApplyPanics(r)
      PROVE  LogMove
  BY <1>2, RebootMoves DEF ApplyPanics, TypeInv, CallsBelong
<1>3. ASSUME NEW r \in Reading, Submission(r)
      PROVE  LogMove
  BY <1>2, <1>3, ReplicationMoves, ApplicationMoves DEF Submission
<1>4. QED
  BY <1>1, <1>3, ElectionMoves, HeartbeatMoves DEF Next

-------------------------------------------------------------------------------
(* The theorems.                                                           *)

LEMMA LogInit == Init => LogInv
BY DEF Init, NewCluster, LogInv, SendersElected, LogsGood, GoodLog, GoodSlots, CommitsKnown, AppliedKnown,
       Taken, NewCall, NoRpc

LEMMA LogStep == FullInv /\ [Next]_vars => FullInv'
<1> SUFFICES ASSUME FullInv, [Next]_vars PROVE FullInv'
  OBVIOUS
<1>0. IInv /\ TypeInv /\ LeaderWasElected /\ LogInv
  BY DEF FullInv, IInv, ElectInv
<1>1. CASE Next
  BY <1>0, <1>1, StepInv, StepKeeps, NextMoves, MoveStep DEF FullInv
<1>2. CASE UNCHANGED vars
  <2>1. UNCHANGED <<votes, log, beats, rpc, sub, commitIdx, wedged, redis, late>>
    BY <1>2 DEF vars, voteVars, logVars, beatVars, subVars, electVars
  <2>2. Kept
    BY <2>1 DEF Kept, Taken, MajorityAcked
  <2>3. QED
    BY <1>0, <1>2, <2>1, <2>2, StepInv, MoveFrame, MoveStep DEF FullInv, LogMove
<1>3. QED
  BY <1>1, <1>2

LEMMA LogInductive == Spec => []FullInv
<1>1. Init => FullInv
  BY InitInv, LogInit DEF FullInv
<1>2. QED
  BY <1>1, LogStep, PTL DEF Spec

\* Every heartbeat in flight, however late, carries a term its sender was
\* elected in: losing the leadership does not let a loop send under a new term.
THEOREM HeartbeatsElected == Spec => []HeartbeatsAreFromElectedLeaders
<1>1. FullInv => HeartbeatsAreFromElectedLeaders
  BY DEF FullInv, LogInv, SendersElected, HeartbeatsAreFromElectedLeaders
<1>2. QED
  BY <1>1, LogInductive, PTL

\* Whatever stale, reordered or half-overwritten message replaces a log, the term
\* and the command of each entry are those of submissions on nodes elected in the
\* terms they gave, at the index of the entry; one that does not decode has two.
THEOREM EntriesElected == Spec => []EntriesComeFromElectedLeaders
<1>1. ASSUME LogInv, NEW n \in Node, NEW i \in DOMAIN log[n], NEW e, e = log[n][i]
      PROVE  /\ \E r \in SubmittedAt(i) : e.term = sub[r].term
             /\ e.cmd \in SubmittedAt(i) \/ (e.cmd = None /\ \E q, r \in SubmittedAt(i) : q # r)
  <2>1. GoodEntry(e, i)
    BY <1>1 DEF LogInv, LogsGood, GoodLog
  <2>2. QED
    BY <2>1 DEF GoodEntry, Makers
<1>2. FullInv => EntriesComeFromElectedLeaders
  BY <1>1 DEF FullInv, EntriesComeFromElectedLeaders
<1>3. QED
  BY <1>2, LogInductive, PTL

\* A node never applies on the word of a leader: whatever it has written to its
\* Redis lies at or below the index of a call of its own that a majority
\* acknowledged.  It may be another leader's entry that the log has there by now.
THEOREM OwnCommitsApplied == Spec => []AppliesOwnCommitsOnly
<1>1. FullInv => AppliesOwnCommitsOnly
  BY DEF FullInv, LogInv, AppliedKnown, Applied, CommittedAt, AppliesOwnCommitsOnly
<1>2. QED
  BY <1>1, LogInductive, PTL
-------------------------------------------------------------------------------
(* RaftNode implements LeaderView.                                         *)

LEMMA SameVotes == ASSUME votes' = votes PROVE EverElected' = EverElected
BY DEF EverElected, Elected, Voters

\* One more vote elects at most the node it was cast for.
LEMMA OneMoreVote ==
  ASSUME TypeInv, NEW v \in Node, NEW c \in Node, NEW t \in Nat, votes' = votes \cup {<<v, c, t>>}
  PROVE  EverElected' \in {EverElected, EverElected \cup {c}}
<1>1. EverElected \subseteq EverElected'
  BY ElectedKept
<1>2. ASSUME NEW e \in EverElected', e # c
      PROVE  e \in EverElected
  <2>1. PICK x \in votes' : Elected(x[2], x[3])' /\ e = x[2]
    BY <1>2 DEF EverElected
  <2>2. x \in votes
    BY <1>2, <2>1
  <2>3. Voters(x[2], x[3])' = Voters(x[2], x[3])
    BY <1>2, <2>1 DEF Voters
  <2>4. Elected(x[2], x[3])
    BY <2>1, <2>3 DEF Elected
  <2>5. QED
    BY <2>1, <2>2, <2>4 DEF EverElected
<1>3. QED
  BY <1>1, <1>2

\* What a step shows: nothing new, or a step of LeaderView.
Shown == View!ViewNext \/ UNCHANGED View!view

LEMMA NothingShown == ASSUME UNCHANGED <<role, leaderId, wedged, votes>> PROVE Shown
BY SameVotes DEF Shown, View!view

LEMMA VoteShown ==
  ASSUME IInv, NEW m \in VoteRequests, m.to # m.from, HandleVote(m)
  PROVE  Shown
<1>0. TypeInv /\ VoteTypeOK
  BY DEF IInv, TypeInv, TypeOK
<1>1. PICK p, n, t : p = m.to /\ n = m.from /\ t = m.term
  OBVIOUS
<1>2. p \in Node \ {n} /\ n \in Node \ {p} /\ t \in Nat
  BY <1>1 DEF VoteRequests
<1>3. EverElected' \in {EverElected, EverElected \cup {n}}
  <2>1. CASE votes' = votes
    BY <2>1, SameVotes
  <2>2. CASE votes' = votes \cup {<<p, n, t>>}
    BY <1>0, <1>2, <2>2, OneMoreVote
  <2>3. QED
    BY <1>1, <2>1, <2>2 DEF HandleVote
<1>4. /\ ~wedged[p] /\ UNCHANGED <<leaderId, wedged>>
      /\ role' = [role EXCEPT ![p] = "follower"] \/ role' = role
  BY <1>0, <1>1, <1>2 DEF HandleVote, Newer, VoteTypeOK
<1>5. View!Vote(p, n)
  BY <1>3, <1>4 DEF View!Vote
<1>6. QED
  BY <1>2, <1>5 DEF Shown, View!ViewNext, View!ViewStep

LEMMA ElectionShown == ASSUME FullInv, NEW n \in Node, Election(n) PROVE Shown
<1>0. IInv /\ TypeInv /\ VoteTypeOK /\ ElectTypeOK /\ ElectInv /\ LogInv
  BY DEF FullInv, IInv, TypeInv, TypeOK
<1>1. CASE StartElection(n)
  <2>1. EverElected' \in {EverElected, EverElected \cup {n}}
    <3>1. votes' = votes \cup {<<n, n, term[n] + 1>>} /\ term[n] + 1 \in Nat
      BY <1>0, <1>1 DEF StartElection, VoteTypeOK
    <3>2. QED
      BY <1>0, <3>1, OneMoreVote
  <2>2. View!Campaign(n)
    BY <1>1, <2>1 DEF StartElection, View!Campaign
  <2>3. QED
    BY <2>2 DEF Shown, View!ViewNext, View!ViewStep
<1>2. CASE CountVotes(n)
  <2>1. CASE Wins(n)
    <3>1. n \in EverElected
      BY <1>0, <2>1, CountedMajority, ElectedVoters DEF ElectInv
    <3>2. EverElected' = EverElected
      BY <1>2, SameVotes DEF CountVotes
    <3>3. View!Win(n)
      BY <1>2, <2>1, <3>1, <3>2 DEF CountVotes, Wins, View!Win
    <3>4. QED
      BY <3>3 DEF Shown, View!ViewNext, View!ViewStep
  <2>2. CASE ~Wins(n)
    BY <1>2, <2>2, NothingShown DEF CountVotes
  <2>3. QED
    BY <2>1, <2>2
<1>3. ASSUME NEW p \in Peers(n), SendVoteRequest(n, p) \/ VoteCallFails(n, p) \/ ReceiveVote(n, p)
      PROVE  Shown
  BY <1>3, NothingShown DEF SendVoteRequest, VoteCallFails, ReceiveVote, voteVars
<1>4. ASSUME NEW p \in Peers(n), RequestVote(n, p)
      PROVE  Shown
  <2>1. PICK m : m = VoteCall(n, p)
    OBVIOUS
  <2>2. m \in VoteRequests /\ m.to # m.from
    BY <1>0, <2>1, VoteCallType DEF Peers, VoteCall
  <2>3. HandleVote(m)
    BY <1>4, <2>1 DEF RequestVote
  <2>4. QED
    BY <1>0, <2>2, <2>3, VoteShown
<1>5. ASSUME NEW m \in late, RequestVoteLate(m)
      PROVE  Shown
  <2>1. m \in VoteRequests /\ m.to # m.from /\ HandleVote(m)
    BY <1>0, <1>5 DEF ElectTypeOK, LogInv, SendersElected, RequestVoteLate
  <2>2. QED
    BY <1>0, <2>1, VoteShown
<1>6. ASSUME NEW p \in Peers(n), LearnTerm(n, p)
      PROVE  Shown
  <2>1. role[n] # "leader"
    BY <1>0, <1>6 DEF LearnTerm, ElectInv, ElectionsEnd, Peers
  <2>2. EverElected' = EverElected
    BY <1>6, SameVotes DEF LearnTerm
  <2>3. View!LearnHigherTerm(n)
    BY <1>6, <2>1, <2>2 DEF LearnTerm, View!LearnHigherTerm
  <2>4. QED
    BY <2>3 DEF Shown, View!ViewNext, View!ViewStep
<1>7. QED
  BY <1>1, <1>2, <1>3, <1>4, <1>5, <1>6 DEF Election

\* A message that AppendEntries accepts is heard from a node that was elected.
LEMMA AcceptShown ==
  ASSUME TypeInv, NEW n \in Node, NEW m, m.from \in EverElected, m.from # n, m.from \in Node,
         AcceptEntries(n, m), UNCHANGED votes
  PROVE  Shown
<1>0. role \in [Node -> Roles] /\ wedged \in [Node -> BOOLEAN]
  BY DEF TypeInv, TypeOK, VoteTypeOK
<1>1. /\ ~wedged[n] /\ leaderId' = [leaderId EXCEPT ![n] = m.from]
      /\ role' = role \/ role' = [role EXCEPT ![n] = "follower"]
      /\ wedged' = [wedged EXCEPT ![n] = Commits(n, m)]
  BY <1>0 DEF AcceptEntries
<1>2. wedged' = wedged \/ wedged' = [wedged EXCEPT ![n] = TRUE]
  <2>1. Commits(n, m) \in BOOLEAN
    BY DEF Commits
  <2>2. QED
    BY <1>0, <1>1, <2>1
<1>3. View!Hear(n, m.from)
  BY <1>1, <1>2, SameVotes DEF View!Hear
<1>4. QED
  BY <1>3 DEF Shown, View!ViewNext, View!ViewStep

LEMMA HeartbeatShown == ASSUME FullInv, Heartbeat PROVE Shown
<1>0. TypeInv /\ SendersElected /\ beats \subseteq Requests
  BY DEF FullInv, IInv, LogInv, TypeInv, TypeOK, BeatTypeOK
<1>1. ASSUME NEW n \in Node, HeartbeatTick(n) \/ HeartbeatLoopEnds(n) \/ HeartbeatLoopStopped(n)
      PROVE  Shown
  BY <1>1, NothingShown DEF HeartbeatTick, HeartbeatLoopEnds, HeartbeatLoopStopped, voteVars
<1>2. ASSUME NEW m \in beats, LoseHeartbeat(m)
      PROVE  Shown
  BY <1>2, NothingShown DEF LoseHeartbeat, voteVars
<1>3. ASSUME NEW m \in beats, DeliverHeartbeat(m)
      PROVE  Shown
  <2>0. m \in Requests /\ m.to \in Node /\ m.from \in Node /\ m.from # m.to /\ m.from \in EverElected
    BY <1>0 DEF Requests, SendersElected
  <2>1. ASSUME NEW e, AcceptEntries(m.to, [m EXCEPT !.entries = e])
        PROVE  Shown
    <3>1. DEFINE b == [m EXCEPT !.entries = e]
    <3>2. b.from = m.from /\ AcceptEntries(m.to, b)
      BY <2>0, <2>1 DEF Requests
    <3> HIDE DEF b
    <3>3. QED
      BY <1>0, <1>3, <2>0, <3>2, AcceptShown DEF DeliverHeartbeat
  <2>2. CASE UNCHANGED <<role, leaderId, wedged>>
    BY <1>3, <2>2, NothingShown DEF DeliverHeartbeat
  <2>3. QED
    BY <1>3, <2>1, <2>2 DEF DeliverHeartbeat
<1>4. QED
  BY <1>1, <1>2, <1>3 DEF Heartbeat

LEMMA RebootShown == ASSUME NEW n \in Node, Reboot(n) PROVE Shown
<1>1. View!Restart(n)
  BY SameVotes DEF Reboot, View!Restart
<1>2. QED
  BY <1>1 DEF Shown, View!ViewNext

LEMMA SubmissionShown == ASSUME FullInv, NEW r \in Reading, Submission(r) PROVE Shown
<1>0. TypeInv /\ SendersElected /\ CallsBelong
  BY DEF FullInv, IInv, LogInv, TypeInv
<1>1. ASSUME NEW p \in Node, SubmitReading(r, p) \/ SendEntries(r, p) \/ AppendCallFails(r, p)
      PROVE  Shown
  BY <1>1, NothingShown DEF SubmitReading, SendEntries, AppendCallFails, voteVars
<1>2. CASE FinishReplication(r) \/ ApplyDone(r) \/ ApplyPick(r) \/ ApplyPush(r) \/ ApplyMark(r)
  BY <1>2, NothingShown DEF FinishReplication, ApplyDone, ApplyPick, ApplyPush, ApplyMark, voteVars
<1>3. CASE ApplyPanics(r)
  BY <1>0, <1>3, RebootShown DEF ApplyPanics, CallsBelong
<1>4. ASSUME NEW p \in Node, DeliverEntries(r, p)
      PROVE  Shown
  <2>0. sub[r].node \in Node /\ sub[r].node # p /\ sub[r].node \in EverElected
    BY <1>0, <1>4 DEF DeliverEntries, CallsBelong, SendersElected, Taken
  <2>1. ASSUME NEW m, m.from = sub[r].node, AcceptEntries(p, m)
        PROVE  Shown
    BY <1>0, <1>4, <2>0, <2>1, AcceptShown DEF DeliverEntries
  <2>2. ASSUME NEW e, AcceptEntries(p, [AppendCall(r, p) EXCEPT !.entries = e])
        PROVE  Shown
    <3>1. DEFINE b == [AppendCall(r, p) EXCEPT !.entries = e]
    <3>2. b.from = sub[r].node /\ AcceptEntries(p, b)
      BY <2>2 DEF AppendCall
    <3> HIDE DEF b
    <3>3. QED
      BY <2>1, <3>2
  <2>3. CASE UNCHANGED <<role, leaderId, wedged>>
    BY <1>4, <2>3, NothingShown DEF DeliverEntries
  <2>4. QED
    BY <1>4, <2>2, <2>3 DEF DeliverEntries
<1>5. QED
  BY <1>1, <1>2, <1>3, <1>4 DEF Submission

\* To the other components a cluster looks like LeaderView: a node takes its own
\* name for the leader only by winning, another's only if that node was elected.
THEOREM ShowsLeaderView == Spec => ViewsChangeAsPromised
<1>1. FullInv /\ [Next]_vars => Shown
  <2> SUFFICES ASSUME FullInv, [Next]_vars PROVE Shown
    OBVIOUS
  <2>1. ASSUME NEW n \in Node, Election(n) \/ Crash(n)
        PROVE  Shown
    BY <2>1, ElectionShown, RebootShown DEF Crash, FullInv
  <2>2. CASE UNCHANGED vars
    BY <2>2, NothingShown DEF vars, voteVars
  <2>3. QED
    BY <2>1, <2>2, HeartbeatShown, SubmissionShown DEF Next
<1>2. QED
  BY <1>1, LogInductive, PTL DEF Spec, ViewsChangeAsPromised, Shown
\* A cluster that starts also looks like one: RaftNode implements all of LeaderView.
THEOREM ImplementsLeaderView == Spec => View!ViewSpec
<1>1. Init => View!InitView
  BY DEF Init, NewCluster, View!InitView, EverElected
<1>2. QED
  BY <1>1, ShowsLeaderView, PTL DEF Spec, ViewsChangeAsPromised, View!ViewSpec
===============================================================================
