# Verification of the fault-tolerant telemetry system

TLA+ models, TLC runs and TLAPS proofs about the two systems of this
repository: the Raft-replicated telemetry pipeline of `architecture2` and the
two-phase commit and sensor store of `architecture1`. Paths are relative to the repository;
`main.go` alone means `architecture2/raftnode/main.go`.

## 1. The system

### architecture2: ingestion through Raft

Five containers (`docker-compose.raft.yml`) each run the ingestion service and
a Raft node in one process, with a Redis of their own.

| component | state | operations | talks to |
|---|---|---|---|
| Raft node, elections (`main.go`) | `term`, `role`, `votedFor`, `leaderId`, one election goroutine with one goroutine per peer | `ElectionLoop`, `startElection`, handler `RequestVote` | peers, by RPC without a deadline |
| Raft node, replication (`main.go`) | `log`, `commitIdx`, `lastApplied`, channel `stopHeartbeat`, heartbeat loops | `SubmitReading`, `heartbeatLoop`, `applyCommittedEntries`, handler `AppendEntries` | peers; Redis stream `readings` |
| Leader lookup (`main.go`) | reads and writes `leaderId` | `GetLeader`, `GetLeaderAddress`, `DiscoverLeader` | peers |
| Ingestion (`services/ingestion`) | one stream per client | `StreamReadings`: submit locally or forward | Raft node, another node's ingestion |
| Aggregator (`services/aggregator`) | 10 s window per sensor, subscriber channels of 256 | consumer loop `XReadGroup`/`XAck`, `broadcast`, `SubscribeMetrics` | Redis, subscribers |
| Alerter (`services/alerter`) | subscriber channels | metrics loop, `broadcast`, `SubscribeAlerts` | aggregator, subscribers |
| Query API (`services/query-api`) | none | `Range` returns fixed points | - |

All state of a Raft node is in memory and guarded by one mutex `rn.mu`, with
exceptions that matter: `rn.term` is read without it in `startElection`, and
messages hold pointers into `rn.log` that are read after it is released.

### architecture1: two-phase commit, and a small sensor store

| component | state | operations | talks to |
|---|---|---|---|
| 2PC coordinator (`two_pc/coordinator_phase.py`) | `votes`, position in `CLUSTER`, decision; nothing persisted | Phase 1 (failures caught), Phase 2 (failures not caught) | Vote and Decision servers of every node, its own included |
| Vote server (`two_pc/vote_phase.py`) | `ABORT_SELF` | `VoteRequest`, which calls the local `Prepare` | local Decision server |
| Decision server (`two_pc/decision_phase.py`) | `prepared`, in memory | `Prepare`, `GlobalCommit`, `GlobalAbort` | - |
| Store and API (`database.py`, `api_gateway.py`, `alerter.py`) | a JSON file, `file_lock` | add and read readings and alerts | the file |
| Dashboard (`dashboard.py`) | none | reads the file, without the lock | the file |

### What is hard here

* Interleavings within a node: an election, any number of submissions, a
  heartbeat loop and two RPC handlers share a node's state and release the lock
  between steps.
* Values used after the lock was released: the term of a vote request, the test
  before a higher term is installed, the commit index and the log of a message.
* Messages delayed, lost and reordered; each one replaces a whole log.
* Restarts with no memory of votes, logs and decisions.
* Calls without a deadline, and handlers that lock themselves out: one in the
  Raft node, one in the sensor store.
* Views of who leads that are out of date on every node in another way, and
  streams that are forwarded by them.
* Bounded channels that drop what does not fit, closed by one goroutine while
  another sends on them.

`PROJECT.json` lists these and others as hazards, each at its line, with the
properties that answer it.

### What makes each component correct

* Elections: a leader was elected by a majority, a term has one leader, a
  leader leaves its role only for a higher term, every election returns.
* Replication: entries come from elected leaders, a node applies nothing beyond
  what it committed itself, a committed entry stays in a majority of logs and is
  applied, a submission returns.
* Lookup and ingestion: a stream reaches a leader or fails; it does not travel
  in circles; an acknowledged stream was committed in full.
* Aggregator and alerter: every reading is counted once, a subscriber sees
  metrics in order and without duplicates, a gone subscriber is removed, a
  metric above its threshold raises an alert.
* Two-phase commit: one outcome per run, COMMIT only with every vote, a node
  that must abort does, a prepared node learns the decision.
* Store: no reading is lost or erased, a request returns.

## 2. The modules

| module | what it is |
|---|---|
| `RaftNode` | the Raft node of `main.go`: elections, replication, heartbeats, application |
| `RaftProperties` | its type invariant, safety, action and liveness properties, the step-by-step mapping to `LeaderView`, and the documentation's statements the code contradicts |
| `MCRaftNode` | symmetry, later starting points and the bound on the behaviours of `raft_cluster` for TLC |
| `RaftTypeProofs`, `RaftElectionProofs`, `RaftLogProofs` | theorems about `RaftNode`, each module on top of the one before |
| `LeaderView` | abstract Raft node: who has which role and names whom as leader |
| `ReadingStream` | abstract ingestion: what a client's stream is promised |
| `Ingestion` | `StreamReadings` and the leader lookup, on top of `LeaderView` |
| `IngestionProperties` | its properties, and the refinement mapping to `ReadingStream` |
| `MCIngestion` | three nodes after the first election for TLC |
| `IngestionProofs` | theorems about `Ingestion` |
| `PubSub` | subscribers and broadcast, the same code in aggregator and alerter |
| `Telemetry` | Redis stream, aggregator and alerter, with `PubSub` instantiated for metrics and for alerts |
| `TelemetryProperties`, `MCTelemetry` | its properties; two sensors and their clients for TLC |
| `PubSubProofs` | what a subscription keeps, step by step; instantiated for metrics and for alerts |
| `TelemetryProofs` | theorems about `Telemetry` |
| `TwoPhaseCommit` | coordinator, Vote and Decision servers, crashes and restarts |
| `AtomicCommit` | what one run of a commitment protocol promises, abstractly |
| `TwoPhaseProperties` | the properties, and the refinement mapping to `AtomicCommit` |
| `MCTwoPhaseCommit` | a cluster of three for TLC, and the bound on calls that nobody waits for |
| `TwoPhaseProofs` | theorems about `TwoPhaseCommit` |
| `SensorStore` | the handlers of `api_gateway.py` and the file of `database.py` under `file_lock` |
| `SensorStoreProperties` | its properties; the runs instantiate it directly |
| `SensorStoreProofs` | theorems about `SensorStore` |

Three refinements tie them together: `RaftNode` takes only steps that
`LeaderView` allows (`ViewsChangeAsPromised`), `Ingestion` runs on `LeaderView`
and implements `ReadingStream` (`StreamsAreFaithful`), `TwoPhaseCommit`
implements `AtomicCommit` (`LastRunIsAtomic`).

### RaftNode

Variables carry the names of the fields of `RaftNode` in Go. The rest of the
state is what lives in goroutines: `ballot[n][p]` is the vote goroutine of `n`
for `p`, `rpc[r][p]` the replication goroutine of reading `r` for `p`,
`sub[r]` the `SubmitReading` call itself (its node, index, the captured commit
index, and where it is in `applyCommittedEntries`), `beats` the AppendEntries in
flight that nobody waits for, `late` the vote requests of that kind, `heartbeats[n]` the number of running `heartbeatLoop`s and
`stopHeartbeat[n]` the token in the channel. `wedged[n]` says that a handler of
`n` holds `rn.mu` and waits for it. `votes` and `forgotten` are history.

One section that holds the lock is one action:

| code | actions |
|---|---|
| `startElection`, first section | `StartElection` |
| its goroutine: dial, send, reply, higher term | `SendVoteRequest`, `VoteCallFails`, `ReceiveVote`, `LearnTerm` |
| its last section | `CountVotes` |
| `RequestVote` | `HandleVote`, in `RequestVote` with a caller and `RequestVoteLate` without |
| `AppendEntries` | `AcceptEntries`, `Stale`, inside the two deliveries |
| `heartbeatLoop` | `HeartbeatTick`, `HeartbeatLoopEnds`, `HeartbeatLoopStopped`, `DeliverHeartbeat`, `LoseHeartbeat` |
| `SubmitReading` | `SubmitReading`, `SendEntries`, `AppendCallFails`, `DeliverEntries`, `FinishReplication` |
| `applyCommittedEntries` | `ApplyPick`, `ApplyPush`, `ApplyMark`, `ApplyDone`, `ApplyPanics` |
| process restart, `NewRaftNode` | `Crash`, `Reboot` |

Abstractions, and why they lose nothing the properties see:

* Time is left out. An election timeout may strike whenever the election
  goroutine is idle, so `electionReset` is not state; a dial or a call may fail
  at any moment. This allows more behaviours than the real clocks do.
* `nextIndex`, `matchIndex` and the `Index` field of a stored entry are
  written and never read. `prevLogIndex` is always 0 and names the dummy
  entry, so the consistency check of `AppendEntries` always succeeds.
* A message points into its sender's log and is marshalled after the lock was
  released, while `AppendEntries` copies entries into the same array
  (`main.go:187-191`). So a message carries for each slot the set of entries the
  slot has held since (`Captured`, `Overwritten`), and what its receiver gets is
  put together from these (`Readable`, `Marshalled`): the term of one and the
  command of another, and, as a command is a pointer and a length, one that does
  not decode (`None`). Once the array was reallocated a message keeps what it has
  got, which is among the choices.
* A refused `SubmitReading` leaves no trace. A reading is submitted at most
  once successfully; resubmission is a second reading.
* The two locked sections of a heartbeat tick are one action: losing the
  leadership between them only ends the loop sooner.
* A call that fails at its caller after the request was sent may still be served:
  the request stays in `late` or `beats` (`StayOnTheirWay`, `StayInFlight`), and
  nobody reads the answer. The same holds for the calls under way when their node
  restarts: the messages of a process that is gone arrive or do not. `MaxLate`
  bounds how many such requests are in flight at a time; a call that fails beyond
  that is one whose request is lost.
* `Unencodable` are the readings `json.Marshal` rejects, whose command is empty. Such
  a command, and one garbled on its way, is skipped by `applyCommittedEntries`.

Redis and gRPC are external. A stream is the sequence of what was added to it;
`XAdd` may fail, which the code logs and passes over.

### LeaderView and Ingestion

`LeaderView` keeps of a Raft node what the ingestion service can see: `role`,
`leaderId`, and `wedged`, a node that holds its own lock for ever. Its steps are
`Campaign`, `Vote`, `LearnHigherTerm`, `Win`, `Hear` and `Restart`, each with the
effect the code has on `leaderId`: a vote clears nothing, a candidate forgets
its leader, a deposed leader keeps its own name. `led` is history: who was ever
elected.

A stream is a chain of handlers, `hops[s]`, one per process it visits. Each is
at a place in `StreamReadings`:

| code (`services/ingestion/main.go`; lookups in `raftnode/main.go`) | actions |
|---|---|
| a client or a forwarding handler opens the stream | `Open`, `OpenForward`, `OpenFails` |
| `IsLeader`, once per stream | `CheckRole` |
| `GetLeaderAddress` | `LookUp`, `AskPeer`, `AskFails`, `NobodyKnows`, `Adopt` |
| `DiscoverLeader`: each peer in turn, then the unconditional write of `leaderId` | `AskPeer` to `Adopt` |
| the forwarding loop and `CloseAndRecv` | `Forward`, `CloseForward`, `ReturnAck` |
| the leader's loop: receive, `SubmitReading`, acknowledge at EOF | `Receive`, `Submit`, `SubmitSucceeds`, `SubmitFails`, `AckStream` |
| a broken connection, a cancelled caller | `StreamBreaks` |
| the Raft node of a process changes; a process restarts | `RaftStep`, `Crash` |

`SubmitReading` succeeds or fails here in one step once the role allows it;
`RaftNode` has its details. An address is the node that listens there. The code
has no limit on hops; `MaxHops` stops the model, not the stream.

### PubSub and Telemetry

A subscription's handler registers a channel (`Subscribe`), takes from it
(`Take`), sends what matches its filter (`Send`, `SendFails`), and at its end
removes the channel from the map (`Unregister`) and closes it (`Close`), the last
outside the lock. `Broadcast` offers a message to every channel of the map.

| code | actions |
|---|---|
| `applyCommittedEntries`: `XAdd` | `XAdd` |
| aggregator: start, group creation | `StartAggregator` |
| `XReadGroup` with `>`, window and metric, `XAck` | `ReadGroup`, `Aggregate`, `AckEntry` |
| aggregator: `SubscribeMetrics` | `SubscribeMetrics`, `ServeMetrics`, `LeaveMetrics` |
| alerter: dial and subscribe, receive, two thresholds, lost stream | `WatchMetrics`, `ReceiveMetric`, `CheckTemp`, `CheckHumidity`, `LoseMetrics` |
| alerter: `SubscribeAlerts` | `SubscribeAlerts`, `ServeAlerts`, `LeaveAlerts` |
| crashes | `CrashAggregator`, `CrashAlerter` |

A message is its number in the sequence of all that was ever broadcast, so
that order, gaps and repetition can be seen. The ten seconds of the window are
left out: any number of its oldest readings may have gone. Redis keeps the stream
and the group; a reply it sent may be lost, and a command may fail. A metric that
was sent and not received is lost with the connection, whichever end broke it.

### TwoPhaseCommit

The coordinator is sequential: `pc`, `next` and `waiting` are its place in the
two loops, `votes` its dict. `calls` holds the requests in flight. A call that
failed at the coordinator or whose coordinator crashed can still be served. A
restarted coordinator runs the same transaction `T101` again with no memory, and
`run` tells these runs apart. A `Prepare` that raises in its Vote server may have
been executed: the node is then prepared and answers no (`PrepareFails`). Which nodes
have `ABORT_SELF` set is chosen at the start from `AbortSets` and stays. `decided`, `yes`, `applied` and `aborted` are
history, per run. `docker-compose.2pc.yml` has no restart policy: `Restart` is
an operator starting the container again.

`LastRunIsAtomic` maps run `MaxRuns` to `AtomicCommit`: `voted` is the set of
nodes that prepared for that run, `outcome` what each node did with its
decision. Every step of the system is a vote, a commit, an abort or a stutter
there. Earlier runs have the shape of a last run whose successor has not
started; the last one is chosen because the leftovers of the others surround it.

### SensorStore

Flask serves each request in a thread. A handler is the sequence of steps it
has left: a look for the file without the lock, `acquire` and `release` of
`file_lock`, a read, and the two halves of a write (`open` empties the file,
`json.dump` fills it). The operators `init_database`, `load_data`, `save_data`,
`Add` (`add_reading`, `add_alert`) and `process_reading` build these sequences as
the functions call each other, so that the lock `add_reading` holds while it
calls `load_data` is taken a second time in the model as in the code. `Kill` ends
the process, its threads and its lock, and leaves the file as it is. The checks of the Flask
handlers are the branches of `submit_reading`. Errors of the disk and
`/health`, which touches nothing, are left out.

## 3. The runs

Three nodes are the smallest cluster in which a majority is not everyone and
two majorities differ; every hazard found needs at most three. Counts are
distinct states, with symmetry where the table says so.

| run | instance | checks | states |
|---|---|---|---|
| `raft_cluster` | three starts: elections from `Init`, terms to 2; after the first election, two of another election, a restart, a heartbeat round, a reading (one of two cannot be encoded) and a request that outlives its call; two leaders of terms 1 and 2, both with readings to replicate; symmetry | `BallotsAreForThisTerm`, `LeaderWasElected`, `SplitTermNeedsForgottenVote`, `StepsDownForHigherTerm`, `HeartbeatsAreFromElectedLeaders`, `EntriesComeFromElectedLeaders`, `AppliesOwnCommitsOnly` | 844,923 |
| `raft_returns` | three starts: a leader with two readings to submit at once; one reading submitted while another node calls an election; a heartbeat round with a commit the followers have not heard of; fairness | `TypeOK`, `ViewsChangeAsPromised`, `ElectionReturns`, `SubmissionReturns` | 57,345 |
| `ingestion` | after the first election, a stream of 2 readings, 3 hops, 3 changes of the Raft nodes; fairness | `TypeOK`, `ForwardsToPastLeaders`, `SettledIsDirect`, `StreamsAreFaithful`, `StreamEnds` | 471,753 |
| `telemetry` | 2 readings of 2 sensors, 2 metric subscriptions and 1 of alerts, channels of 1, 1 fault; fairness | `TypeOK`, `AggregatedOnce`, `AckedWereAggregated`, `EntriesAreCounted`, `NoSendOnClosedChannel`, `SubscribersSeeOrder`, `GapsAreOverflow`, `GoneIsRemoved`, `AlertedOnce` | 982,386 |
| `two_phase` | 2 runs, 1 crash; no node aborts, or the last one asked does; fairness | `TypeOK`, `RunsAgree`, `CommitNeedsEveryVote`, `AbortSelfForcesAbort`, `LastRunIsAtomic`, `RunEnds`, `PreparedIsReleased` | 361,125 |
| `sensor_store` | 3 requests, 1 kill; fairness | `TypeOK`, `MisreadNeedsKill`, `RequestReturns` | 10,586 |

Bounds are constants: `MaxTerm` (no election starts there), `MaxTicks`
(heartbeat rounds of the whole cluster), `MaxLate` (requests that outlive their
call, of each RPC), `MaxCrashes`, `MaxRuns`, `MaxHops`
(handlers of one stream), `MaxChanges` (steps of the Raft nodes under a stream),
`MaxEntries` (readings in Redis), `MaxFaults` (crashes, failed calls, lost
replies and clients that leave, together), `MaxKills`. Two terms are
what a deposed leader needs, two readings what overlapping submissions need,
two runs what a leftover of an earlier run needs. Three hops with three changes
are enough for a stream to come back to where it started while the leader
changes under it, two readings for one to be accepted before the other is
refused. Capacity 1 makes a channel full after one metric, and two entries make
one `XReadGroup` return more than it acknowledges at once; the one fault can
strike at every point. Three requests let one hold `file_lock` and two race for
the creation of the file.

An election takes some twenty steps, so the runs about what follows one start in
states of `MCRaftNode` that are reached from `Init`: `AfterElection`, when every
vote and nothing else has arrived; `NextReading`, when a reading is also in every
log, committed and applied by the leader; `ElectionFailed` and `SecondFailed`, when
after that the calls of another candidate, or of a second submission, have all
failed; and `TwoLeaders`, when a leader of term 1 that has begun to replicate a
reading missed the election of term 2, whose request to it may still arrive. From
the last one each leader overwrites the log of the other and of the third node,
while messages that point into these logs are under way: a message with the term
of one entry and the command of the other does occur.

`Scope` of `MCRaftNode` bounds the behaviours of `raft_cluster` beyond the
constants. From `Init` there are elections only, two terms of them. After the first
election two things may happen, of the five the table lists; another election and a
reading are not put together here, as `TwoLeaders` is where they meet. With two
leaders there is one thing more: the second reading, a heartbeat round or an
AppendEntries that outlives its call. What lies outside `Scope` is covered by the
proofs, which have no bounds. `Scope` of `MCTwoPhaseCommit` allows two calls in
flight that nobody waits for, the leftovers of a call that raised or of a
coordinator that crashed, and where no node aborts one of them in the second run;
two runs need one leftover to disturb the second.

Deadlock is not checked: when the bounds are used up, or a node has locked itself
out, the system does stop.

### What the documentation says and the code does not do

Six more runs expect a violation; `PROJECT.json` quotes the statements.

| run | property | what happens |
|---|---|---|
| `doc_one_leader` | `OneLeaderPerTerm` | A vote goroutine tests `resp.Term > rn.term` unlocked and installs that term later. A node that voted in it meanwhile forgets its vote and votes again: two leaders in one term, with no crash |
| `doc_heartbeat_loop` | `LeaderHasHeartbeatLoop` | A follower that sees a higher term leaves a stop token nobody takes; the loop of its next leadership does, and the leader is silent |
| `doc_majority` | `CommittedIsOnMajority` | A heartbeat prepared before an append and delivered after it wipes the acknowledged entry from the follower's log |
| `doc_applied` | `CommittedIsApplied` | `AppendEntries` calls `applyCommittedEntries` with the lock held: a follower that learns of a commit stops for ever |
| `doc_alerts` | `HotMetricsRaiseAlerts` | The aggregator discards temperature and humidity (`services/aggregator/main.go:143-144`): a reading of 30 degrees reaches the alerter as an average of 0, below every sensible threshold |
| `doc_post` | `PostIsStored` | `add_reading` holds `file_lock`, a `threading.Lock`, and calls `load_data`, which takes it (`database.py:41-42`): the POST waits for itself |

Each is meant to hold once the code is repaired, and says where to look next. With
temperatures parsed, `HotMetricsRaiseAlerts` holds of this instance. With a lock
its holder can take again, `PostIsStored` still fails: `init_database`
(`database.py:13-19`) looks for the file before it waits for the lock, and a GET
that saw none creates the file anew over the reading a POST has stored.

Observed while modelling and not given a run of their own, being consequences
of the same lines: `commitIdx` can decrease when two submissions finish in the
other order (`main.go:422`), and a deposed leader's commit there over a log that was
replaced applies another leader's entry, in a cluster whose own submission of it may
yet fail, against the comment at 622 (`AppliesOwnCommitsOnly` therefore speaks of
indexes, and not of what is committed); a deposed leader sends its old log under its
successor's term (`main.go:386`); an election never returns when it waits for a
peer that has locked itself out; and across two runs of the coordinator the
same transaction can be applied by one node and dropped by another. A call of
Phase 2 that raises ends the coordinator thread, and the nodes after it stay
prepared: `PreparedIsReleased` names that exception.

Of the ingestion service: the comment at `services/ingestion/main.go:31` has a
follower forward to the leader. It forwards to the node it takes for the leader,
and a chain of such nodes can come back to itself; a leader that voted for another
candidate still names itself and forwards to itself. `StreamEnds` excepts the
streams that go round, `SettledIsDirect` says that they need a change of the
cluster, and `ForwardsToPastLeaders` how old a name can be.

Of aggregator and alerter: in
`docker-compose.raft.yml:144` the one aggregator reads the Redis of node 1, while
each leader writes to its own: it counts what node 1 took as leader. A metric that
arrives while the alerter is between two subscriptions raises no alert.

Of the store: after the first accepted POST every request that comes to
`file_lock` waits with it, which is the exception in `RequestReturns`. A
reading whose value is 0 is refused as incomplete (`api_gateway.py:23`).

### Fairness

`raft_returns` assumes that a goroutine that can take its next step takes it,
that a dial ends (it has a deadline), and that a request that reached a handler
which is not locked out is answered (`VoteGoroutine`, `EntriesGoroutine`). Go's scheduler and the RPC layer give
that much. Nothing is assumed of election timeouts, clients, failures,
heartbeats and restarts: none of them has to happen. A candidate or a submitter
whose peer has locked itself out is exempt, because the calls have no deadline.

`two_phase` assumes that the coordinator thread runs, that the call it
waits for is served by a node that is up, and that a call to a dead node raises,
as a gRPC call on a broken connection does.

`ingestion` assumes that each handler takes the step it can take, that a dial
ends one way or the other, and that a handler learns that its caller is gone, as
gRPC cancels its context. A `SubmitReading` returns as long as no node is locked
out, which is what `raft_returns` checks of `RaftNode`. A client that opened a
stream sends its readings and closes it: one that stalls keeps every handler of its
stream waiting, and the code has no deadline against it. Elections and restarts owe
nothing, nor need a client open a stream.

`telemetry` assumes that the aggregator's loop and the handlers of subscribers
run. The alerter, readings, subscribers and faults owe nothing. The two liveness
properties are of the form "from some moment on": an entry, or the handler of a
departed client, may be in any state for a while, but not for ever.

`sensor_store` assumes that a thread that can run does, and that a
thread waiting for a lock that stays free gets it. Requests are finitely many, so
that nothing more is needed of `threading.Lock`.

## 4. What is proved

The theorems hold for every finite cluster, every set of readings and every
value of the bounds, so for the unbounded system. They assume the named
assumptions on the constants only: `NodeAssumption`, `ReadingAssumption`,
`BoundAssumption`, `ClusterAssumption`, `PeersAssumption`, `LengthAssumption` and
`StoreAssumption`, which say what kind of thing each
constant is.

| theorem | states |
|---|---|
| `RaftTypeProofs!TypeCorrect` | `Spec => []TypeOK` |
| `RaftElectionProofs!LeadersAreElected` | `Spec => []LeaderWasElected` |
| `RaftElectionProofs!BallotsCurrent` | `Spec => []BallotsAreForThisTerm` |
| `RaftElectionProofs!SplitTerms` | `Spec => []SplitTermNeedsForgottenVote` |
| `RaftElectionProofs!LeadersStepDown` | `Spec => StepsDownForHigherTerm` |
| `RaftLogProofs!HeartbeatsElected` | `Spec => []HeartbeatsAreFromElectedLeaders` |
| `RaftLogProofs!EntriesElected` | `Spec => []EntriesComeFromElectedLeaders` |
| `RaftLogProofs!OwnCommitsApplied` | `Spec => []AppliesOwnCommitsOnly` |
| `RaftLogProofs!ShowsLeaderView` | `Spec => ViewsChangeAsPromised` |
| `RaftLogProofs!ImplementsLeaderView` | `Spec => View!ViewSpec` |
| `IngestionProofs!TypeCorrect` | `Spec => []TypeOK` |
| `IngestionProofs!ForwardsAreToElected` | `Spec => []ForwardsToPastLeaders` |
| `IngestionProofs!StreamsFaithful` | `Spec => StreamsAreFaithful` |
| `IngestionProofs!SettledDirect` | `Spec => []SettledIsDirect` |
| `TelemetryProofs!TypeCorrect` | `Spec => []TypeOK` |
| `TelemetryProofs!CountedOnce` | `Spec => []AggregatedOnce` |
| `TelemetryProofs!AckedCounted` | `Spec => []AckedWereAggregated` |
| `TelemetryProofs!NeverSendsOnClosed` | `Spec => []NoSendOnClosedChannel` |
| `TelemetryProofs!OrderIsSeen` | `Spec => []SubscribersSeeOrder` |
| `TelemetryProofs!OnlyOverflowDrops` | `Spec => []GapsAreOverflow` |
| `TelemetryProofs!AlertsOnce` | `Spec => []AlertedOnce` |
| `TwoPhaseProofs!TypeCorrect` | `Spec => []TypeOK` |
| `TwoPhaseProofs!Agreement` | `Spec => []RunsAgree` |
| `TwoPhaseProofs!Unanimity` | `Spec => []CommitNeedsEveryVote` |
| `TwoPhaseProofs!SelfAbort` | `Spec => []AbortSelfForcesAbort` |
| `TwoPhaseProofs!Refinement` | `Spec => LastRunIsAtomic` |
| `SensorStoreProofs!TypeCorrect` | `Spec => []TypeOK` |
| `SensorStoreProofs!MisreadsComeFromKills` | `Spec => []MisreadNeedsKill` |
| `SensorStoreProofs!NoPostCompletes` | no reading is stored and no POST answered 201 |

**Elections.** The code does not check the term when it counts votes, and reads
the term of a vote request late. What saves it is an invariant that neither the
code nor its comments state, `CandidatesTerm`: as long as a node is candidate
its term is the one it started the election in, so each request it sent and each
vote it was granted belong to that term; anything that changes the term takes
the role away. With `ElectionsEnd` (no goroutine outlives its election, and a
leader is in none) this makes `CountVotes` establish `LeaderWasElected`, and
keeps `LearnTerm` from touching a leader, which is `LeadersStepDown`.
`VotesRemembered` says that a vote is forgotten, of an earlier term, or in
`votedFor`; from it follows `OneVotePerTerm`, and as two majorities share a
voter, `SplitTerms`. The conjunction `IInv` is inductive and no part of it is
without the others. `forgotten` grows in exactly two actions, `LearnTerm` and
`Reboot`: these two are the only ways the code can split a term.

**Logs and messages.** `LogInv` follows an entry through everything that can hold
one: a log, a message in flight whether or not someone waits for it, the goroutine of
a submission. An entry at index `i` is good (`GoodEntry`) if its term is that of one of
the submissions at `i` on elected leaders (`Makers`), and its command the reading
of one, or does not decode and there are two. A slot of a message is good
(`GoodSlots`) if every entry it may be found to hold is. Entries need not be as one
submission made them, because a slot overwritten while it is marshalled mixes two;
that the mixture is good is what makes the invariant inductive: all entries of a slot
are of one index, as a log is only ever replaced from its beginning. `LogsGood` says
it of all three places, and none could be left out: `AppendEntries` replaces a log by
what a message carries, writes what it carries into the slots of other messages, and
a message is built from a log. `SendersElected`
says that who sends `AppendEntries` was elected, in the very term of a heartbeat, and
never sends it, or a vote request, to itself. `ViewsChangeAsPromised` needs that: a
leader that hears itself would lose its name. It covers the requests that outlive
their call and the node that sent them.
`AppliesOwnCommitsOnly` rests on a fact that looks like an accident, `CommitsKnown`:
a node that learns a `commitIdx` from a leader locks itself out in the same handler,
so that a node that can still apply entries found their majority itself.
`AppliedKnown` carries that from the choice of an entry to its `XAdd`, as
`applyCommittedEntries` gives the lock back in between. A call that a restart cuts off
keeps what it knew: `lost` if it had not counted its replies, `halted` if a majority
had acknowledged it, and only the second counts. All of it relies on what no step takes back (`Kept`): votes stay in
the history, and a submission that began keeps its node, its term and its index. With
`CandidatesTerm` every step maps to a step of `LeaderView` or changes nothing it
shows, and that is `ImplementsLeaderView`.

**Two-phase commit.** The invariant says that a call in flight speaks for the
decision of its own run (`CallsFollow`), that the coordinator counts as yes
only what was prepared in this run and answered yes (`VotesTrue`), that a run is decided once
(`DecidedOnce`), and that a node did what its run decided (`DecisionsServed`).
The refinement uses it as the abstract guards: a commit needs every vote, and
excludes an abort.

**Ingestion.** `NamesElected` says that a leader was elected and that every name
in a `leaderId` belongs to a node that was; `HopsSound` says the same of the names
a handler holds, in a reply of `GetLeader` or as the address it dials. A name gets
into a `leaderId` from a leader that announces itself (`Hear`), from the node's own
election (`Win`), or from such a reply (`Adopt`), so that neither part is inductive
without the other. `led` never shrinks, which is why a reply that is stored late
does no harm. `CountsType` bounds what each handler received by what the one
before it did, which the type of `accepted` needs.

`ChainsInOrder` is the invariant of the refinement. Only the last handler of a
chain receives from it, submits and answers; those before it pass on. Thus what was
accepted is what the last handler got, or all but the reading it is submitting, and
a handler that acknowledges has got them all. The abstract `Refuse` takes a set of
streams: the proof attempt with a single one failed, and with two streams TLC shows
why, as a process that ends takes all its streams at once.
`DirectInv` says of a stream the cluster was settled for since it opened that its
second handler runs on the leader; a step of the Raft nodes changes one role
(`OneRole`), so that none replaces the leader of a settled cluster by another.

**Aggregator and alerter.** The proof has three parts. `BatchInv`: entries move from
the group to the batch and from the batch to the window in order, and the entry that
is about to be acknowledged is the only one of the batch that went through the
window. With it `AckedWereAggregated` is inductive, and `AggregatedOnce` follows.

`PubSubInv` is about one subscription, for any number of messages and any capacity.
The place of its handler says whether it is in the map and whether its channel is
closed (`PlaceOK`): it leaves the map before it closes, so that a broadcast finds no
closed channel. What the client got comes before what the handler holds, and that
before what is in the channel (`OrderOK`); and what was broadcast since it
subscribed and matches is in one of the three or was dropped (`NoneMissing`). It is
proved once, in `PubSubProofs`, for the steps a service can take with its
subscribers (`Step`), and used for metrics and for alerts.

`AlerterInv` ties the alerter's loop to its subscription: the metric in hand is the
last it received. `Latest` is the number of that metric, of the last one before
the subscription if nothing came by it, and of the last one at all while the alerter
dials. It never goes back, and every alert so far is about a metric up to it; from
that, and `SubscribersSeeOrder`, a metric raises each alert once. A client may
subscribe with any set of keys, and the type of a subscription admits whatever is
asked for.

**Sensor store.** The invariant lists the places of a handler by the steps it has
left. A GET has nine, four of them with the lock; a POST has three: it wants the
lock, it holds the lock and is to look for the file, or it holds the lock and wants
it again. The third has no successor, which is `NoPostCompletes`: no order of
requests and no kill gets a reading into the file. `TornHasWriter` says that a
file half written has a writer that holds the lock, or is the work of a kill; as
a reader holds the lock too, `MisreadsComeFromKills` follows.

Every type invariant, safety invariant, action property and refinement that the runs
check is proved. Only model-checked are the liveness properties, as fairness and
`ENABLED` are out of the prover's reach: `ElectionReturns`, `SubmissionReturns`,
`StreamEnds`, `EntriesAreCounted`, `GoneIsRemoved`, `RunEnds`, `PreparedIsReleased`
and `RequestReturns`. That the documentation's statements fail is shown by TLC's
counterexamples.

## 5. What is not modelled

* The query API keeps no state: whatever is asked, it returns ten fixed points.
* The dashboard reads the store's file without its lock and renders a page, an
  empty one if the file does not parse. It changes nothing.
* The load generators, benchmarks and test clients drive the system.
* Protobuf and gRPC code is generated. A call is a request that is delivered,
  answered, or fails; only the Raft requests and the stubs that open a stream
  are mapped to it.
* The Raft node's `XAdd` that fails is in `RaftNode`, but no property speaks of
  the reading that is then missing: nothing later in the code could notice.

## 6. Plan

Every component that keeps state is modelled, and what can be proved of the checked
properties is. What would say more:

1. Safety facts the liveness properties lean on, each for any instance: a node that is
   locked out stays so until it restarts, a handler that waits for `file_lock` in a
   POST of its own waits for ever, a prepared node is released by its run's decision
   and by nothing else.
2. `Telemetry` against an abstract queue: what a consumer group promises to the
   service behind it, with `AggregatedOnce` and `AckedWereAggregated` as the two
   halves of its refinement.
3. How far leader completeness holds: a forgotten vote can split a term, so TLC would
   first have to say whether committed entries are safe as long as `forgotten` is empty.
