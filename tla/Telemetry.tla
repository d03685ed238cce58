------------------------------- MODULE Telemetry -------------------------------
(***************************************************************************)
(* From the Redis stream 'readings' to an alert: the aggregator            *)
(* (services/aggregator/main.go) reads the stream as a consumer group,     *)
(* keeps a window per sensor and broadcasts a metric for each reading; the *)
(* alerter (services/alerter/main.go) subscribes to the metrics and        *)
(* broadcasts alerts.  Both services may stop and start again; the stream  *)
(* and the group live in Redis.                                            *)
(***************************************************************************)
EXTENDS Integers, Sequences, SequencesExt

CONSTANTS Entry,        \* what a reading can be: [key, temp, hum]
          MetricSub,    \* subscriptions to metrics
          AlertSub,     \* subscriptions to alerts
          Filter,       \* what clients ask for: sets of keys
          Thresholds,   \* what the thresholds may be configured to: [temp, hum]
          Capacity,     \* of a subscriber's channel
          Count,        \* entries XReadGroup returns at most, 200 in the code
          MaxEntries,   \* bound: readings added to the stream
          MaxFaults     \* bound: crashes, failed Redis calls, clients that leave

ASSUME BoundAssumption == Count \in Nat \ {0} /\ {Capacity, MaxEntries, MaxFaults} \subseteq Nat

VARIABLES
  stream, group, pending,  \* in Redis: entries; the group, and what it has not acknowledged
  batch, window,           \* the aggregator: entries in hand, metricWin.data
  agg,                     \* its consumer loop: "start", "read", "add" or "ack"
  metricSubs, metrics,     \* its subscribers, and all metrics so far
  alerter, threshold,      \* the alerter's metrics loop, and its configuration
  alertSubs, alerts,       \* its subscribers, and all alerts so far
  aggregated,              \* history: entries that went through the window
  faults                   \* crashes, failed calls and departures so far

redisVars == <<stream, group, pending>>
aggVars == <<batch, window, agg, aggregated>>
metricVars == <<metricSubs, metrics>>
alertVars == <<alerter, threshold, alertSubs, alerts>>
vars == <<redisVars, aggVars, metricVars, alertVars, faults>>

M == INSTANCE PubSub WITH Sub <- MetricSub, subs <- metricSubs, posted <- metrics
A == INSTANCE PubSub WITH Sub <- AlertSub, subs <- alertSubs, posted <- alerts

Key == {e.key : e \in Entry}
NewWindow == [k \in Key |-> <<>>]
NewAlerter == [st |-> "dial", sub |-> "none", seen |-> 0, metric |-> 0]

Init ==
  /\ stream = <<>> /\ group = [made |-> FALSE, last |-> 0, from |-> 0] /\ pending = {}
  /\ batch = <<>> /\ window = NewWindow /\ agg = "start"
  /\ M!Init /\ A!Init
  /\ alerter = NewAlerter /\ threshold \in Thresholds
  /\ aggregated = <<>> /\ faults = 0

Fault == faults < MaxFaults /\ faults' = faults + 1

-------------------------------------------------------------------------------
(* Redis and the consumer loop of the aggregator.                          *)

\* A Raft node applies a reading.
XAdd(e) ==
  /\ Len(stream) < MaxEntries
  /\ stream' = Append(stream, e)
  /\ UNCHANGED <<group, pending, aggVars, metricVars, alertVars, faults>>

NewGroup == [made |-> TRUE, last |-> Len(stream), from |-> Len(stream)]

\* The aggregator starts.  The group begins at the end of the stream; that it
\* exists already, or that Redis cannot be reached, is not looked at.
StartAggregator ==
  /\ agg = "start" /\ agg' = "read"
  /\ \/ group' = (IF group.made THEN group ELSE NewGroup)
        /\ UNCHANGED faults
     \/ Fault /\ UNCHANGED group
  /\ UNCHANGED <<stream, pending, batch, window, aggregated, metricVars, alertVars>>

\* What XReadGroup hands out: entries never handed out before, marked '>'.
Upto(k) == IF k > group.last + Count THEN group.last + Count ELSE k
Unacknowledged == SetToSortSeq(pending \cup (group.last + 1)..Upto(Len(stream)), <)
AllButNewest == [i \in 1..(Upto(Len(stream)) - group.last - 1) |-> group.last + i]
Undelivered == [i \in 1..(Upto(Len(stream)) - group.last) |-> group.last + i]

\* XAck before the entry is worked on.
AckAhead ==
  /\ agg = "read" /\ group.made /\ Undelivered # <<>>
  /\ group' = [group EXCEPT !.last = Upto(Len(stream))]
  /\ batch' = Undelivered /\ agg' = "add"
  /\ UNCHANGED <<stream, pending, window, aggregated, metricVars, alertVars, faults>>

\* Its reply may be lost: an error is logged and the loop goes on.
ReadGroup ==
  /\ agg = "read" /\ group.made /\ Undelivered # <<>>
  /\ group' = [group EXCEPT !.last = Upto(Len(stream))]
  /\ pending' = pending \cup ToSet(Undelivered)
  /\ \/ batch' = Undelivered /\ agg' = "add" /\ UNCHANGED faults
     \/ Fault /\ UNCHANGED <<batch, agg>>
  /\ UNCHANGED <<stream, window, aggregated, metricVars, alertVars>>

\* The values an entry gives the reading: temperature and humidity are looked
\* up and thrown away.
Temperature(e) == 0
Humidity(e) == 0

\* The average, rounded up: against a whole threshold, that compares as well.
Total(values) == FoldSeq(LAMBDA v, sum : sum + v, 0, values)
Average(values) == -((-Total(values)) \div Len(values))

Metric(k, over) ==
  [key |-> k, avgTemp |-> Average([j \in DOMAIN over |-> Temperature(stream[over[j]])]),
              avgHumidity |-> Average([j \in DOMAIN over |-> Humidity(stream[over[j]])])]

\* The entry goes into its window and those older than ten seconds leave it:
\* the first few, as all are stamped with the time they were read.  If even the
\* new one is too old (the process was suspended) there is no metric.
Aggregate ==
  LET i == Head(batch)
      k == stream[i].key
      items == Append(window[k], i)
  IN /\ agg = "add" /\ agg' = "ack"
     /\ \E left \in 0..Len(items) :
          LET kept == SubSeq(items, Len(items) - left + 1, Len(items))
          IN /\ window' = [window EXCEPT ![k] = kept]
             /\ IF kept = <<>> THEN UNCHANGED metricVars ELSE M!Broadcast(Metric(k, kept))
     /\ aggregated' = Append(aggregated, i)
     /\ UNCHANGED <<redisVars, batch, alertVars, faults>>

\* XAck, whose error is not looked at.
AckEntry ==
  /\ agg = "ack"
  /\ \/ pending' = pending \ {Head(batch)} /\ UNCHANGED faults
     \/ Fault /\ UNCHANGED pending
  /\ batch' = Tail(batch)
  /\ agg' = IF Len(batch) = 1 THEN "read" ELSE "add"
  /\ UNCHANGED <<stream, group, window, aggregated, metricVars, alertVars>>

CrashAggregator ==
  /\ agg # "start" /\ Fault
  /\ agg' = "start" /\ batch' = <<>> /\ window' = NewWindow
  /\ M!Stop
  /\ UNCHANGED <<redisVars, aggregated, alertVars>>

-------------------------------------------------------------------------------
(* Subscribers of the metrics.  The alerter is one of them.                *)

SubscribeMetrics(s) ==
  /\ agg # "start"
  /\ \E keys \in Filter : M!Subscribe(s, keys)
  /\ UNCHANGED <<redisVars, aggVars, alertVars, faults>>

ServeMetrics(s) ==
  /\ M!Handler(s)
  /\ UNCHANGED <<redisVars, aggVars, alertVars, faults>>

LeaveMetrics(s) ==
  /\ s # alerter.sub
  /\ M!Leave(s) /\ Fault
  /\ UNCHANGED <<redisVars, aggVars, alertVars>>

\* The alerter's loop dials and subscribes; it tries again until it succeeds.
WatchMetrics(s) ==
  /\ alerter.st = "dial" /\ agg # "start"
  /\ M!Subscribe(s, Key)
  /\ alerter' = [NewAlerter EXCEPT !.st = "recv", !.sub = s]
  /\ UNCHANGED <<redisVars, aggVars, threshold, alertSubs, alerts, faults>>

ReceiveMetric ==
  /\ alerter.st = "recv"
  /\ alerter.seen < Len(metricSubs[alerter.sub].got)
  /\ alerter' = [alerter EXCEPT !.st = "temp", !.seen = @ + 1,
                                !.metric = metricSubs[alerter.sub].got[alerter.seen + 1]]
  /\ UNCHANGED <<redisVars, aggVars, metricVars, threshold, alertSubs, alerts, faults>>

\* Recv returns an error: the stream ended, or the connection broke and the
\* handler does not know yet.  What was sent and not received goes with it.
LoseMetrics ==
  /\ alerter.st = "recv"
  /\ alerter' = NewAlerter
  /\ \/ metricSubs[alerter.sub].st = "returned" /\ UNCHANGED <<metricVars, faults>>
     \/ M!Leave(alerter.sub) /\ Fault
  /\ UNCHANGED <<redisVars, aggVars, threshold, alertSubs, alerts>>

Alert(reason) == [key |-> metrics[alerter.metric].key, reason |-> reason, metric |-> alerter.metric]

\* A metric is compared with both thresholds, one after the other.
CheckTemp ==
  /\ alerter.st = "temp"
  /\ alerter' = [alerter EXCEPT !.st = "hum"]
  /\ IF metrics[alerter.metric].avgTemp > threshold.temp
       THEN A!Broadcast(Alert("TEMP_HIGH")) ELSE UNCHANGED <<alertSubs, alerts>>
  /\ UNCHANGED <<redisVars, aggVars, metricVars, threshold, faults>>

CheckHumidityAsTemp ==
  /\ alerter.st = "hum"
  /\ alerter' = [alerter EXCEPT !.st = "recv", !.metric = 0]
  /\ IF metrics[alerter.metric].avgHumidity > threshold.hum
       THEN A!Broadcast(Alert("TEMP_HIGH")) ELSE UNCHANGED <<alertSubs, alerts>>
  /\ UNCHANGED <<redisVars, aggVars, metricVars, threshold, faults>>
CheckHumidity ==
  /\ alerter.st = "hum"
  /\ alerter' = [alerter EXCEPT !.st = "recv", !.metric = 0]
  /\ IF metrics[alerter.metric].avgHumidity > threshold.hum
       THEN A!Broadcast(Alert("HUMID_HIGH")) ELSE UNCHANGED <<alertSubs, alerts>>
  /\ UNCHANGED <<redisVars, aggVars, metricVars, threshold, faults>>

CrashAlerter ==
  /\ Fault
  /\ alerter' = NewAlerter
  /\ IF alerter.st # "dial" /\ metricSubs[alerter.sub].st # "returned"
       THEN M!Leave(alerter.sub) ELSE UNCHANGED metricVars
  /\ A!Stop
  /\ UNCHANGED <<redisVars, aggVars, threshold>>

-------------------------------------------------------------------------------
(* Subscribers of the alerts.                                              *)

SubscribeAlerts(s) ==
  /\ \E keys \in Filter : A!Subscribe(s, keys)
  /\ UNCHANGED <<redisVars, aggVars, metricVars, alerter, threshold, faults>>

ServeAlerts(s) ==
  /\ A!Handler(s)
  /\ UNCHANGED <<redisVars, aggVars, metricVars, alerter, threshold, faults>>

LeaveAlerts(s) ==
  /\ A!Leave(s) /\ Fault
  /\ UNCHANGED <<redisVars, aggVars, metricVars, alerter, threshold>>

-------------------------------------------------------------------------------
Consume == StartAggregator \/ ReadGroup \/ Aggregate \/ AckEntry
Watch == ReceiveMetric \/ CheckTemp \/ CheckHumidity \/ LoseMetrics \/ \E s \in MetricSub : WatchMetrics(s)

Next ==
  \/ \E e \in Entry : XAdd(e)
  \/ Consume \/ CrashAggregator
  \/ Watch \/ CrashAlerter
  \/ \E s \in MetricSub : SubscribeMetrics(s) \/ ServeMetrics(s) \/ LeaveMetrics(s)
  \/ \E s \in AlertSub : SubscribeAlerts(s) \/ ServeAlerts(s) \/ LeaveAlerts(s)

Spec == Init /\ [][Next]_vars

\* The goroutines run, and the containers are started again.  Nothing makes
\* readings, subscribers or faults come.
Fairness ==
  /\ WF_vars(Consume)
  /\ \A s \in MetricSub : WF_vars(ServeMetrics(s))
  /\ \A s \in AlertSub : WF_vars(ServeAlerts(s))

FairSpec == Spec /\ Fairness
===============================================================================
