-------------------------- MODULE TelemetryProperties --------------------------
(***************************************************************************)
(* What happens to a reading between Redis and the subscribers.            *)
(***************************************************************************)
EXTENDS Telemetry

Subscriptions(last) ==
  [st : {"none", "recv", "send", "leave", "close", "returned"},
   filter : Filter \cup {Key, {}}, registered : BOOLEAN, closed : BOOLEAN, gone : BOOLEAN, chan : Seq(1..last), held : 0..last,
   got : Seq(1..last), since : 0..last, dropped : SUBSET (1..last)]

\* The type invariant: channels within their capacity, numbers in range.
TypeOK ==
  /\ stream \in Seq(Entry) /\ group.last \in 0..Len(stream)
  /\ pending \subseteq 1..group.last /\ ToSet(batch) \subseteq 1..group.last
  /\ window \in [Key -> Seq(1..group.last)]
  /\ agg \in {"start", "read", "add", "ack"} /\ (agg \in {"add", "ack"} <=> batch # <<>>)
  /\ metricSubs \in [MetricSub -> Subscriptions(Len(metrics))]
  /\ alertSubs \in [AlertSub -> Subscriptions(Len(alerts))]
  /\ \A s \in MetricSub : Len(metricSubs[s].chan) <= Capacity
  /\ \A s \in AlertSub : Len(alertSubs[s].chan) <= Capacity
  /\ alerter.st \in {"dial", "recv", "temp", "hum"} /\ alerter.metric \in 0..Len(metrics)
  /\ threshold \in Thresholds /\ faults \in 0..MaxFaults

-------------------------------------------------------------------------------
\* No entry is counted twice, whatever crashed and restarted: the group hands
\* each one out once, and the aggregator asks for no old ones.
AggregatedOnce ==
  \A i, j \in DOMAIN aggregated : i < j => aggregated[i] < aggregated[j]

\* An entry is acknowledged only after it was counted: one that the group has
\* handed out and the window has not seen is still pending.
AckedWereAggregated ==
  \A i \in (group.from + 1)..group.last : i \in ToSet(aggregated) \cup pending

\* An entry added while the group exists is counted in the end.  The exceptions
\* are those the group handed out and nobody will ask for again: handed out
\* when the aggregator crashed, or in a reply that was lost.
EntriesAreCounted ==
  \A i \in 1..MaxEntries :
    <>[](i \in (group.from + 1)..Len(stream) /\ group.made
           => i \in ToSet(aggregated) \/ (i \in pending \ ToSet(batch) /\ faults > 0))

-------------------------------------------------------------------------------
\* No broadcast sends on a closed channel, however subscribers come and go.
NoSendOnClosedChannel == M!MapHoldsOpenChannels /\ A!MapHoldsOpenChannels

\* A subscriber gets what was broadcast after it subscribed, in that order and
\* nothing twice.
SubscribersSeeOrder == M!InOrder /\ A!InOrder

\* A subscriber that is served misses only what found its channel full.
GapsAreOverflow == M!GapsAreOverflow /\ A!GapsAreOverflow

\* When a client has gone away, the next message for it ends its handler and
\* takes its channel out of the map.  (With none that matches it stays.)
GoneIsRemoved ==
  /\ \A s \in MetricSub : <>[](metricSubs[s].gone /\ M!Owed(s) => metricSubs[s].st = "returned")
  /\ \A s \in AlertSub : <>[](alertSubs[s].gone /\ A!Owed(s) => alertSubs[s].st = "returned")

\* A metric raises an alert of one kind at most once, though the alerter and
\* the aggregator restart and subscriptions are renewed.
AlertedOnce ==
  \A i, j \in DOMAIN alerts :
    i < j /\ alerts[i].reason = alerts[j].reason => alerts[i].metric < alerts[j].metric

-------------------------------------------------------------------------------
AllAbove(k) == \A i \in DOMAIN stream : stream[i].key = k => stream[i].temp > threshold.temp

\* NOT kept.  A metric carries avg_temp and an alert has the reason TEMP_HIGH
\* (proto/telemetry.proto:37 and 50): where every reading of a sensor lies above
\* the threshold, so does their average, and once the alerter has compared it
\* with the threshold the alert is out.
HotMetricsRaiseAlerts ==
  alerter.st = "hum" /\ AllAbove(metrics[alerter.metric].key)
    => \E a \in ToSet(alerts) : a.metric = alerter.metric /\ a.reason = "TEMP_HIGH"
===============================================================================
