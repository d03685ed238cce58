----------------------------- MODULE TelemetryProofs -----------------------------
(***************************************************************************)
(* What happens to readings, metrics and alerts, for any readings, any     *)
(* subscribers and every value of the bounds.                              *)
(***************************************************************************)
EXTENDS TelemetryProperties, FiniteSetTheorems, SequenceTheorems, TLAPS

MP == INSTANCE PubSubProofs WITH Sub <- MetricSub, subs <- metricSubs, posted <- metrics
AP == INSTANCE PubSubProofs WITH Sub <- AlertSub, subs <- alertSubs, posted <- alerts

\* What a subscriber may have asked for: the alerter asks for everything.
Asked == Filter \cup {Key, {}}

\* The stream, the group, and what the aggregator has in hand.  Numbers go from
\* the group to the batch, and from the batch to what was aggregated.
StreamInv ==
  /\ stream \in Seq(Entry)
  /\ group \in [made : BOOLEAN, last : Nat, from : Nat]
  /\ group.from <= group.last /\ group.last <= Len(stream)
  /\ ~group.made => group.last = 0
  /\ pending \subseteq 1..group.last
  /\ batch \in Seq(1..group.last) /\ aggregated \in Seq(1..group.last)
  /\ window \in [Key -> Seq(1..group.last)]
  /\ agg \in {"start", "read", "add", "ack"} /\ (agg \in {"add", "ack"} <=> batch # <<>>)
  /\ faults \in 0..MaxFaults /\ threshold \in Thresholds

\* The aggregator works through its batch in order; the entry it is about to
\* acknowledge is the only one of the batch that was aggregated.
BatchInv ==
  /\ M!Increasing(batch) /\ M!Increasing(aggregated)
  /\ agg = "ack" => batch[1] \in ToSet(aggregated)
  /\ \A i \in DOMAIN aggregated, j \in DOMAIN batch :
       aggregated[i] < batch[j] \/ (agg = "ack" /\ j = 1)

\* The alerter's own subscription: it stays until the alerter gives it up, and
\* the metric in hand is the last it received.
AlerterInv ==
  /\ alerter \in [st : {"dial", "recv", "temp", "hum"}, sub : MetricSub \cup {"none"}, seen : Nat, metric : Nat]
  /\ alerter.st = "dial" => alerter = NewAlerter
  /\ alerter.st # "dial" =>
       /\ alerter.sub \in MetricSub
       /\ metricSubs[alerter.sub].st \in {"recv", "send", "returned"} /\ ~metricSubs[alerter.sub].gone
       /\ alerter.seen <= Len(metricSubs[alerter.sub].got)
  /\ alerter.st \in {"temp", "hum"} => alerter.seen > 0 /\ alerter.metric = metricSubs[alerter.sub].got[alerter.seen]
  /\ alerter.st = "recv" => alerter.metric = 0

\* Alerts so far are about metrics the alerter received before: before its
\* subscription, if nothing came by it.
Latest ==
  IF alerter.st = "dial" THEN Len(metrics)
  ELSE IF alerter.seen = 0 THEN metricSubs[alerter.sub].since
  ELSE metricSubs[alerter.sub].got[alerter.seen]

AlertsInv ==
  /\ AlertedOnce
  /\ \A i \in DOMAIN alerts :
       /\ alerts[i].reason \in {"TEMP_HIGH", "HUMID_HIGH"}
       /\ alerts[i].metric \in 0..Latest
       /\ alerter.st = "temp" => alerts[i].metric < alerter.metric
       /\ alerter.st = "hum" /\ alerts[i].reason = "HUMID_HIGH" => alerts[i].metric < alerter.metric

IInv ==
  StreamInv /\ BatchInv /\ AckedWereAggregated /\ MP!PubSubInv(Asked) /\ AP!PubSubInv(Asked) /\ AlerterInv /\ AlertsInv
-------------------------------------------------------------------------------
\* The lemmas about PubSub speak of the subscriptions of both services.
LEMMA MetricOps ==
  /\ M!Init <=> MP!Init
  /\ \A s, keys : M!Subscribe(s, keys) <=> MP!Subscribe(s, keys)
  /\ \A s : M!Handler(s) <=> MP!Handler(s)
  /\ \A s : M!Leave(s) <=> MP!Leave(s)
  /\ \A m : M!Broadcast(m) <=> MP!Broadcast(m)
  /\ M!Stop <=> MP!Stop
  /\ M!MapHoldsOpenChannels <=> MP!MapHoldsOpenChannels
  /\ M!InOrder <=> MP!InOrder
  /\ M!GapsAreOverflow <=> MP!GapsAreOverflow
  /\ \A q : M!Increasing(q) <=> MP!Increasing(q)
BY DEF M!Subscribe, MP!Subscribe, M!Handler, MP!Handler, M!Take, MP!Take, M!Send, MP!Send, M!SendFails,
       MP!SendFails, M!Unregister, MP!Unregister, M!Close, MP!Close, M!Leave, MP!Leave, M!Become,
       MP!Become, M!Broadcast, MP!Broadcast, M!Stop, MP!Stop, M!Stopped, MP!Stopped, M!Fits, MP!Fits,
       M!NewSub, MP!NewSub, M!Matches, MP!Matches, M!Init, MP!Init, M!MapHoldsOpenChannels,
       MP!MapHoldsOpenChannels, M!InOrder, MP!InOrder, M!GapsAreOverflow, MP!GapsAreOverflow,
       M!Increasing, MP!Increasing, M!Queue, MP!Queue, M!Elements, MP!Elements

LEMMA AlertOps ==
  /\ A!Init <=> AP!Init
  /\ \A s, keys : A!Subscribe(s, keys) <=> AP!Subscribe(s, keys)
  /\ \A s : A!Handler(s) <=> AP!Handler(s)
  /\ \A s : A!Leave(s) <=> AP!Leave(s)
  /\ \A m : A!Broadcast(m) <=> AP!Broadcast(m)
  /\ A!Stop <=> AP!Stop
  /\ A!MapHoldsOpenChannels <=> AP!MapHoldsOpenChannels
  /\ A!InOrder <=> AP!InOrder
  /\ A!GapsAreOverflow <=> AP!GapsAreOverflow
  /\ \A q : A!Increasing(q) <=> AP!Increasing(q)
BY DEF A!Subscribe, AP!Subscribe, A!Handler, AP!Handler, A!Take, AP!Take, A!Send, AP!Send, A!SendFails,
       AP!SendFails, A!Unregister, AP!Unregister, A!Close, AP!Close, A!Leave, AP!Leave, A!Become,
       AP!Become, A!Broadcast, AP!Broadcast, A!Stop, AP!Stop, A!Stopped, AP!Stopped, A!Fits, AP!Fits,
       A!NewSub, AP!NewSub, A!Matches, AP!Matches, A!Init, AP!Init, A!MapHoldsOpenChannels,
       AP!MapHoldsOpenChannels, A!InOrder, AP!InOrder, A!GapsAreOverflow, AP!GapsAreOverflow,
       A!Increasing, AP!Increasing, A!Queue, AP!Queue, A!Elements, AP!Elements

-------------------------------------------------------------------------------
(* The stream and the aggregator.                                          *)

LEMMA IndexedSeq == ASSUME NEW S, NEW n \in Nat, NEW f \in [1..n -> S] PROVE f \in Seq(S)
OBVIOUS

\* What the group hands out comes next, in order, and is what it counts as
\* delivered.
LEMMA HandedOut ==
  ASSUME StreamInv, Undelivered # <<>>, NEW last, last = Upto(Len(stream)), NEW new, new = Undelivered
  PROVE  /\ last \in Nat /\ group.last < last /\ last <= Len(stream)
         /\ new \in Seq(1..last) /\ DOMAIN new = 1..(last - group.last)
         /\ \A i \in DOMAIN new : new[i] = group.last + i
         /\ ToSet(new) = (group.last + 1)..last
<1>1. group.last \in Nat /\ Len(stream) \in Nat /\ group.last <= Len(stream) /\ Count \in Nat \ {0}
  BY BoundAssumption, LenProperties DEF StreamInv
<1>2. last \in Nat /\ last <= Len(stream) /\ group.last <= last
  BY <1>1 DEF Upto
<1>3. new = [i \in 1..(last - group.last) |-> group.last + i]
  BY DEF Undelivered
<1>4. group.last < last
  <2>1. SUFFICES ASSUME group.last = last PROVE FALSE
    BY <1>1, <1>2
  <2>2. 1..(last - group.last) = {}
    BY <1>1, <2>1
  <2>. QED
    BY <1>3, <2>2
<1>5. new \in Seq(1..last)
  <2>1. last - group.last \in Nat /\ \A i \in 1..(last - group.last) : group.last + i \in 1..last
    BY <1>1, <1>2
  <2>2. new \in [1..(last - group.last) -> 1..last]
    BY <1>3, <2>1
  <2>. QED
    BY <2>1, <2>2, IndexedSeq
<1>6. ToSet(new) = (group.last + 1)..last
  <2>1. ASSUME NEW k \in (group.last + 1)..last PROVE k - group.last \in 1..(last - group.last) /\ group.last + (k - group.last) = k
    BY <1>1, <1>2, <2>1
  <2>2. ASSUME NEW i \in 1..(last - group.last) PROVE group.last + i \in (group.last + 1)..last
    BY <1>1, <1>2, <2>2
  <2>. QED
    BY <1>3, <2>1, <2>2 DEF ToSet
<1>. QED
  BY <1>2, <1>3, <1>4, <1>5, <1>6

\* The alerter and the subscribers leave the stream to the aggregator.
LEMMA OthersLeaveStream ==
  ASSUME \/ Watch \/ CrashAlerter
         \/ \E s \in MetricSub : SubscribeMetrics(s) \/ ServeMetrics(s) \/ LeaveMetrics(s)
         \/ \E s \in AlertSub : SubscribeAlerts(s) \/ ServeAlerts(s) \/ LeaveAlerts(s)
  PROVE  UNCHANGED <<redisVars, aggVars, threshold>> /\ (Fault \/ UNCHANGED faults)
<1>1. CASE Watch
  BY <1>1 DEF Watch, ReceiveMetric, CheckTemp, CheckHumidity, LoseMetrics, WatchMetrics
<1>2. CASE CrashAlerter
  BY <1>2 DEF CrashAlerter
<1>3. ASSUME NEW s \in MetricSub, SubscribeMetrics(s) \/ ServeMetrics(s) \/ LeaveMetrics(s)
      PROVE  UNCHANGED <<redisVars, aggVars, threshold>> /\ (Fault \/ UNCHANGED faults)
  BY <1>3 DEF SubscribeMetrics, ServeMetrics, LeaveMetrics, alertVars
<1>4. ASSUME NEW s \in AlertSub, SubscribeAlerts(s) \/ ServeAlerts(s) \/ LeaveAlerts(s)
      PROVE  UNCHANGED <<redisVars, aggVars, threshold>> /\ (Fault \/ UNCHANGED faults)
  BY <1>4 DEF SubscribeAlerts, ServeAlerts, LeaveAlerts
<1>. QED
  BY <1>1, <1>2, <1>3, <1>4

LEMMA FaultsCounted == ASSUME StreamInv, Fault \/ UNCHANGED faults PROVE faults' \in 0..MaxFaults
BY BoundAssumption DEF StreamInv, Fault

LEMMA StreamSteps ==
  ASSUME StreamInv, Next
  PROVE  StreamInv'
<1>1. /\ stream \in Seq(Entry) /\ group \in [made : BOOLEAN, last : Nat, from : Nat]
      /\ group.last \in Nat /\ group.from \in Nat /\ group.from <= group.last /\ group.last <= Len(stream)
      /\ Len(stream) \in Nat /\ pending \subseteq 1..group.last
      /\ batch \in Seq(1..group.last) /\ aggregated \in Seq(1..group.last)
      /\ window \in [Key -> Seq(1..group.last)]
  BY LenProperties DEF StreamInv
\* What a step of the aggregator has to keep, when the group is as it was.
<1>2. ASSUME UNCHANGED <<stream, group, threshold>>, Fault \/ UNCHANGED faults,
             pending' \subseteq 1..group.last, batch' \in Seq(1..group.last), aggregated' \in Seq(1..group.last),
             window' \in [Key -> Seq(1..group.last)],
             agg' \in {"start", "read", "add", "ack"}, agg' \in {"add", "ack"} <=> batch' # <<>>
      PROVE  StreamInv'
  BY <1>2, FaultsCounted DEF StreamInv
<1>3. ASSUME NEW e \in Entry, XAdd(e) PROVE StreamInv'
  <2>1. stream' \in Seq(Entry) /\ Len(stream') = Len(stream) + 1
    BY <1>1, <1>3, AppendProperties DEF XAdd
  <2>2. UNCHANGED <<group, pending, batch, window, agg, aggregated, threshold, faults>>
    BY <1>3 DEF XAdd, aggVars, alertVars
  <2>3. group'.last <= Len(stream')
    BY <1>1, <2>1, <2>2
  <2>. QED
    BY <2>1, <2>2, <2>3 DEF StreamInv
<1>4. CASE StartAggregator
  <2>1. UNCHANGED <<stream, pending, batch, window, aggregated, threshold>> /\ agg = "start" /\ agg' = "read"
    BY <1>4 DEF StartAggregator, alertVars
  <2>2. batch = <<>>
    BY <2>1 DEF StreamInv
  <2>3. CASE UNCHANGED group
    <3>1. Fault \/ UNCHANGED faults
      BY <1>4 DEF StartAggregator
    <3>. QED
      BY <1>1, <1>2, <2>1, <2>2, <2>3, <3>1
  <2>4. CASE ~UNCHANGED group
    <3>1. group' = NewGroup /\ ~group.made /\ UNCHANGED faults
      BY <1>4, <2>4 DEF StartAggregator
    <3>2. group.last = 0
      BY <3>1 DEF StreamInv
    <3>3. /\ group' \in [made : BOOLEAN, last : Nat, from : Nat] /\ group'.last = Len(stream)
          /\ group'.from = Len(stream) /\ group'.made
      BY <1>1, <3>1 DEF NewGroup
    <3>4. Seq(1..group.last) \subseteq Seq(1..group'.last) /\ 1..group.last \subseteq 1..group'.last
      <4>1. 1..group.last \subseteq 1..group'.last
        BY <1>1, <3>3
      <4>. QED
        BY <4>1, MP!SeqGrows
    <3>. QED
      BY <1>1, <2>1, <3>1, <3>3, <3>4 DEF StreamInv
  <2>. QED
    BY <2>3, <2>4
<1>5. CASE ReadGroup
  <2>. DEFINE last == Upto(Len(stream))
              new == Undelivered
  <2>1. /\ agg = "read" /\ new # <<>> /\ group' = [group EXCEPT !.last = last]
        /\ pending' = pending \cup ToSet(new)
        /\ UNCHANGED <<stream, window, aggregated, threshold>>
        /\ \/ batch' = new /\ agg' = "add" /\ UNCHANGED faults
           \/ Fault /\ UNCHANGED <<batch, agg>>
    BY <1>5 DEF ReadGroup, alertVars
  <2>2. /\ last \in Nat /\ group.last < last /\ last <= Len(stream)
        /\ new \in Seq(1..last) /\ ToSet(new) = (group.last + 1)..last
    BY <2>1, HandedOut
  <2>. HIDE DEF last, new
  <2>3. /\ group' \in [made : BOOLEAN, last : Nat, from : Nat] /\ group'.last = last
        /\ group'.from = group.from /\ group'.made = group.made /\ group.made
    BY <1>1, <1>5, <2>1, <2>2 DEF ReadGroup
  <2>4. Seq(1..group.last) \subseteq Seq(1..last) /\ 1..group.last \subseteq 1..last
    <3>1. 1..group.last \subseteq 1..last
      BY <1>1, <2>2
    <3>. QED
      BY <3>1, MP!SeqGrows
  <2>5. pending' \subseteq 1..last
    <3>1. (group.last + 1)..last \subseteq 1..last
      BY <1>1
    <3>. QED
      BY <1>1, <2>1, <2>2, <2>4, <3>1
  <2>6. batch' \in Seq(1..last) /\ agg' \in {"start", "read", "add", "ack"} /\ (agg' \in {"add", "ack"} <=> batch' # <<>>)
    BY <1>1, <2>1, <2>2, <2>4 DEF StreamInv
  <2>7. faults' \in 0..MaxFaults
    BY <2>1, FaultsCounted
  <2>8. aggregated' \in Seq(1..last) /\ window' \in [Key -> Seq(1..last)]
    BY <1>1, <2>1, <2>4
  <2>9. group'.from <= last
    BY <1>1, <2>2, <2>3
  <2>. QED
    BY <1>1, <2>1, <2>2, <2>3, <2>5, <2>6, <2>7, <2>8, <2>9 DEF StreamInv
<1>6. CASE Aggregate
  <2>1. agg = "add" /\ batch # <<>>
    BY <1>6 DEF Aggregate, StreamInv
  <2>. DEFINE i == Head(batch)
              k == stream[i].key
              items == Append(window[k], i)
  <2>2. i \in 1..group.last /\ k \in Key
    <3>1. i \in 1..group.last
      BY <1>1, <2>1, HeadTailProperties
    <3>2. i \in 1..Len(stream)
      BY <1>1, <3>1
    <3>3. stream[i] \in Entry
      BY <1>1, <3>2, ElementOfSeq
    <3>. QED
      BY <3>1, <3>3 DEF Key
  <2>3. items \in Seq(1..group.last) /\ Len(items) \in Nat
    BY <1>1, <2>2, AppendProperties, LenProperties
  <2>4. PICK left \in 0..Len(items) :
          window' = [window EXCEPT ![k] = SubSeq(items, Len(items) - left + 1, Len(items))]
    BY <1>6 DEF Aggregate
  <2>5. aggregated' = Append(aggregated, i) /\ agg' = "ack" /\ UNCHANGED <<stream, group, pending, batch, threshold, faults>>
    BY <1>6 DEF Aggregate, redisVars, alertVars
  <2>. HIDE DEF i, k, items
  <2>6. SubSeq(items, Len(items) - left + 1, Len(items)) \in Seq(1..group.last)
    <3>1. Len(items) - left + 1 \in Int /\ Len(items) \in Int
      BY <2>3
    <3>2. ASSUME NEW j \in (Len(items) - left + 1)..Len(items) PROVE items[j] \in 1..group.last
      <4>1. j \in 1..Len(items)
        BY <2>3
      <4>. QED
        BY <2>3, <4>1, ElementOfSeq
    <3>. QED
      BY <3>1, <3>2, SubSeqProperties
  <2>7. window' \in [Key -> Seq(1..group.last)]
    BY <1>1, <2>4, <2>6
  <2>8. aggregated' \in Seq(1..group.last)
    BY <1>1, <2>2, <2>5, AppendProperties
  <2>. QED
    BY <1>1, <1>2, <2>1, <2>5, <2>7, <2>8
<1>7. CASE AckEntry
  <2>1. batch # <<>> /\ Tail(batch) \in Seq(1..group.last) /\ Len(batch) \in Nat \ {0} /\ Len(Tail(batch)) = Len(batch) - 1
    BY <1>1, <1>7, HeadTailProperties, EmptySeq DEF AckEntry, StreamInv
  <2>2. /\ batch' = Tail(batch) /\ agg' = (IF Len(batch) = 1 THEN "read" ELSE "add")
        /\ pending' \subseteq pending /\ (Fault \/ UNCHANGED faults)
        /\ UNCHANGED <<stream, group, window, aggregated, threshold>>
    BY <1>7 DEF AckEntry, alertVars
  <2>3. Len(batch) = 1 <=> Tail(batch) = <<>>
    <3>. DEFINE rest == Tail(batch)
    <3>1. rest \in Seq(1..group.last) /\ Len(rest) = Len(batch) - 1 /\ Len(batch) \in Nat
      BY <2>1
    <3>. HIDE DEF rest
    <3>2. rest = <<>> <=> Len(rest) = 0
      BY <3>1, EmptySeq
    <3>3. Len(rest) = 0 <=> Len(batch) = 1
      BY <3>1
    <3>. QED
      BY <3>2, <3>3 DEF rest
  <2>. QED
    BY <1>1, <1>2, <2>1, <2>2, <2>3
<1>8. CASE CrashAggregator
  <2>1. /\ Fault /\ agg' = "start" /\ batch' = <<>> /\ window' = NewWindow
        /\ UNCHANGED <<stream, group, pending, aggregated, threshold>>
    BY <1>8 DEF CrashAggregator, redisVars, alertVars
  <2>2. <<>> \in Seq(1..group.last)
    BY EmptySeq
  <2>3. NewWindow \in [Key -> Seq(1..group.last)]
    BY <2>2 DEF NewWindow
  <2>. QED
    BY <1>1, <1>2, <2>1, <2>2, <2>3
<1>9. ASSUME UNCHANGED <<redisVars, aggVars, threshold>>, Fault \/ UNCHANGED faults PROVE StreamInv'
  <2>1. UNCHANGED <<stream, group, pending, batch, window, agg, aggregated, threshold>>
    BY <1>9 DEF redisVars, aggVars
  <2>2. agg \in {"start", "read", "add", "ack"} /\ (agg \in {"add", "ack"} <=> batch # <<>>)
    BY DEF StreamInv
  <2>. QED
    BY <1>1, <1>2, <1>9, <2>1, <2>2
<1>. QED
  BY <1>3, <1>4, <1>5, <1>6, <1>7, <1>8, <1>9, OthersLeaveStream DEF Next, Consume

LEMMA BatchSteps ==
  ASSUME StreamInv, BatchInv, AckedWereAggregated, Next
  PROVE  BatchInv' /\ AckedWereAggregated'
<1>1. /\ group.last \in Nat /\ group.from \in Nat
      /\ batch \in Seq(1..group.last) /\ Len(batch) \in Nat /\ DOMAIN batch = 1..Len(batch)
      /\ \A j \in DOMAIN batch : batch[j] \in 1..group.last
      /\ aggregated \in Seq(1..group.last) /\ Len(aggregated) \in Nat /\ DOMAIN aggregated = 1..Len(aggregated)
      /\ \A i \in DOMAIN aggregated : aggregated[i] \in 1..group.last
  <2>1. /\ group.last \in Nat /\ group.from \in Nat
        /\ batch \in Seq(1..group.last) /\ aggregated \in Seq(1..group.last)
    BY DEF StreamInv
  <2>2. Len(batch) \in Nat /\ DOMAIN batch = 1..Len(batch) /\ \A j \in DOMAIN batch : batch[j] \in 1..group.last
    BY <2>1, LenProperties
  <2>3. /\ Len(aggregated) \in Nat /\ DOMAIN aggregated = 1..Len(aggregated)
        /\ \A i \in DOMAIN aggregated : aggregated[i] \in 1..group.last
    BY <2>1, LenProperties
  <2>. QED
    BY <2>1, <2>2, <2>3, Zenon
<1>2. M!Increasing(<<>>) /\ DOMAIN <<>> = {}
  BY DEF M!Increasing
<1>3. ASSUME UNCHANGED <<group, pending, batch, agg, aggregated>> PROVE BatchInv' /\ AckedWereAggregated'
  BY <1>3 DEF BatchInv, AckedWereAggregated
\* Nothing in hand, nothing acknowledged.
<1>4. ASSUME batch' = <<>>, agg' # "ack", UNCHANGED <<pending, aggregated>>,
             UNCHANGED group \/ (group'.from = group'.last /\ group'.last \in Nat)
      PROVE  BatchInv' /\ AckedWereAggregated'
  <2>1. BatchInv'
    BY <1>2, <1>4 DEF BatchInv
  <2>2. AckedWereAggregated'
    BY <1>4 DEF AckedWereAggregated
  <2>. QED
    BY <2>1, <2>2
<1>5. CASE StartAggregator
  <2>1. batch' = <<>> /\ agg' # "ack" /\ UNCHANGED <<pending, aggregated>>
    BY <1>5 DEF StartAggregator, StreamInv
  <2>2. UNCHANGED group \/ (group'.from = group'.last /\ group'.last \in Nat)
    BY <1>5, LenProperties DEF StartAggregator, NewGroup, StreamInv
  <2>. QED
    BY <1>4, <2>1, <2>2
<1>6. CASE ReadGroup
  <2>. DEFINE last == Upto(Len(stream))
              new == Undelivered
  <2>1. /\ new # <<>> /\ group' = [group EXCEPT !.last = last]
        /\ pending' = pending \cup ToSet(new) /\ UNCHANGED aggregated
        /\ (batch' = new /\ agg' = "add") \/ (batch' = batch /\ agg' = agg /\ agg = "read")
    BY <1>6 DEF ReadGroup
  <2>2. /\ last \in Nat /\ group.last < last /\ new \in Seq(1..last) /\ DOMAIN new = 1..(last - group.last)
        /\ \A i \in DOMAIN new : new[i] = group.last + i
        /\ ToSet(new) = (group.last + 1)..last
    BY <2>1, HandedOut
  <2>. HIDE DEF last, new
  <2>3. group'.last = last /\ group'.from = group.from
    BY <2>1 DEF StreamInv
  <2>4. BatchInv'
    <3>1. CASE batch' = new /\ agg' = "add"
      <4>1. M!Increasing(new)
        BY <1>1, <2>2 DEF M!Increasing
      <4>2. \A i \in DOMAIN aggregated, j \in DOMAIN new : aggregated[i] < new[j]
        BY <1>1, <2>2
      <4>. QED
        BY <2>1, <3>1, <4>1, <4>2 DEF BatchInv
    <3>2. CASE batch' = batch /\ agg' = agg
      BY <2>1, <3>2 DEF BatchInv
    <3>. QED
      BY <2>1, <3>1, <3>2
  <2>5. AckedWereAggregated'
    <3>1. SUFFICES ASSUME NEW i \in (group.from + 1)..last PROVE i \in ToSet(aggregated) \cup pending'
      BY <2>1, <2>3 DEF AckedWereAggregated
    <3>2. i \in (group.from + 1)..group.last \/ i \in (group.last + 1)..last
      BY <1>1, <2>2
    <3>. QED
      BY <2>1, <2>2, <3>2 DEF AckedWereAggregated
  <2>. QED
    BY <2>4, <2>5
<1>7. CASE Aggregate
  <2>. DEFINE first == Head(batch)
              done == Append(aggregated, first)
  <2>1. agg = "add" /\ agg' = "ack" /\ batch # <<>> /\ aggregated' = done /\ UNCHANGED <<group, pending, batch>>
    BY <1>7 DEF Aggregate, redisVars, StreamInv
  <2>2. first = batch[1] /\ first \in 1..group.last /\ 1 \in DOMAIN batch
    <3>1. Len(batch) \in Nat \ {0}
      BY <1>1, <2>1, EmptySeq
    <3>. QED
      BY <1>1, <2>1, <3>1, HeadTailProperties
  <2>3. /\ done \in Seq(1..group.last) /\ DOMAIN done = 1..(Len(aggregated) + 1)
        /\ \A i \in DOMAIN aggregated : done[i] = aggregated[i]
        /\ done[Len(aggregated) + 1] = first
    BY <1>1, <2>2, AppendProperties, LenProperties
  <2>4. \A i \in DOMAIN done :
          (i \in DOMAIN aggregated /\ done[i] = aggregated[i]) \/ (i = Len(aggregated) + 1 /\ done[i] = first)
    BY <1>1, <2>2, MP!AppendElements
  <2>. HIDE DEF first, done
  <2>5. \A i \in DOMAIN aggregated, j \in DOMAIN batch : aggregated[i] < batch[j]
    BY <2>1 DEF BatchInv
  <2>6. M!Increasing(done)
    <3>1. SUFFICES ASSUME NEW i \in DOMAIN done, NEW j \in DOMAIN done, i < j PROVE done[i] < done[j]
      BY DEF M!Increasing
    <3>2. i \in DOMAIN aggregated /\ done[i] = aggregated[i]
      <4>1. i \in 1..Len(aggregated)
        BY <1>1, <2>3, <3>1, MP!EarlierPlace
      <4>. QED
        BY <1>1, <2>3, <4>1
    <3>3. M!Increasing(aggregated)
      BY DEF BatchInv
    <3>. QED
      BY <2>2, <2>4, <2>5, <3>1, <3>2, <3>3 DEF M!Increasing
  <2>7. ToSet(done) = ToSet(aggregated) \cup {first}
    <3>1. Len(aggregated) + 1 \in DOMAIN done /\ DOMAIN aggregated \subseteq DOMAIN done
      BY <1>1, <2>3
    <3>. QED
      BY <2>3, <2>4, <3>1 DEF ToSet
  <2>8. \A i \in DOMAIN done, j \in DOMAIN batch : done[i] < batch[j] \/ j = 1
    <3>1. ASSUME NEW j \in DOMAIN batch, j # 1 PROVE first < batch[j]
      <4>1. 1 < j
        BY <1>1, <3>1
      <4>. QED
        BY <2>2, <4>1 DEF BatchInv, M!Increasing
    <3>. QED
      BY <2>4, <2>5, <3>1
  <2>9. BatchInv'
    BY <2>1, <2>2, <2>6, <2>7, <2>8 DEF BatchInv
  <2>10. AckedWereAggregated'
    BY <2>1, <2>7 DEF AckedWereAggregated
  <2>. QED
    BY <2>9, <2>10
<1>8. CASE AckEntry
  <2>. DEFINE rest == Tail(batch)
  <2>1. /\ agg = "ack" /\ batch # <<>> /\ agg' \in {"read", "add"} /\ batch' = rest
        /\ pending \ {Head(batch)} \subseteq pending' /\ UNCHANGED <<group, aggregated>>
    BY <1>8 DEF AckEntry, StreamInv
  <2>2. /\ MP!Increasing(rest) /\ Head(batch) = batch[1] /\ 1 \in DOMAIN batch
        /\ \A j \in DOMAIN rest : j + 1 \in DOMAIN batch /\ rest[j] = batch[j + 1]
        /\ Len(rest) = Len(batch) - 1 /\ rest \in Seq(1..group.last)
    BY <1>1, <2>1, MP!TailOrdered, MetricOps DEF BatchInv
  <2>. HIDE DEF rest
  <2>3. M!Increasing(rest)
    BY <2>2, MetricOps
  <2>4. ASSUME NEW i \in DOMAIN aggregated, NEW j \in DOMAIN rest PROVE aggregated[i] < rest[j]
    <3>1. j + 1 # 1
      BY <1>1, <2>2, LenProperties
    <3>. QED
      BY <2>2, <3>1 DEF BatchInv
  <2>5. BatchInv'
    BY <2>1, <2>3, <2>4 DEF BatchInv
  <2>6. AckedWereAggregated'
    BY <2>1, <2>2 DEF AckedWereAggregated, BatchInv
  <2>. QED
    BY <2>5, <2>6
<1>9. CASE CrashAggregator
  <2>1. batch' = <<>> /\ agg' # "ack" /\ UNCHANGED <<pending, aggregated, group>>
    BY <1>9 DEF CrashAggregator, redisVars
  <2>. QED
    BY <1>4, <2>1
<1>10. ASSUME NEW e \in Entry, XAdd(e) PROVE UNCHANGED <<group, pending, batch, agg, aggregated>>
  BY <1>10 DEF XAdd, aggVars
<1>11. ASSUME UNCHANGED <<redisVars, aggVars, threshold>> PROVE UNCHANGED <<group, pending, batch, agg, aggregated>>
  BY <1>11 DEF redisVars, aggVars
<1>. QED
  BY <1>3, <1>5, <1>6, <1>7, <1>8, <1>9, <1>10, <1>11, OthersLeaveStream DEF Next, Consume

-------------------------------------------------------------------------------
(* The subscriptions of both services, and the alerter's.                  *)

\* Steps that are not the alerter's leave its subscription to it.
Quiet == UNCHANGED alerter /\ MP!Step(Asked, MetricSub \ {alerter.sub})

LEMMA QuietSteps ==
  ASSUME Next
  PROVE  Quiet \/ Watch \/ CrashAlerter
<1>1. UNCHANGED metricVars => MP!Step(Asked, MetricSub \ {alerter.sub})
  BY DEF MP!Step, metricVars
<1>2. ASSUME NEW e \in Entry, XAdd(e) PROVE Quiet
  BY <1>1, <1>2 DEF XAdd, alertVars, Quiet
<1>3. CASE StartAggregator \/ ReadGroup \/ AckEntry
  BY <1>1, <1>3 DEF StartAggregator, ReadGroup, AckEntry, alertVars, Quiet
<1>4. CASE Aggregate
  <2>1. UNCHANGED metricVars \/ \E m : M!Broadcast(m)
    BY <1>4, Zenon DEF Aggregate
  <2>2. MP!Step(Asked, MetricSub \ {alerter.sub})
    BY <1>1, <2>1, MetricOps DEF MP!Step
  <2>. QED
    BY <1>4, <2>2 DEF Aggregate, alertVars, Quiet
<1>5. CASE CrashAggregator
  <2>1. MP!Step(Asked, MetricSub \ {alerter.sub})
    BY <1>5, MetricOps DEF CrashAggregator, MP!Step
  <2>. QED
    BY <1>5, <2>1 DEF CrashAggregator, alertVars, Quiet
<1>6. ASSUME NEW s \in MetricSub, SubscribeMetrics(s) \/ ServeMetrics(s) \/ LeaveMetrics(s) PROVE Quiet
  <2>1. CASE SubscribeMetrics(s)
    <3>1. PICK keys \in Asked : M!Subscribe(s, keys)
      BY <2>1 DEF SubscribeMetrics, Asked
    <3>2. MP!Step(Asked, MetricSub \ {alerter.sub})
      BY <3>1, MetricOps DEF MP!Step
    <3>. QED
      BY <2>1, <3>2 DEF SubscribeMetrics, alertVars, Quiet
  <2>2. CASE ServeMetrics(s)
    <3>1. MP!Step(Asked, MetricSub \ {alerter.sub})
      BY <2>2, MetricOps DEF ServeMetrics, MP!Step
    <3>. QED
      BY <2>2, <3>1 DEF ServeMetrics, alertVars, Quiet
  <2>3. CASE LeaveMetrics(s)
    <3>1. MP!Step(Asked, MetricSub \ {alerter.sub})
      BY <2>3, MetricOps DEF LeaveMetrics, MP!Step
    <3>. QED
      BY <2>3, <3>1 DEF LeaveMetrics, alertVars, Quiet
  <2>. QED
    BY <1>6, <2>1, <2>2, <2>3
<1>7. ASSUME NEW s \in AlertSub, SubscribeAlerts(s) \/ ServeAlerts(s) \/ LeaveAlerts(s) PROVE Quiet
  BY <1>1, <1>7 DEF SubscribeAlerts, ServeAlerts, LeaveAlerts, Quiet
<1>. QED
  BY <1>2, <1>3, <1>4, <1>5, <1>6, <1>7 DEF Next, Consume

LEMMA MetricSteps ==
  ASSUME AlerterInv, Next
  PROVE  MP!Step(Asked, MetricSub)
<1>1. UNCHANGED metricVars => MP!Step(Asked, MetricSub)
  BY DEF MP!Step, metricVars
<1>2. CASE Quiet
  BY <1>2 DEF Quiet, MP!Step
<1>3. ASSUME M!Leave(alerter.sub), alerter.st # "dial" PROVE MP!Step(Asked, MetricSub)
  BY <1>3, MetricOps DEF AlerterInv, MP!Step
<1>4. CASE CrashAlerter
  BY <1>1, <1>3, <1>4 DEF CrashAlerter
<1>5. CASE LoseMetrics
  BY <1>1, <1>3, <1>5 DEF LoseMetrics, metricVars
<1>6. CASE ReceiveMetric \/ CheckTemp \/ CheckHumidity
  BY <1>1, <1>6 DEF ReceiveMetric, CheckTemp, CheckHumidity
<1>7. ASSUME NEW s \in MetricSub, WatchMetrics(s) PROVE MP!Step(Asked, MetricSub)
  <2>1. Key \in Asked /\ MP!Subscribe(s, Key)
    BY <1>7, MetricOps DEF WatchMetrics, Asked
  <2>. QED
    BY <2>1 DEF MP!Step
<1>. QED
  BY <1>2, <1>4, <1>5, <1>6, <1>7, QuietSteps DEF Watch

LEMMA AlertSteps ==
  ASSUME Next
  PROVE  AP!Step(Asked, AlertSub) /\ (UNCHANGED alerts \/ CheckTemp \/ CheckHumidity)
<1>1. ASSUME UNCHANGED <<alertSubs, alerts>> PROVE AP!Step(Asked, AlertSub) /\ UNCHANGED alerts
  BY <1>1 DEF AP!Step
<1>2. ASSUME NEW s \in AlertSub, SubscribeAlerts(s) \/ ServeAlerts(s) \/ LeaveAlerts(s)
      PROVE  AP!Step(Asked, AlertSub) /\ UNCHANGED alerts
  <2>1. UNCHANGED alerts
    BY <1>2
       DEF SubscribeAlerts, ServeAlerts, LeaveAlerts, A!Subscribe, A!Handler, A!Leave, A!Become,
           A!Take, A!Send, A!SendFails, A!Unregister, A!Close
  <2>2. CASE SubscribeAlerts(s)
    <3>1. PICK keys \in Asked : A!Subscribe(s, keys)
      BY <2>2 DEF SubscribeAlerts, Asked
    <3>. QED
      BY <2>1, <3>1, AlertOps DEF AP!Step
  <2>3. CASE ServeAlerts(s) \/ LeaveAlerts(s)
    BY <2>1, <2>3, AlertOps DEF ServeAlerts, LeaveAlerts, AP!Step
  <2>. QED
    BY <1>2, <2>2, <2>3
<1>3. CASE CrashAlerter
  <2>1. A!Stop /\ UNCHANGED alerts
    BY <1>3 DEF CrashAlerter, A!Stop
  <2>. QED
    BY <2>1, AlertOps DEF AP!Step
<1>4. CASE CheckTemp \/ CheckHumidity
  <2>1. UNCHANGED <<alertSubs, alerts>> \/ \E m : A!Broadcast(m)
    BY <1>4 DEF CheckTemp, CheckHumidity
  <2>. QED
    BY <1>1, <1>4, <2>1, AlertOps DEF AP!Step
<1>5. CASE ReceiveMetric \/ LoseMetrics \/ \E s \in MetricSub : WatchMetrics(s)
  BY <1>1, <1>5 DEF ReceiveMetric, LoseMetrics, WatchMetrics
<1>6. CASE Consume \/ CrashAggregator \/ \E e \in Entry : XAdd(e)
  <2>1. UNCHANGED alertVars
    BY <1>6 DEF Consume, StartAggregator, ReadGroup, Aggregate, AckEntry, CrashAggregator, XAdd
  <2>. QED
    BY <1>1, <2>1 DEF alertVars
<1>7. ASSUME NEW s \in MetricSub, SubscribeMetrics(s) \/ ServeMetrics(s) \/ LeaveMetrics(s)
      PROVE  UNCHANGED alertVars
  BY <1>7 DEF SubscribeMetrics, ServeMetrics, LeaveMetrics
<1>. QED
  BY <1>1, <1>2, <1>3, <1>4, <1>5, <1>6, <1>7 DEF Next, Watch, alertVars

LEMMA SubscriptionSteps ==
  ASSUME AlerterInv, MP!PubSubInv(Asked), AP!PubSubInv(Asked), Next
  PROVE  MP!PubSubInv(Asked)' /\ AP!PubSubInv(Asked)'
<1>1. Capacity \in Nat /\ {} \in Asked
  BY BoundAssumption DEF Asked
<1>2. MP!Step(Asked, MetricSub) /\ AP!Step(Asked, AlertSub)
  BY MetricSteps, AlertSteps
<1>. QED
  BY <1>1, <1>2, MP!StepOK, AP!StepOK

\* What is known of a metric subscription.
LEMMA Subscribed ==
  ASSUME MP!PubSubInv(Asked), NEW s \in MetricSub
  PROVE  /\ metricSubs[s] \in MP!Subscription(Asked, Len(metrics)) /\ Len(metrics) \in Nat
         /\ MP!PlaceOK(metricSubs[s]) /\ MP!OrderOK(metricSubs[s])
         /\ metricSubs[s].since \in 0..Len(metrics)
         /\ Len(metricSubs[s].got) \in Nat /\ DOMAIN metricSubs[s].got = 1..Len(metricSubs[s].got)
         /\ \A i \in DOMAIN metricSubs[s].got : metricSubs[s].got[i] \in 1..Len(metrics)
<1>1. /\ Len(metrics) \in Nat /\ metricSubs[s] \in MP!Subscription(Asked, Len(metrics))
      /\ MP!PlaceOK(metricSubs[s]) /\ MP!OrderOK(metricSubs[s])
  BY LenProperties DEF MP!PubSubInv, MP!SubOK
<1>. QED
  BY <1>1, MP!Fields

LEMMA LatestInRange ==
  ASSUME AlerterInv, MP!PubSubInv(Asked)
  PROVE  Latest \in 0..Len(metrics) /\ Len(metrics) \in Nat
<1>1. Len(metrics) \in Nat
  BY LenProperties DEF MP!PubSubInv
<1>2. CASE alerter.st = "dial"
  BY <1>1, <1>2 DEF Latest
<1>3. CASE alerter.st # "dial"
  <2>1. alerter.sub \in MetricSub /\ alerter.seen \in Nat /\ alerter.seen <= Len(metricSubs[alerter.sub].got)
    BY <1>3 DEF AlerterInv
  <2>2. /\ metricSubs[alerter.sub].since \in 0..Len(metrics)
        /\ alerter.seen # 0 => metricSubs[alerter.sub].got[alerter.seen] \in 1..Len(metrics)
    BY <2>1, Subscribed
  <2>. QED
    BY <1>1, <1>3, <2>2 DEF Latest
<1>. QED
  BY <1>1, <1>2, <1>3

\* A step of the others: the alerter's subscription has what it had.
LEMMA QuietKeeps ==
  ASSUME AlerterInv, MP!PubSubInv(Asked), Quiet
  PROVE  AlerterInv' /\ Latest \in Nat /\ Latest' \in Nat /\ Latest <= Latest'
<1>1. UNCHANGED alerter /\ MP!Step(Asked, MetricSub \ {alerter.sub})
  BY DEF Quiet
<1>2. Latest \in Nat /\ Len(metrics) \in Nat /\ Len(metrics') \in Nat /\ Len(metrics) <= Len(metrics')
  BY <1>1, LatestInRange, MP!PostedGrows
<1>3. CASE alerter.st = "dial"
  BY <1>1, <1>2, <1>3 DEF AlerterInv, Latest
<1>4. CASE alerter.st # "dial"
  <2>. DEFINE s == alerter.sub
  <2>1. s \in MetricSub /\ MP!Served(s) /\ alerter.seen \in Nat /\ alerter.seen <= Len(metricSubs[s].got)
    BY <1>4 DEF AlerterInv, MP!Served
  <2>2. /\ MP!Served(s)' /\ metricSubs'[s].since = metricSubs[s].since
        /\ Len(metricSubs[s].got) \in Nat /\ Len(metricSubs'[s].got) \in Nat
        /\ Len(metricSubs[s].got) <= Len(metricSubs'[s].got)
        /\ \A i \in DOMAIN metricSubs[s].got : metricSubs'[s].got[i] = metricSubs[s].got[i]
    <3>1. PICK q : q = s
      OBVIOUS
    <3>2. q \in MetricSub \ (MetricSub \ {q}) /\ MP!Step(Asked, MetricSub \ {q}) /\ MP!Served(q) /\ UNCHANGED s
      BY <1>1, <2>1, <3>1
    <3>3. /\ MP!Served(q)' /\ metricSubs'[q].since = metricSubs[q].since
          /\ Len(metricSubs[q].got) \in Nat /\ Len(metricSubs'[q].got) \in Nat
          /\ Len(metricSubs[q].got) <= Len(metricSubs'[q].got)
          /\ \A i \in DOMAIN metricSubs[q].got : metricSubs'[q].got[i] = metricSubs[q].got[i]
      BY <3>2, MP!ServedStays
    <3>. QED
      BY <3>1, <3>2, <3>3 DEF MP!Served
  <2>3. alerter.seen # 0 => metricSubs'[s].got[alerter.seen] = metricSubs[s].got[alerter.seen]
    <3>1. SUFFICES ASSUME alerter.seen # 0
                   PROVE  metricSubs'[s].got[alerter.seen] = metricSubs[s].got[alerter.seen]
      OBVIOUS
    <3>2. DOMAIN metricSubs[s].got = 1..Len(metricSubs[s].got)
      BY <2>1, Subscribed
    <3>3. alerter.seen \in 1..Len(metricSubs[s].got)
      BY <2>1, <2>2, <3>1
    <3>. QED
      BY <2>2, <3>2, <3>3
  <2>4. alerter.seen <= Len(metricSubs'[s].got)
    BY <2>1, <2>2
  <2>5. Latest' = Latest
    BY <1>1, <1>4, <2>2, <2>3 DEF Latest
  <2>6. AlerterInv'
    BY <1>1, <1>4, <2>1, <2>2, <2>3, <2>4 DEF AlerterInv, MP!Served
  <2>. QED
    BY <1>2, <2>5, <2>6
<1>. QED
  BY <1>3, <1>4

LEMMA AlerterSteps ==
  ASSUME AlerterInv, MP!PubSubInv(Asked), Next
  PROVE  AlerterInv'
<1>1. alerter.st # "dial" => alerter.sub \in MetricSub
  BY DEF AlerterInv
<1>2. ASSUME alerter' = NewAlerter PROVE AlerterInv'
  BY <1>2 DEF AlerterInv, NewAlerter
<1>3. CASE CrashAlerter \/ LoseMetrics
  BY <1>2, <1>3 DEF CrashAlerter, LoseMetrics
<1>4. ASSUME NEW s \in MetricSub, WatchMetrics(s) PROVE AlerterInv'
  <2>1. alerter' = [NewAlerter EXCEPT !.st = "recv", !.sub = s]
    BY <1>4 DEF WatchMetrics
  <2>2. alerter' = [st |-> "recv", sub |-> s, seen |-> 0, metric |-> 0]
    BY <2>1 DEF NewAlerter
  <2>3. metricSubs' = [metricSubs EXCEPT ![s] =
          [M!NewSub EXCEPT !.st = "recv", !.filter = Key, !.registered = TRUE, !.since = Len(metrics)]]
    BY <1>4 DEF WatchMetrics, M!Subscribe, M!Become
  <2>4. metricSubs'[s] = [M!NewSub EXCEPT !.st = "recv", !.filter = Key, !.registered = TRUE, !.since = Len(metrics)]
    BY <2>3 DEF MP!PubSubInv
  <2>5. metricSubs'[s].st = "recv" /\ ~metricSubs'[s].gone /\ Len(metricSubs'[s].got) = 0
    BY <2>4, EmptySeq DEF M!NewSub
  <2>. QED
    BY <2>2, <2>5 DEF AlerterInv
<1>5. CASE ReceiveMetric
  <2>. DEFINE s == alerter.sub
              next == alerter.seen + 1
  <2>1. /\ alerter.st = "recv" /\ s \in MetricSub /\ alerter.seen \in Nat
        /\ metricSubs[s].st \in {"recv", "send", "returned"} /\ ~metricSubs[s].gone
        /\ alerter.seen < Len(metricSubs[s].got)
    BY <1>5 DEF ReceiveMetric, AlerterInv
  <2>2. metricSubs[s].got[next] \in Nat /\ next \in Nat /\ next > 0 /\ next <= Len(metricSubs[s].got)
    <3>1. next \in 1..Len(metricSubs[s].got) /\ next \in Nat
      BY <2>1, Subscribed
    <3>. QED
      BY <2>1, <3>1, Subscribed
  <2>3. alerter' = [alerter EXCEPT !.st = "temp", !.seen = next, !.metric = metricSubs[s].got[next]]
    BY <1>5 DEF ReceiveMetric
  <2>4. UNCHANGED metricSubs
    BY <1>5 DEF ReceiveMetric, metricVars
  <2>. HIDE DEF next
  <2>5. /\ alerter'.st = "temp" /\ alerter'.sub = s /\ alerter'.seen = next /\ alerter'.metric = metricSubs[s].got[next]
        /\ alerter' \in [st : {"dial", "recv", "temp", "hum"}, sub : MetricSub \cup {"none"}, seen : Nat, metric : Nat]
    BY <2>2, <2>3 DEF AlerterInv
  <2>. QED
    BY <2>1, <2>2, <2>4, <2>5 DEF AlerterInv
<1>6. CASE CheckTemp
  <2>1. alerter.st = "temp" /\ alerter' = [alerter EXCEPT !.st = "hum"] /\ UNCHANGED metricSubs
    BY <1>6 DEF CheckTemp, metricVars
  <2>2. /\ alerter'.st = "hum" /\ alerter'.sub = alerter.sub /\ alerter'.seen = alerter.seen
        /\ alerter'.metric = alerter.metric
        /\ alerter' \in [st : {"dial", "recv", "temp", "hum"}, sub : MetricSub \cup {"none"}, seen : Nat, metric : Nat]
    BY <2>1 DEF AlerterInv
  <2>. QED
    BY <2>1, <2>2 DEF AlerterInv
<1>7. CASE CheckHumidity
  <2>1. alerter.st = "hum" /\ alerter' = [alerter EXCEPT !.st = "recv", !.metric = 0] /\ UNCHANGED metricSubs
    BY <1>7 DEF CheckHumidity, metricVars
  <2>2. /\ alerter'.st = "recv" /\ alerter'.sub = alerter.sub /\ alerter'.seen = alerter.seen
        /\ alerter'.metric = 0
        /\ alerter' \in [st : {"dial", "recv", "temp", "hum"}, sub : MetricSub \cup {"none"}, seen : Nat, metric : Nat]
    BY <2>1 DEF AlerterInv
  <2>. QED
    BY <2>1, <2>2 DEF AlerterInv
<1>. QED
  BY <1>3, <1>4, <1>5, <1>6, <1>7, QuietSteps, QuietKeeps DEF Watch

\* An alert about the metric in hand, of a kind there was none of yet about it,
\* is the last one.
LEMMA AnotherAlert ==
  ASSUME AP!PubSubInv(Asked), AlertedOnce, NEW m, alerts' = Append(alerts, m), m.metric \in Nat,
         m.reason \in {"TEMP_HIGH", "HUMID_HIGH"},
         \A i \in DOMAIN alerts : alerts[i].reason = m.reason => alerts[i].metric < m.metric
  PROVE  /\ AlertedOnce'
         /\ \A i \in DOMAIN alerts' : alerts'[i] = m \/ \E j \in DOMAIN alerts : alerts'[i] = alerts[j]
<1>1. PICK S : alerts \in Seq(S)
  BY DEF AP!PubSubInv
<1>2. alerts \in Seq(S \cup {m}) /\ m \in S \cup {m}
  BY <1>1, MP!SeqGrows
<1>3. \A i \in DOMAIN alerts' :
        (i \in DOMAIN alerts /\ alerts'[i] = alerts[i]) \/ (i = Len(alerts) + 1 /\ alerts'[i] = m)
  BY <1>2, MP!AppendElements
<1>4. Len(alerts) \in Nat /\ DOMAIN alerts = 1..Len(alerts) /\ DOMAIN alerts' = 1..(Len(alerts) + 1)
  BY <1>2, AppendProperties, LenProperties
<1>5. AlertedOnce'
  <2>1. SUFFICES ASSUME NEW i \in DOMAIN alerts', NEW j \in DOMAIN alerts', i < j,
                        alerts'[i].reason = alerts'[j].reason
                 PROVE  alerts'[i].metric < alerts'[j].metric
    BY DEF AlertedOnce
  <2>2. i \in DOMAIN alerts /\ alerts'[i] = alerts[i]
    BY <1>3, <1>4, <2>1
  <2>. QED
    BY <1>3, <2>1, <2>2 DEF AlertedOnce
<1>. QED
  BY <1>3, <1>5

LEMMA AlertsSteps ==
  ASSUME AlerterInv, MP!PubSubInv(Asked), AP!PubSubInv(Asked), AlertsInv, Next
  PROVE  AlertsInv'
<1>1. Latest \in 0..Len(metrics) /\ Len(metrics) \in Nat
  BY LatestInRange
\* No alert: what was raised came before what is latest now.
<1>2. ASSUME UNCHANGED alerts, Latest' \in Nat, Latest <= Latest',
             alerter'.st \in {"dial", "recv"} \/ (alerter'.st = "temp" /\ Latest < alerter'.metric)
      PROVE  AlertsInv'
  <2>1. ASSUME NEW i \in DOMAIN alerts
        PROVE  alerts[i].metric \in 0..Latest' /\ (alerter'.st = "temp" => alerts[i].metric < alerter'.metric)
    <3>1. alerts[i].metric \in 0..Latest /\ Latest \in Nat
      BY <1>1 DEF AlertsInv
    <3>2. alerts[i].metric \in 0..Latest'
      BY <1>2, <3>1
    <3>3. ASSUME alerter'.st = "temp" PROVE alerts[i].metric < alerter'.metric /\ alerter'.metric \in Nat
      <4>1. alerter'.metric \in Nat
        BY <1>2, <3>3, AlerterSteps DEF AlerterInv
      <4>. QED
        BY <1>2, <3>1, <3>3, <4>1
    <3>. QED
      BY <3>2, <3>3
  <2>2. AlertedOnce' /\ \A i \in DOMAIN alerts : alerts[i].reason \in {"TEMP_HIGH", "HUMID_HIGH"}
    BY <1>2 DEF AlertsInv, AlertedOnce
  <2>. QED
    BY <1>2, <2>1, <2>2 DEF AlertsInv
<1>3. CASE Quiet
  <2>1. Latest' \in Nat /\ Latest <= Latest' /\ UNCHANGED alerter
    BY <1>3, QuietKeeps DEF Quiet
  <2>2. CASE UNCHANGED alerts
    <3>1. ASSUME NEW i \in DOMAIN alerts PROVE alerts[i].metric \in 0..Latest'
      BY <1>1, <2>1 DEF AlertsInv
    <3>2. AlertedOnce'
      BY <2>2 DEF AlertsInv, AlertedOnce
    <3>. QED
      BY <2>1, <2>2, <3>1, <3>2 DEF AlertsInv
  <2>3. CASE CheckTemp \/ CheckHumidity
    <3>1. alerter.st # alerter'.st
      BY <2>3 DEF CheckTemp, CheckHumidity, AlerterInv
    <3>. QED
      BY <2>1, <3>1
  <2>. QED
    BY <2>2, <2>3, AlertSteps
<1>4. CASE CrashAlerter \/ LoseMetrics
  <2>1. alerter' = NewAlerter /\ Latest' = Len(metrics')
    BY <1>4 DEF CrashAlerter, LoseMetrics, NewAlerter, Latest
  <2>2. Len(metrics') \in Nat /\ Len(metrics) <= Len(metrics')
    BY MetricSteps, MP!PostedGrows
  <2>3. UNCHANGED alerts
    BY <1>4 DEF CrashAlerter, LoseMetrics, A!Stop
  <2>. QED
    BY <1>1, <1>2, <2>1, <2>2, <2>3 DEF NewAlerter
<1>5. ASSUME NEW s \in MetricSub, WatchMetrics(s) PROVE AlertsInv'
  <2>1. alerter.st = "dial" /\ alerter' = [st |-> "recv", sub |-> s, seen |-> 0, metric |-> 0] /\ UNCHANGED alerts
    BY <1>5 DEF WatchMetrics, NewAlerter
  <2>2. metricSubs' = [metricSubs EXCEPT ![s] =
          [M!NewSub EXCEPT !.st = "recv", !.filter = Key, !.registered = TRUE, !.since = Len(metrics)]]
    BY <1>5 DEF WatchMetrics, M!Subscribe, M!Become
  <2>3. metricSubs'[s].since = Len(metrics)
    BY <2>2 DEF MP!PubSubInv, M!NewSub
  <2>4. Latest = Len(metrics) /\ Latest' = Len(metrics)
    BY <2>1, <2>3 DEF Latest
  <2>. QED
    BY <1>1, <1>2, <2>1, <2>4
<1>6. CASE ReceiveMetric
  <2>. DEFINE s == alerter.sub
              q == metricSubs[s].got
              next == alerter.seen + 1
  <2>1. alerter.st = "recv" /\ s \in MetricSub /\ alerter.seen \in Nat /\ alerter.seen < Len(q)
    BY <1>6 DEF ReceiveMetric, AlerterInv
  <2>2. /\ alerter'.st = "temp" /\ alerter'.sub = s /\ alerter'.seen = next /\ alerter'.metric = q[next]
        /\ UNCHANGED <<metricSubs, alerts>>
    BY <1>6 DEF ReceiveMetric, metricVars, AlerterInv
  <2>3. Len(q) \in Nat /\ DOMAIN q = 1..Len(q) /\ MP!OrderOK(metricSubs[s]) /\ \A i \in DOMAIN q : q[i] \in Nat
    BY <2>1, Subscribed
  <2>4. next \in DOMAIN q /\ next # 0
    BY <2>1, <2>3
  <2>5. Latest < q[next]
    <3>1. CASE alerter.seen = 0
      BY <2>1, <2>4, <2>3, <3>1 DEF Latest, MP!OrderOK
    <3>2. CASE alerter.seen # 0
      <4>1. alerter.seen \in DOMAIN q /\ alerter.seen < next
        BY <2>1, <2>3, <3>2
      <4>2. q[alerter.seen] < q[next]
        BY <2>3, <2>4, <4>1 DEF MP!OrderOK, MP!Increasing
      <4>. QED
        BY <2>1, <3>2, <4>2 DEF Latest
    <3>. QED
      BY <3>1, <3>2
  <2>6. Latest' = q[next]
    BY <2>2, <2>4 DEF Latest
  <2>. QED
    BY <1>1, <1>2, <2>2, <2>3, <2>4, <2>5, <2>6
\* A check: the alert it may raise is the first of its kind about this metric.
<1>7. ASSUME NEW st, alerter.st = st, st \in {"temp", "hum"}, NEW next, alerter'.st = next,
             UNCHANGED metricSubs, alerter'.sub = alerter.sub, alerter'.seen = alerter.seen,
             (st = "temp" /\ next = "hum" /\ alerter'.metric = alerter.metric) \/ (st = "hum" /\ next = "recv"),
             NEW reason, reason = (IF st = "temp" THEN "TEMP_HIGH" ELSE "HUMID_HIGH"),
             UNCHANGED alerts \/ alerts' = Append(alerts, Alert(reason))
      PROVE  AlertsInv'
  <2>1. Latest = alerter.metric /\ Latest' = Latest /\ alerter.metric \in Nat
    BY <1>7 DEF AlerterInv, Latest
  <2>2. /\ AlertedOnce
        /\ \A i \in DOMAIN alerts :
             /\ alerts[i].reason \in {"TEMP_HIGH", "HUMID_HIGH"} /\ alerts[i].metric \in 0..Latest
             /\ st = "temp" \/ alerts[i].reason = reason => alerts[i].metric < alerter.metric
    BY <1>7 DEF AlertsInv
  <2>3. CASE UNCHANGED alerts
    BY <1>7, <2>1, <2>2, <2>3 DEF AlertsInv, AlertedOnce
  <2>4. CASE alerts' = Append(alerts, Alert(reason))
    <3>1. Alert(reason).metric = alerter.metric /\ Alert(reason).reason = reason
      BY DEF Alert
    <3>2. /\ AlertedOnce'
          /\ \A i \in DOMAIN alerts' : alerts'[i] = Alert(reason) \/ \E j \in DOMAIN alerts : alerts'[i] = alerts[j]
      <4>1. \A i \in DOMAIN alerts : alerts[i].reason = Alert(reason).reason => alerts[i].metric < Alert(reason).metric
        BY <2>2, <3>1
      <4>2. Alert(reason).reason \in {"TEMP_HIGH", "HUMID_HIGH"} /\ Alert(reason).metric \in Nat
        BY <1>7, <2>1, <3>1
      <4>. QED
        BY <2>2, <2>4, <4>1, <4>2, AnotherAlert
    <3>3. ASSUME NEW i \in DOMAIN alerts'
          PROVE  /\ alerts'[i].reason \in {"TEMP_HIGH", "HUMID_HIGH"} /\ alerts'[i].metric \in 0..Latest'
                 /\ next = "hum" /\ alerts'[i].reason = "HUMID_HIGH" => alerts'[i].metric < alerter'.metric
      BY <1>7, <2>1, <2>2, <3>1, <3>2
    <3>. QED
      BY <1>7, <3>2, <3>3 DEF AlertsInv
  <2>. QED
    BY <1>7, <2>3, <2>4
<1>8. CASE CheckTemp
  <2>1. alerter.st = "temp" /\ alerter' = [alerter EXCEPT !.st = "hum"] /\ UNCHANGED metricSubs
    BY <1>8 DEF CheckTemp, metricVars
  <2>2. UNCHANGED alerts \/ alerts' = Append(alerts, Alert("TEMP_HIGH"))
    BY <1>8 DEF CheckTemp, A!Broadcast
  <2>3. alerter'.st = "hum" /\ alerter'.sub = alerter.sub /\ alerter'.seen = alerter.seen /\ alerter'.metric = alerter.metric
    BY <2>1 DEF AlerterInv
  <2>. QED
    BY <1>7, <2>1, <2>2, <2>3
<1>9. CASE CheckHumidity
  <2>1. alerter.st = "hum" /\ alerter' = [alerter EXCEPT !.st = "recv", !.metric = 0] /\ UNCHANGED metricSubs
    BY <1>9 DEF CheckHumidity, metricVars
  <2>2. UNCHANGED alerts \/ alerts' = Append(alerts, Alert("HUMID_HIGH"))
    BY <1>9 DEF CheckHumidity, A!Broadcast
  <2>3. alerter'.st = "recv" /\ alerter'.sub = alerter.sub /\ alerter'.seen = alerter.seen
    BY <2>1 DEF AlerterInv
  <2>. QED
    BY <1>7, <2>1, <2>2, <2>3
<1>. QED
  BY <1>3, <1>4, <1>5, <1>6, <1>8, <1>9, QuietSteps DEF Watch

-------------------------------------------------------------------------------
(* The invariant, and what it gives.                                       *)

LEMMA StartsRight == ASSUME Init PROVE IInv
<1>1. Capacity \in Nat /\ {} \in Asked /\ 0 \in 0..MaxFaults
  BY BoundAssumption DEF Asked
<1>2. MP!PubSubInv(Asked) /\ AP!PubSubInv(Asked)
  BY <1>1, MetricOps, AlertOps, MP!StartsOK, AP!StartsOK DEF Init
<1>3. <<>> \in Seq(Entry) /\ <<>> \in Seq(1..0) /\ Len(<<>>) = 0 /\ DOMAIN <<>> = {}
  BY EmptySeq
<1>4. StreamInv
  <2>1. NewWindow \in [Key -> Seq(1..0)]
    BY <1>3 DEF NewWindow
  <2>. QED
    BY <1>1, <1>3, <2>1 DEF Init, StreamInv
<1>5. BatchInv /\ AckedWereAggregated
  BY <1>3 DEF Init, BatchInv, AckedWereAggregated, M!Increasing
<1>6. AlerterInv
  BY DEF Init, AlerterInv, NewAlerter
<1>7. AlertsInv
  BY <1>3 DEF Init, A!Init, AlertsInv, AlertedOnce
<1>. QED
  BY <1>2, <1>4, <1>5, <1>6, <1>7 DEF IInv

LEMMA StaysRight == ASSUME IInv, [Next]_vars PROVE IInv'
<1>1. CASE Next
  BY <1>1, StreamSteps, BatchSteps, SubscriptionSteps, AlerterSteps, AlertsSteps DEF IInv
<1>2. CASE UNCHANGED vars
  <2>1. UNCHANGED <<stream, group, pending, batch, window, agg, aggregated, faults, threshold>>
    BY <1>2 DEF vars, redisVars, aggVars, alertVars
  <2>2. UNCHANGED <<metricSubs, metrics, alertSubs, alerts, alerter>>
    BY <1>2 DEF vars, metricVars, alertVars
  <2>3. StreamInv' /\ BatchInv' /\ AckedWereAggregated'
    BY <2>1 DEF IInv, StreamInv, BatchInv, AckedWereAggregated
  <2>4. MP!PubSubInv(Asked)' /\ AP!PubSubInv(Asked)'
    BY <2>2 DEF IInv, MP!PubSubInv, AP!PubSubInv
  <2>5. AlerterInv'
    BY <2>2 DEF IInv, AlerterInv
  <2>6. AlertsInv'
    BY <2>2 DEF IInv, AlertsInv, AlertedOnce, Latest
  <2>. QED
    BY <2>3, <2>4, <2>5, <2>6 DEF IInv
<1>. QED
  BY <1>1, <1>2

LEMMA Always == Spec => []IInv
<1>1. Init => IInv
  BY StartsRight
<1>2. IInv /\ [Next]_vars => IInv'
  BY StaysRight
<1>. QED
  BY <1>1, <1>2, PTL DEF Spec

LEMMA Consequences ==
  ASSUME IInv
  PROVE  /\ TypeOK /\ AggregatedOnce /\ AckedWereAggregated
         /\ NoSendOnClosedChannel /\ SubscribersSeeOrder /\ GapsAreOverflow /\ AlertedOnce
<1>1. Capacity \in Nat
  BY BoundAssumption
<1>2. AggregatedOnce /\ AckedWereAggregated /\ AlertedOnce
  BY DEF IInv, BatchInv, M!Increasing, AggregatedOnce, AlertsInv
<1>3. NoSendOnClosedChannel /\ SubscribersSeeOrder /\ GapsAreOverflow
  BY <1>1, MetricOps, AlertOps, MP!Promises, AP!Promises
     DEF IInv, NoSendOnClosedChannel, SubscribersSeeOrder, GapsAreOverflow
<1>4. TypeOK
  <2>1. /\ metricSubs \in [MetricSub -> Subscriptions(Len(metrics))]
        /\ alertSubs \in [AlertSub -> Subscriptions(Len(alerts))]
    BY DEF IInv, MP!PubSubInv, AP!PubSubInv, MP!Subscription, AP!Subscription, Subscriptions, Asked
  <2>2. /\ \A s \in MetricSub : Len(metricSubs[s].chan) <= Capacity
        /\ \A s \in AlertSub : Len(alertSubs[s].chan) <= Capacity
    BY DEF IInv, MP!PubSubInv, AP!PubSubInv, MP!SubOK, AP!SubOK, MP!PlaceOK, AP!PlaceOK
  <2>3. group.last \in 0..Len(stream) /\ ToSet(batch) \subseteq 1..group.last
    BY LenProperties DEF IInv, StreamInv, ToSet
  <2>4. alerter.metric \in 0..Len(metrics)
    <3>1. CASE alerter.st \in {"temp", "hum"}
      BY <3>1, LatestInRange DEF IInv, AlerterInv, Latest
    <3>2. CASE alerter.st \in {"dial", "recv"}
      BY <3>2, LatestInRange DEF IInv, AlerterInv, NewAlerter
    <3>. QED
      BY <3>1, <3>2 DEF IInv, AlerterInv
  <2>5. /\ stream \in Seq(Entry) /\ pending \subseteq 1..group.last
        /\ window \in [Key -> Seq(1..group.last)]
        /\ agg \in {"start", "read", "add", "ack"} /\ (agg \in {"add", "ack"} <=> batch # <<>>)
        /\ threshold \in Thresholds /\ faults \in 0..MaxFaults
    BY DEF IInv, StreamInv
  <2>6. alerter.st \in {"dial", "recv", "temp", "hum"}
    BY DEF IInv, AlerterInv
  <2>. QED
    BY <2>1, <2>2, <2>3, <2>4, <2>5, <2>6 DEF TypeOK
<1>. QED
  BY <1>2, <1>3, <1>4

\* Channels stay within their capacity, and numbers of entries, metrics and
\* alerts within what was added and broadcast.
THEOREM TypeCorrect == Spec => []TypeOK
BY Consequences, Always, PTL

\* Whatever crashes and restarts, and whichever reply of XReadGroup is lost, no
\* entry goes through the window twice, and entries go in order.
THEOREM CountedOnce == Spec => []AggregatedOnce
BY Consequences, Always, PTL

\* An entry that was handed out and not counted is still pending: XAck comes
\* after the window.
THEOREM AckedCounted == Spec => []AckedWereAggregated
BY Consequences, Always, PTL

\* No broadcast of the two services sends on a channel that its handler has
\* closed, however many subscribers come and go.
THEOREM NeverSendsOnClosed == Spec => []NoSendOnClosedChannel
BY Consequences, Always, PTL

\* A subscriber of either service sees broadcasts in their order, each once.
THEOREM OrderIsSeen == Spec => []SubscribersSeeOrder
BY Consequences, Always, PTL

\* What a subscriber that is served misses was dropped at a full channel.
THEOREM OnlyOverflowDrops == Spec => []GapsAreOverflow
BY Consequences, Always, PTL

\* A metric raises each kind of alert once, though both services restart.
THEOREM AlertsOnce == Spec => []AlertedOnce
BY Consequences, Always, PTL
===============================================================================
