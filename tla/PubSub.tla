-------------------------------- MODULE PubSub --------------------------------
(***************************************************************************)
(* The subscribers of architecture2/services/aggregator/main.go            *)
(* (SubscribeMetrics, broadcast) and of services/alerter/main.go           *)
(* (SubscribeAlerts, broadcast), which are the same code for two messages. *)
(*                                                                         *)
(* A message is its number in posted, the sequence of all that was ever    *)
(* broadcast.  subs[s] is subscription s: its place in the handler, whether*)
(* the map of subscribers holds it, the keys it asked for, its channel and *)
(* whether that is closed, the message its handler holds, whether gRPC has *)
(* seen that the client is gone, and what went to the client.              *)
(***************************************************************************)
EXTENDS Naturals, Sequences

CONSTANTS Sub,       \* the subscriptions; nextID gives each a number of its own
          Capacity   \* of a subscriber's channel, 256 in the code

VARIABLES subs, posted

NewSub == [st |-> "none", filter |-> {}, registered |-> FALSE, closed |-> FALSE, gone |-> FALSE,
           chan |-> <<>>, held |-> 0, got |-> <<>>,
           since |-> 0, dropped |-> {}]  \* history: where it began, what did not fit

Init == subs = [s \in Sub |-> NewSub] /\ posted = <<>>

Become(s, sub) == subs' = [subs EXCEPT ![s] = sub] /\ UNCHANGED posted

\* The first locked section of the handler; the request has the filter.
SubscribeReplays(s, keys) ==
  /\ subs[s].st = "none"
  /\ Become(s, [NewSub EXCEPT !.st = "recv", !.filter = keys, !.registered = TRUE, !.since = Len(posted),
                              !.chan = IF posted = <<>> THEN <<>> ELSE <<Len(posted)>>])
Subscribe(s, keys) ==
  /\ subs[s].st = "none"
  /\ Become(s, [NewSub EXCEPT !.st = "recv", !.filter = keys, !.registered = TRUE, !.since = Len(posted)])

FitsAlways(sub) == TRUE
FitsBelow(sub) == Len(sub.chan) + 1 < Capacity
Fits(sub) == Len(sub.chan) < Capacity

\* One locked section: every registered subscriber whose channel has room.
Broadcast(m) ==
  LET i == Len(posted) + 1
      Offer(sub) == IF ~sub.registered THEN sub
                    ELSE IF Fits(sub) THEN [sub EXCEPT !.chan = Append(@, i)]
                    ELSE IF Len(sub.chan) >= Capacity THEN [sub EXCEPT !.dropped = @ \cup {i}]
                    ELSE sub
  IN /\ posted' = Append(posted, m)
     /\ subs' = [s \in Sub |-> Offer(subs[s])]

Matches(s, i) == posted[i].key \in subs[s].filter

\* The handler takes the next message from its channel and looks at the filter.
Take(s) ==
  LET i == Head(subs[s].chan)
  IN /\ subs[s].st = "recv" /\ subs[s].chan # <<>>
     /\ Become(s, IF Matches(s, i)
                    THEN [subs[s] EXCEPT !.chan = Tail(@), !.st = "send", !.held = i]
                    ELSE [subs[s] EXCEPT !.chan = Tail(@)])

Send(s) ==
  /\ subs[s].st = "send" /\ ~subs[s].gone
  /\ Become(s, [subs[s] EXCEPT !.st = "recv", !.held = 0, !.got = Append(@, subs[s].held)])

\* The client is gone: the handler returns.
SendIgnored(s) ==
  /\ subs[s].st = "send" /\ subs[s].gone
  /\ Become(s, [subs[s] EXCEPT !.st = "recv", !.held = 0])
SendFails(s) ==
  /\ subs[s].st = "send" /\ subs[s].gone
  /\ Become(s, [subs[s] EXCEPT !.st = "leave", !.held = 0])

\* The deferred function: out of the map, under the lock, then close.
CloseFirst(s) ==
  /\ subs[s].st = "leave"
  /\ Become(s, [subs[s] EXCEPT !.st = "close", !.closed = TRUE])
Unregister(s) ==
  /\ subs[s].st = "leave"
  /\ Become(s, [subs[s] EXCEPT !.st = "close", !.registered = FALSE])
Close(s) ==
  /\ subs[s].st = "close"
  /\ Become(s, [NewSub EXCEPT !.st = "returned", !.closed = TRUE])

\* The client goes away or its connection breaks; the handler does not wait for that.
Leave(s) ==
  /\ subs[s].st \notin {"none", "returned"} /\ ~subs[s].gone
  /\ Become(s, [subs[s] EXCEPT !.gone = TRUE])

\* The server process ends, and all handlers with it.
Stopped(sub) ==
  IF sub.st = "none" THEN sub
  ELSE [sub EXCEPT !.st = "returned", !.registered = FALSE, !.chan = <<>>, !.held = 0]
Stop == subs' = [s \in Sub |-> Stopped(subs[s])] /\ UNCHANGED posted

Handler(s) == Take(s) \/ Send(s) \/ SendFails(s) \/ Unregister(s) \/ Close(s)

-------------------------------------------------------------------------------
\* A broadcast finds no closed channel in the map: it would panic.
MapHoldsOpenChannels == \A s \in Sub : subs[s].registered => ~subs[s].closed

Increasing(q) == \A i, j \in DOMAIN q : i < j => q[i] < q[j]
Queue(sub) == sub.got \o (IF sub.held = 0 THEN <<>> ELSE <<sub.held>>) \o sub.chan

\* What a subscriber has got, is about to get and still has in its channel are
\* in the order of the broadcasts, none before it subscribed and none twice.
InOrder ==
  \A s \in Sub :
    Increasing(Queue(subs[s])) /\ \A i \in DOMAIN Queue(subs[s]) : Queue(subs[s])[i] > subs[s].since

\* What a registered subscriber that has not failed asked for and does not find
\* in that queue was dropped because its channel was full.
Elements(q) == {q[i] : i \in DOMAIN q}
GapsAreOverflow ==
  \A s \in Sub : subs[s].st \in {"recv", "send"} =>
    \A i \in (subs[s].since + 1)..Len(posted) :
      Matches(s, i) => i \in Elements(Queue(subs[s])) \cup subs[s].dropped

\* Something the subscriber asked for fitted its channel and was not sent to it.
Owed(s) ==
  \E i \in (subs[s].since + 1)..Len(posted) :
    Matches(s, i) /\ i \notin subs[s].dropped \cup Elements(subs[s].got)
===============================================================================
