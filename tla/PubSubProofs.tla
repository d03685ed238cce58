------------------------------ MODULE PubSubProofs ------------------------------
(***************************************************************************)
(* What the subscriptions of a service keep, whatever is broadcast and     *)
(* whoever comes and goes: for any number of subscribers and messages, and *)
(* any capacity of the channels.                                           *)
(***************************************************************************)
EXTENDS PubSub, SequenceTheorems, TLAPS

\* A subscription when clients ask for what is in F and n messages were
\* broadcast.
Subscription(F, n) ==
  [st : {"none", "recv", "send", "leave", "close", "returned"},
   filter : F, registered : BOOLEAN, closed : BOOLEAN, gone : BOOLEAN, chan : Seq(1..n), held : 0..n,
   got : Seq(1..n), since : 0..n, dropped : SUBSET (1..n)]

\* The place of the handler says what holds of the channel: it is in the map
\* until the handler has left, and is closed when it returns.
PlaceOK(sub) ==
  /\ sub.registered <=> sub.st \in {"recv", "send", "leave"}
  /\ sub.closed => sub.st = "returned"
  /\ sub.held # 0 <=> sub.st = "send"
  /\ sub.st \in {"leave", "close"} => sub.gone
  /\ Len(sub.chan) <= Capacity

\* What the client got comes before what the handler holds, and that before
\* what is in the channel.
OrderOK(sub) ==
  /\ Increasing(sub.got) /\ Increasing(sub.chan)
  /\ \A i \in DOMAIN sub.got : sub.got[i] > sub.since
  /\ sub.held # 0 => sub.held > sub.since /\ \A i \in DOMAIN sub.got : sub.got[i] < sub.held
  /\ \A j \in DOMAIN sub.chan : sub.chan[j] > sub.since /\ sub.chan[j] > sub.held
  /\ \A i \in DOMAIN sub.got, j \in DOMAIN sub.chan : sub.got[i] < sub.chan[j]

Inside(sub) == Elements(sub.got) \cup {sub.held} \cup Elements(sub.chan) \cup sub.dropped
NoneMissing(sub, msgs) ==
  sub.st \in {"recv", "send"} =>
    \A i \in (sub.since + 1)..Len(msgs) : msgs[i].key \in sub.filter => i \in Inside(sub)

SubOK(sub, msgs, F) ==
  sub \in Subscription(F, Len(msgs)) /\ PlaceOK(sub) /\ OrderOK(sub) /\ NoneMissing(sub, msgs)

PubSubInv(F) ==
  /\ \E S : posted \in Seq(S)
  /\ subs \in [Sub -> Subscription(F, Len(posted))]
  /\ \A s \in Sub : SubOK(subs[s], posted, F)

\* All that the service and its clients do with the subscriptions, if only
\* clients in T leave.
Step(F, T) ==
  \/ \E s \in Sub, keys \in F : Subscribe(s, keys)
  \/ \E s \in Sub : Handler(s)
  \/ \E s \in T : Leave(s)
  \/ \E m : Broadcast(m)
  \/ Stop
  \/ UNCHANGED <<subs, posted>>

-------------------------------------------------------------------------------
\* What the invariant says of one subscription, step by step.
LEMMA SeqGrows == ASSUME NEW S, NEW T, S \subseteq T PROVE Seq(S) \subseteq Seq(T)
<1>1. SUFFICES ASSUME NEW q \in Seq(S) PROVE q \in Seq(T)
  OBVIOUS
<1>2. Len(q) \in Nat /\ q \in [1..Len(q) -> S]
  BY LenProperties
<1>. QED
  BY <1>2

LEMMA AppendElements ==
  ASSUME NEW S, NEW q \in Seq(S), NEW e \in S, NEW r, r = Append(q, e)
  PROVE  \A i \in DOMAIN r : (i \in DOMAIN q /\ r[i] = q[i]) \/ (i = Len(q) + 1 /\ r[i] = e)
<1>1. /\ Len(q) \in Nat /\ DOMAIN q = 1..Len(q) /\ DOMAIN r = 1..(Len(q) + 1)
      /\ \A j \in 1..Len(q) : r[j] = q[j]
      /\ r[Len(q) + 1] = e
  BY AppendProperties, LenProperties
<1>2. SUFFICES ASSUME NEW i \in DOMAIN r
               PROVE  (i \in DOMAIN q /\ r[i] = q[i]) \/ (i = Len(q) + 1 /\ r[i] = e)
  OBVIOUS
<1>3. CASE i = Len(q) + 1
  BY <1>1, <1>3, Zenon
<1>4. CASE i # Len(q) + 1
  <2>1. i \in 1..Len(q)
    <3>1. DOMAIN r = 1..(Len(q) + 1) /\ Len(q) \in Nat
      BY <1>1, Zenon
    <3>. HIDE <1>1
    <3>. QED
      BY <1>2, <1>4, <3>1
  <2>. QED
    BY <1>1, <2>1, Zenon
<1>. QED
  BY <1>3, <1>4

LEMMA Fields ==
  ASSUME NEW F, NEW n \in Nat, NEW u \in Subscription(F, n)
  PROVE  /\ u.filter \in F /\ u.registered \in BOOLEAN /\ u.closed \in BOOLEAN /\ u.gone \in BOOLEAN
         /\ u.chan \in Seq(1..n) /\ u.got \in Seq(1..n)
         /\ u.held \in 0..n /\ u.since \in 0..n /\ u.dropped \subseteq 1..n
         /\ Len(u.chan) \in Nat /\ DOMAIN u.chan = 1..Len(u.chan) /\ \A j \in DOMAIN u.chan : u.chan[j] \in 1..n
         /\ Len(u.got) \in Nat /\ DOMAIN u.got = 1..Len(u.got) /\ \A i \in DOMAIN u.got : u.got[i] \in 1..n
<1>1. /\ u.filter \in F /\ u.registered \in BOOLEAN /\ u.closed \in BOOLEAN /\ u.gone \in BOOLEAN
      /\ u.chan \in Seq(1..n) /\ u.got \in Seq(1..n)
      /\ u.held \in 0..n /\ u.since \in 0..n /\ u.dropped \subseteq 1..n
  BY DEF Subscription
<1>. QED
  BY <1>1, LenProperties

\* A handler that has received nothing and has nothing to receive.
LEMMA EmptyOK ==
  ASSUME Capacity \in Nat, NEW F, NEW msgs, Len(msgs) \in Nat, NEW u \in Subscription(F, Len(msgs)),
         u.chan = <<>>, u.got = <<>>, u.held = 0, u.st \in {"none", "recv", "returned"},
         u.registered <=> u.st = "recv", u.closed => u.st = "returned",
         u.st = "recv" => u.since = Len(msgs)
  PROVE  SubOK(u, msgs, F)
<1>1. PlaceOK(u)
  BY DEF PlaceOK
<1>2. OrderOK(u)
  BY DEF OrderOK, Increasing
<1>3. NoneMissing(u, msgs)
  BY DEF NoneMissing
<1>. QED
  BY <1>1, <1>2, <1>3 DEF SubOK

LEMMA SubscribeOK ==
  ASSUME Capacity \in Nat, NEW F, {} \in F, NEW keys \in F, NEW msgs, Len(msgs) \in Nat
  PROVE  /\ SubOK(NewSub, msgs, F)
         /\ SubOK([NewSub EXCEPT !.st = "recv", !.filter = keys, !.registered = TRUE, !.since = Len(msgs)], msgs, F)
         /\ SubOK([NewSub EXCEPT !.st = "returned", !.closed = TRUE], msgs, F)
<1>. DEFINE n == Len(msgs)
            v == [NewSub EXCEPT !.st = "recv", !.filter = keys, !.registered = TRUE, !.since = n]
            w == [NewSub EXCEPT !.st = "returned", !.closed = TRUE]
<1>1. NewSub \in Subscription(F, n)
  <2>1. <<>> \in Seq(1..n) /\ 0 \in 0..n /\ {} \subseteq 1..n
    BY EmptySeq
  <2>. QED
    BY <2>1 DEF NewSub, Subscription
<1>2. /\ NewSub.st = "none" /\ NewSub.chan = <<>> /\ NewSub.got = <<>> /\ NewSub.held = 0
      /\ ~NewSub.registered /\ ~NewSub.closed
  BY DEF NewSub
<1>3. v \in Subscription(F, n) /\ w \in Subscription(F, n)
  <2>1. n \in 0..n
    OBVIOUS
  <2>. QED
    BY <1>1, <2>1 DEF Subscription
<1>4. /\ v.st = "recv" /\ v.chan = <<>> /\ v.got = <<>> /\ v.held = 0 /\ v.registered /\ ~v.closed /\ v.since = n
      /\ w.st = "returned" /\ w.chan = <<>> /\ w.got = <<>> /\ w.held = 0 /\ ~w.registered
  BY <1>1, <1>2 DEF Subscription
<1>. HIDE DEF v, w
<1>5. SubOK(NewSub, msgs, F)
  BY <1>1, <1>2, EmptyOK
<1>6. SubOK(v, msgs, F)
  BY <1>3, <1>4, EmptyOK
<1>7. SubOK(w, msgs, F)
  BY <1>3, <1>4, EmptyOK
<1>. QED
  BY <1>5, <1>6, <1>7 DEF v, w

\* Without its first message a channel is as ordered as before, and all its
\* messages come after that one.
LEMMA TailOrdered ==
  ASSUME NEW n \in Nat, NEW q \in Seq(1..n), q # <<>>, Increasing(q)
  PROVE  /\ Head(q) \in 1..n /\ Head(q) = q[1] /\ 1 \in DOMAIN q
         /\ Tail(q) \in Seq(1..n) /\ Increasing(Tail(q)) /\ Len(Tail(q)) = Len(q) - 1
         /\ \A j \in DOMAIN Tail(q) : j + 1 \in DOMAIN q /\ Tail(q)[j] = q[j + 1] /\ q[j + 1] > Head(q)
         /\ Elements(q) = {Head(q)} \cup Elements(Tail(q))
<1>1. /\ Tail(q) \in Seq(1..n) /\ Len(Tail(q)) = Len(q) - 1 /\ Len(q) \in Nat \ {0}
      /\ \A j \in 1..Len(Tail(q)) : Tail(q)[j] = q[j + 1]
  BY HeadTailProperties, LenProperties, EmptySeq
<1>2. DOMAIN q = 1..Len(q) /\ DOMAIN Tail(q) = 1..(Len(q) - 1) /\ \A j \in DOMAIN q : q[j] \in 1..n
  BY <1>1, LenProperties
<1>3. Head(q) \in 1..n /\ Head(q) = q[1] /\ 1 \in DOMAIN q
  BY <1>1, <1>2
<1>4. \A j \in DOMAIN Tail(q) : j + 1 \in DOMAIN q /\ Tail(q)[j] = q[j + 1] /\ q[j + 1] > q[1]
  <2>1. ASSUME NEW j \in DOMAIN Tail(q) PROVE j + 1 \in DOMAIN q /\ 1 < j + 1 /\ Tail(q)[j] = q[j + 1]
    BY <1>1, <1>2
  <2>2. ASSUME NEW j \in DOMAIN q, 1 < j PROVE q[1] < q[j] /\ q[1] \in 1..n /\ q[j] \in 1..n
    BY <1>2, <1>3, <2>2 DEF Increasing
  <2>. QED
    BY <2>1, <2>2
<1>5. Increasing(Tail(q))
  <2>1. SUFFICES ASSUME NEW i \in DOMAIN Tail(q), NEW j \in DOMAIN Tail(q), i < j
                 PROVE  Tail(q)[i] < Tail(q)[j]
    BY DEF Increasing
  <2>2. i + 1 < j + 1
    BY <1>1, <1>2, <2>1
  <2>. QED
    BY <1>4, <2>1, <2>2 DEF Increasing
<1>6. Elements(q) = {q[1]} \cup Elements(Tail(q))
  <2>1. ASSUME NEW i \in DOMAIN q, i # 1 PROVE q[i] \in Elements(Tail(q))
    <3>1. i - 1 \in DOMAIN Tail(q) /\ (i - 1) + 1 = i
      BY <1>1, <1>2, <2>1
    <3>. QED
      BY <1>4, <3>1 DEF Elements
  <2>2. Elements(Tail(q)) \subseteq Elements(q)
    BY <1>4 DEF Elements
  <2>. QED
    BY <1>3, <2>1, <2>2 DEF Elements
<1>. QED
  BY <1>1, <1>3, <1>4, <1>5, <1>6

\* The handler takes a message: it holds it, or the client did not ask for it.
LEMMA TakeOK ==
  ASSUME Capacity \in Nat, NEW F, NEW msgs, Len(msgs) \in Nat, NEW u, SubOK(u, msgs, F),
         u.st = "recv", u.chan # <<>>,
         NEW hit \in BOOLEAN, hit <=> msgs[Head(u.chan)].key \in u.filter
  PROVE  SubOK(IF hit THEN [u EXCEPT !.chan = Tail(@), !.st = "send", !.held = Head(u.chan)]
               ELSE [u EXCEPT !.chan = Tail(@)], msgs, F)
<1>. DEFINE n == Len(msgs)
            i == Head(u.chan)
            v == IF hit THEN [u EXCEPT !.chan = Tail(@), !.st = "send", !.held = i]
                 ELSE [u EXCEPT !.chan = Tail(@)]
<1>1. u \in Subscription(F, n) /\ PlaceOK(u) /\ OrderOK(u) /\ NoneMissing(u, msgs) /\ u.chan \in Seq(1..n)
  BY Fields DEF SubOK
<1>2. /\ i \in 1..n /\ i = u.chan[1] /\ 1 \in DOMAIN u.chan
      /\ Tail(u.chan) \in Seq(1..n) /\ Increasing(Tail(u.chan)) /\ Len(Tail(u.chan)) = Len(u.chan) - 1
      /\ \A j \in DOMAIN Tail(u.chan) :
           j + 1 \in DOMAIN u.chan /\ Tail(u.chan)[j] = u.chan[j + 1] /\ u.chan[j + 1] > i
      /\ Elements(u.chan) = {i} \cup Elements(Tail(u.chan))
  BY <1>1, TailOrdered DEF OrderOK
<1>3. v \in Subscription(F, n)
  <2>1. i \in 0..n
    BY <1>2
  <2>2. CASE hit
    BY <1>1, <1>2, <2>1, <2>2 DEF Subscription
  <2>3. CASE ~hit
    BY <1>1, <1>2, <2>3 DEF Subscription
  <2>. QED
    BY <2>2, <2>3
<1>4. /\ v.chan = Tail(u.chan) /\ v.got = u.got /\ v.since = u.since /\ v.dropped = u.dropped
      /\ v.filter = u.filter /\ v.registered = u.registered /\ v.closed = u.closed /\ v.gone = u.gone
      /\ v.held = (IF hit THEN i ELSE u.held) /\ v.st = (IF hit THEN "send" ELSE "recv")
  <2>1. CASE hit
    BY <1>1, <2>1 DEF Subscription
  <2>2. CASE ~hit
    BY <1>1, <2>2 DEF Subscription
  <2>. QED
    BY <2>1, <2>2
<1>5. u.held = 0 /\ u.registered /\ ~u.closed /\ Len(u.chan) \in Nat /\ Len(u.chan) <= Capacity
  BY <1>1, Fields DEF PlaceOK
<1>9. hit <=> msgs[i].key \in u.filter
  OBVIOUS
<1>. HIDE DEF v, i
<1>6. PlaceOK(v)
  <2>1. Len(v.chan) <= Capacity
    BY <1>1, <1>2, <1>4, <1>5, Fields DEF PlaceOK
  <2>2. v.held # 0 <=> v.st = "send"
    BY <1>2, <1>4, <1>5
  <2>. QED
    BY <1>4, <1>5, <2>1, <2>2 DEF PlaceOK
<1>7. OrderOK(v)
  <2>1. ASSUME NEW j \in DOMAIN v.chan
        PROVE  v.chan[j] > v.since /\ v.chan[j] > v.held /\ \A k \in DOMAIN v.got : v.got[k] < v.chan[j]
    <3>1. j + 1 \in DOMAIN u.chan /\ v.chan[j] = u.chan[j + 1] /\ u.chan[j + 1] > i
      BY <1>2, <1>4
    <3>2. u.chan[j + 1] > u.since /\ u.chan[j + 1] > u.held /\ \A k \in DOMAIN u.got : u.got[k] < u.chan[j + 1]
      BY <1>1, <3>1 DEF OrderOK
    <3>. QED
      BY <1>4, <3>1, <3>2
  <2>2. v.held # 0 => v.held > v.since /\ \A k \in DOMAIN v.got : v.got[k] < v.held
    BY <1>1, <1>2, <1>4, <1>5 DEF OrderOK
  <2>. QED
    BY <1>1, <1>2, <1>4, <2>1, <2>2 DEF OrderOK
<1>8. NoneMissing(v, msgs)
  <2>1. SUFFICES ASSUME NEW k \in (u.since + 1)..n, msgs[k].key \in u.filter PROVE k \in Inside(v)
    BY <1>4 DEF NoneMissing
  <2>2. k \in Inside(u) /\ k # 0 /\ k # u.held
    BY <1>1, <1>5, <2>1, Fields DEF NoneMissing
  <2>3. k = i => hit
    BY <1>9, <2>1
  <2>. QED
    BY <1>2, <1>4, <2>2, <2>3 DEF Inside
<1>. QED
  BY <1>3, <1>6, <1>7, <1>8 DEF SubOK, v, i

\* A place before another one is a place of the sequence without its last element.
LEMMA EarlierPlace ==
  ASSUME NEW m \in Nat, NEW i \in 1..(m + 1), NEW j \in 1..(m + 1), i < j
  PROVE  i \in 1..m
OBVIOUS

\* What the handler holds is sent, and is the last the client got.
LEMMA SendOK ==
  ASSUME NEW F, NEW msgs, Len(msgs) \in Nat, NEW u, SubOK(u, msgs, F), u.st = "send"
  PROVE  SubOK([u EXCEPT !.st = "recv", !.held = 0, !.got = Append(@, u.held)], msgs, F)
<1>. DEFINE n == Len(msgs)
            q == Append(u.got, u.held)
            v == [u EXCEPT !.st = "recv", !.held = 0, !.got = Append(@, u.held)]
<1>1. /\ u \in Subscription(F, n) /\ PlaceOK(u) /\ OrderOK(u) /\ NoneMissing(u, msgs)
      /\ u.got \in Seq(1..n) /\ u.held \in 1..n /\ Len(u.got) \in Nat /\ DOMAIN u.got = 1..Len(u.got)
      /\ \A i \in DOMAIN u.got : u.got[i] \in 1..n
  BY Fields DEF SubOK, PlaceOK
<1>2. /\ q \in Seq(1..n) /\ Len(q) = Len(u.got) + 1 /\ DOMAIN q = 1..(Len(u.got) + 1)
      /\ \A i \in 1..Len(u.got) : q[i] = u.got[i]
      /\ q[Len(u.got) + 1] = u.held
  BY <1>1, AppendProperties, LenProperties
<1>3. v \in Subscription(F, n)
  <2>1. 0 \in 0..n
    OBVIOUS
  <2>. QED
    BY <1>1, <1>2, <2>1 DEF Subscription
<1>4. /\ v.chan = u.chan /\ v.got = q /\ v.since = u.since /\ v.dropped = u.dropped
      /\ v.filter = u.filter /\ v.registered = u.registered /\ v.closed = u.closed /\ v.gone = u.gone
      /\ v.held = 0 /\ v.st = "recv"
  BY <1>1 DEF Subscription
<1>. HIDE DEF v, q
<1>5. PlaceOK(v)
  BY <1>1, <1>4 DEF PlaceOK
<1>6. \A i \in DOMAIN q : (i \in DOMAIN u.got /\ q[i] = u.got[i]) \/ (i = Len(u.got) + 1 /\ q[i] = u.held)
  <2>1. q = Append(u.got, u.held)
    BY DEF q
  <2>. QED
    BY <1>1, <2>1, AppendElements
<1>7. OrderOK(v)
  <2>1. Increasing(q)
    <3>1. SUFFICES ASSUME NEW i \in DOMAIN q, NEW j \in DOMAIN q, i < j PROVE q[i] < q[j]
      BY DEF Increasing
    <3>2. i \in DOMAIN u.got /\ q[i] = u.got[i]
      <4>1. i \in 1..Len(u.got)
        BY <1>1, <1>2, <3>1, EarlierPlace
      <4>. QED
        BY <1>1, <1>2, <4>1
    <3>. QED
      BY <1>1, <1>6, <3>1, <3>2 DEF OrderOK, Increasing
  <2>2. \A i \in DOMAIN q : q[i] > u.since /\ \A j \in DOMAIN u.chan : q[i] < u.chan[j]
    BY <1>1, <1>6 DEF OrderOK
  <2>. QED
    BY <1>1, <1>4, <2>1, <2>2, Fields DEF OrderOK
<1>8. NoneMissing(v, msgs)
  <2>1. Elements(q) = Elements(u.got) \cup {u.held}
    <3>1. u.held \in Elements(q)
      <4>1. Len(u.got) + 1 \in DOMAIN q
        BY <1>1, <1>2
      <4>. QED
        BY <1>2, <4>1 DEF Elements
    <3>2. Elements(u.got) \subseteq Elements(q)
      <4>1. DOMAIN u.got \subseteq DOMAIN q /\ \A i \in DOMAIN u.got : q[i] = u.got[i]
        <5>1. /\ Len(u.got) \in Nat /\ DOMAIN u.got = 1..Len(u.got) /\ DOMAIN q = 1..(Len(u.got) + 1)
              /\ \A i \in 1..Len(u.got) : q[i] = u.got[i]
          BY <1>1, <1>2, Zenon
        <5>. QED
          BY <5>1
      <4>. QED
        BY <4>1 DEF Elements
    <3>3. Elements(q) \subseteq Elements(u.got) \cup {u.held}
      BY <1>6 DEF Elements
    <3>. QED
      BY <3>1, <3>2, <3>3
  <2>. QED
    BY <1>1, <1>4, <2>1 DEF NoneMissing, Inside
<1>. QED
  BY <1>3, <1>5, <1>7, <1>8 DEF SubOK, v

\* A send fails, the handler leaves the map, the client leaves, or the process
\* ends: what the client got stays.
LEMMA EndOK ==
  ASSUME Capacity \in Nat, NEW F, NEW msgs, Len(msgs) \in Nat, NEW u, SubOK(u, msgs, F)
  PROVE  /\ u.st = "send" /\ u.gone => SubOK([u EXCEPT !.st = "leave", !.held = 0], msgs, F)
         /\ u.st = "leave" => SubOK([u EXCEPT !.st = "close", !.registered = FALSE], msgs, F)
         /\ u.st \notin {"none", "returned"} => SubOK([u EXCEPT !.gone = TRUE], msgs, F)
         /\ SubOK(Stopped(u), msgs, F)
<1>. DEFINE n == Len(msgs)
<1>1. u \in Subscription(F, n) /\ PlaceOK(u) /\ OrderOK(u) /\ NoneMissing(u, msgs)
  BY DEF SubOK
<1>2. 0 \in 0..n /\ <<>> \in Seq(1..n) /\ Len(<<>>) = 0 /\ u.got \in Seq(1..n)
  BY <1>1, EmptySeq, Fields
<1>3. ASSUME u.st = "send", u.gone PROVE SubOK([u EXCEPT !.st = "leave", !.held = 0], msgs, F)
  <2>. DEFINE v == [u EXCEPT !.st = "leave", !.held = 0]
  <2>1. v \in Subscription(F, n)
    BY <1>1, <1>2 DEF Subscription
  <2>2. /\ v.chan = u.chan /\ v.got = u.got /\ v.since = u.since /\ v.registered = u.registered
        /\ v.closed = u.closed /\ v.gone = u.gone /\ v.held = 0 /\ v.st = "leave"
    BY <1>1 DEF Subscription
  <2>. HIDE DEF v
  <2>3. PlaceOK(v)
    BY <1>1, <1>3, <2>2 DEF PlaceOK
  <2>4. OrderOK(v)
    BY <1>1, <2>2, Fields DEF OrderOK
  <2>6. SubOK(v, msgs, F)
    BY <2>1, <2>2, <2>3, <2>4 DEF SubOK, NoneMissing
  <2>. QED
    BY <2>6 DEF v
<1>4. ASSUME u.st = "leave" PROVE SubOK([u EXCEPT !.st = "close", !.registered = FALSE], msgs, F)
  <2>. DEFINE v == [u EXCEPT !.st = "close", !.registered = FALSE]
  <2>1. v \in Subscription(F, n)
    BY <1>1, <1>2 DEF Subscription
  <2>2. /\ v.chan = u.chan /\ v.got = u.got /\ v.since = u.since /\ v.registered = FALSE
        /\ v.closed = u.closed /\ v.gone = u.gone /\ v.held = u.held /\ v.st = "close"
    BY <1>1 DEF Subscription
  <2>. HIDE DEF v
  <2>3. PlaceOK(v)
    BY <1>1, <1>4, <2>2 DEF PlaceOK
  <2>4. OrderOK(v)
    BY <1>1, <2>2, Zenon DEF OrderOK
  <2>6. SubOK(v, msgs, F)
    BY <2>1, <2>2, <2>3, <2>4 DEF SubOK, NoneMissing
  <2>. QED
    BY <2>6 DEF v
<1>5. ASSUME u.st \notin {"none", "returned"} PROVE SubOK([u EXCEPT !.gone = TRUE], msgs, F)
  <2>. DEFINE v == [u EXCEPT !.gone = TRUE]
  <2>1. v \in Subscription(F, n)
    BY <1>1 DEF Subscription
  <2>2. /\ v.chan = u.chan /\ v.got = u.got /\ v.since = u.since /\ v.registered = u.registered
        /\ v.closed = u.closed /\ v.gone = TRUE /\ v.held = u.held /\ v.st = u.st
        /\ v.dropped = u.dropped /\ v.filter = u.filter
    BY <1>1 DEF Subscription
  <2>. HIDE DEF v
  <2>3. PlaceOK(v)
    BY <1>1, <2>2 DEF PlaceOK
  <2>4. OrderOK(v)
    BY <1>1, <2>2, Zenon DEF OrderOK
  <2>5. NoneMissing(v, msgs)
    BY <1>1, <2>2, Zenon DEF NoneMissing, Inside
  <2>6. SubOK(v, msgs, F)
    BY <2>1, <2>3, <2>4, <2>5 DEF SubOK
  <2>. QED
    BY <2>6 DEF v
<1>6. SubOK(Stopped(u), msgs, F)
  <2>. DEFINE v == [u EXCEPT !.st = "returned", !.registered = FALSE, !.chan = <<>>, !.held = 0]
  <2>1. v \in Subscription(F, n)
    BY <1>1, <1>2 DEF Subscription
  <2>2. /\ v.chan = <<>> /\ v.got = u.got /\ v.since = u.since /\ v.registered = FALSE
        /\ v.closed = u.closed /\ v.held = 0 /\ v.st = "returned"
    BY <1>1 DEF Subscription
  <2>. HIDE DEF v
  <2>3. PlaceOK(v)
    BY <1>1, <1>2, <2>2 DEF PlaceOK
  <2>4. OrderOK(v)
    BY <1>1, <2>2 DEF OrderOK, Increasing
  <2>5. SubOK(v, msgs, F)
    BY <2>1, <2>2, <2>3, <2>4 DEF SubOK, NoneMissing
  <2>. QED
    BY <2>5 DEF Stopped, v
<1>. QED
  BY <1>3, <1>4, <1>5, <1>6

\* Something is broadcast that is not for this subscription, or that is put in
\* its channel, or that finds it full.
LEMMA OfferOK ==
  ASSUME Capacity \in Nat, NEW F, NEW S, NEW msgs \in Seq(S), NEW m, NEW u, SubOK(u, msgs, F), NEW v,
         v = IF ~u.registered THEN u
             ELSE IF Fits(u) THEN [u EXCEPT !.chan = Append(@, Len(msgs) + 1)]
             ELSE IF Len(u.chan) >= Capacity THEN [u EXCEPT !.dropped = @ \cup {Len(msgs) + 1}]
             ELSE u
  PROVE  SubOK(v, Append(msgs, m), F)
<1>. DEFINE n == Len(msgs)
            more == Append(msgs, m)
<1>1. n \in Nat /\ Len(more) = n + 1 /\ (\A i \in 1..n : more[i] = msgs[i]) /\ more[n + 1] = m
  <2>1. msgs \in Seq(S \cup {m})
    BY SeqGrows
  <2>. QED
    BY <2>1, AppendProperties, LenProperties
<1>. HIDE DEF n, more
<1>2. u \in Subscription(F, n) /\ PlaceOK(u) /\ OrderOK(u) /\ NoneMissing(u, msgs)
  BY DEF SubOK, n
<1>3. Subscription(F, n) \subseteq Subscription(F, n + 1) /\ n + 1 \in 1..(n + 1)
  <2>1. 1..n \subseteq 1..(n + 1) /\ 0..n \subseteq 0..(n + 1) /\ n + 1 \in 1..(n + 1)
    BY <1>1
  <2>2. Seq(1..n) \subseteq Seq(1..(n + 1))
    BY <2>1, SeqGrows
  <2>. QED
    BY <2>1, <2>2 DEF Subscription
<1>4. /\ u.chan \in Seq(1..n) /\ Len(u.chan) \in Nat /\ DOMAIN u.chan = 1..Len(u.chan)
      /\ \A j \in DOMAIN u.chan : u.chan[j] \in 1..n
      /\ u.held \in 0..n /\ u.since \in 0..n
      /\ \A i \in DOMAIN u.got : u.got[i] \in 1..n
  BY <1>1, <1>2, Fields
\* All but the new message is where it was, and the new one is nobody's yet.
<1>5. ASSUME NEW w, w.st = u.st, w.filter = u.filter, w.since = u.since,
             Inside(u) \subseteq Inside(w), w.st \in {"recv", "send"} => n + 1 \in Inside(w)
      PROVE  NoneMissing(w, more)
  <2>1. SUFFICES ASSUME w.st \in {"recv", "send"}, NEW i \in (w.since + 1)..(n + 1), more[i].key \in w.filter
                 PROVE  i \in Inside(w)
    BY <1>1 DEF NoneMissing
  <2>2. CASE i = n + 1
    BY <1>5, <2>1, <2>2
  <2>3. CASE i # n + 1
    <3>1. i \in (u.since + 1)..n /\ i \in 1..n
      BY <1>1, <1>4, <1>5, <2>1, <2>3
    <3>2. msgs[i].key \in u.filter
      BY <1>1, <1>5, <2>1, <3>1
    <3>. QED
      BY <1>2, <1>5, <2>1, <3>1, <3>2 DEF NoneMissing, n
  <2>. QED
    BY <2>2, <2>3
<1>6. CASE v = u /\ ~u.registered
  <2>1. NoneMissing(u, more)
    BY <1>2, <1>6 DEF PlaceOK, NoneMissing
  <2>. QED
    BY <1>1, <1>2, <1>3, <1>6, <2>1 DEF SubOK, more
<1>7. CASE v = [u EXCEPT !.chan = Append(@, n + 1)] /\ Fits(u)
  <2>. DEFINE q == Append(u.chan, n + 1)
  <2>1. /\ q \in Seq(1..(n + 1)) /\ Len(q) = Len(u.chan) + 1 /\ DOMAIN q = 1..(Len(u.chan) + 1)
        /\ \A j \in 1..Len(u.chan) : q[j] = u.chan[j]
        /\ q[Len(u.chan) + 1] = n + 1
    <3>1. u.chan \in Seq(1..(n + 1))
      BY <1>2, <1>3, Fields, <1>1
    <3>. QED
      BY <1>3, <3>1, AppendProperties, LenProperties
  <2>. HIDE DEF q
  <2>2. v \in Subscription(F, n + 1)
    BY <1>2, <1>3, <1>7, <2>1 DEF Subscription, q
  <2>3. /\ v.chan = q /\ v.got = u.got /\ v.since = u.since /\ v.dropped = u.dropped /\ v.filter = u.filter
        /\ v.registered = u.registered /\ v.closed = u.closed /\ v.gone = u.gone
        /\ v.held = u.held /\ v.st = u.st
    BY <1>2, <1>7 DEF Subscription, q
  <2>4. \A j \in DOMAIN q : (j \in DOMAIN u.chan /\ q[j] = u.chan[j]) \/ (j = Len(u.chan) + 1 /\ q[j] = n + 1)
    <3>1. u.chan \in Seq(1..(n + 1))
      BY <1>1, <1>2, <1>3, Fields
    <3>. QED
      <4>1. q = Append(u.chan, n + 1)
        BY DEF q
      <4>. QED
        BY <1>3, <3>1, <4>1, AppendElements
  <2>5. PlaceOK(v)
    BY <1>2, <1>4, <1>7, <2>1, <2>3 DEF PlaceOK, Fits
  <2>6. Increasing(q)
    <3>1. SUFFICES ASSUME NEW i \in DOMAIN q, NEW j \in DOMAIN q, i < j PROVE q[i] < q[j]
      BY DEF Increasing
    <3>2. i \in DOMAIN u.chan /\ q[i] = u.chan[i]
      <4>1. i \in 1..Len(u.chan)
        BY <1>4, <2>1, <3>1, EarlierPlace
      <4>. QED
        BY <1>4, <2>1, <4>1
    <3>3. CASE j \in DOMAIN u.chan /\ q[j] = u.chan[j]
      <4>1. Increasing(u.chan)
        BY <1>2 DEF OrderOK
      <4>. QED
        BY <3>1, <3>2, <3>3, <4>1 DEF Increasing
    <3>4. CASE j = Len(u.chan) + 1 /\ q[j] = n + 1
      <4>1. u.chan[i] \in 1..n
        BY <1>4, <3>2
      <4>. QED
        BY <1>1, <1>2, <3>2, <3>4, <4>1
    <3>. QED
      BY <2>4, <3>1, <3>3, <3>4
  <2>7. \A j \in DOMAIN q : q[j] > u.since /\ q[j] > u.held /\ \A i \in DOMAIN u.got : u.got[i] < q[j]
    <3>1. n + 1 > u.since /\ n + 1 > u.held /\ \A i \in DOMAIN u.got : u.got[i] < n + 1
      BY <1>1, <1>4
    <3>. QED
      BY <1>2, <2>4, <3>1 DEF OrderOK
  <2>8. OrderOK(v)
    BY <1>2, <2>3, <2>6, <2>7 DEF OrderOK
  <2>9. NoneMissing(v, more)
    <3>1. n + 1 \in Elements(q) /\ Elements(u.chan) \subseteq Elements(q)
      <4>1. Len(u.chan) + 1 \in DOMAIN q /\ DOMAIN u.chan \subseteq DOMAIN q
        BY <1>4, <2>1
      <4>. QED
        BY <1>4, <2>1, <4>1 DEF Elements
    <3>2. Inside(u) \subseteq Inside(v) /\ n + 1 \in Inside(v)
      BY <2>3, <3>1 DEF Inside
    <3>. QED
      BY <1>5, <2>3, <3>2
  <2>. QED
    BY <1>1, <2>2, <2>5, <2>8, <2>9 DEF SubOK, more
<1>8. CASE v = [u EXCEPT !.dropped = @ \cup {n + 1}]
  <2>1. v \in Subscription(F, n + 1)
    <3>1. u.dropped \subseteq 1..(n + 1)
      BY <1>2, <1>3 DEF Subscription
    <3>2. u.dropped \cup {n + 1} \subseteq 1..(n + 1)
      BY <1>3, <3>1
    <3>. QED
      BY <1>2, <1>3, <1>8, <3>2 DEF Subscription
  <2>2. /\ v.chan = u.chan /\ v.got = u.got /\ v.since = u.since /\ v.dropped = u.dropped \cup {n + 1}
        /\ v.filter = u.filter /\ v.registered = u.registered /\ v.closed = u.closed /\ v.gone = u.gone
        /\ v.held = u.held /\ v.st = u.st
    BY <1>2, <1>8 DEF Subscription
  <2>3. PlaceOK(v)
    BY <1>2, <2>2 DEF PlaceOK
  <2>4. OrderOK(v)
    BY <1>2, <2>2, Zenon DEF OrderOK
  <2>5. Inside(u) \subseteq Inside(v) /\ n + 1 \in Inside(v)
    BY <2>2 DEF Inside
  <2>6. NoneMissing(v, more)
    BY <1>5, <2>2, <2>5
  <2>. QED
    BY <1>1, <2>1, <2>3, <2>4, <2>6 DEF SubOK, more
<1>9. Fits(u) \/ Len(u.chan) >= Capacity
  BY <1>4 DEF Fits
<1>. QED
  BY <1>6, <1>7, <1>8, <1>9 DEF n

-------------------------------------------------------------------------------
\* Initially, and after each step, every subscription is as it should be.
LEMMA StartsOK ==
  ASSUME Capacity \in Nat, NEW F, {} \in F, Init
  PROVE  PubSubInv(F)
<1>1. posted = <<>> /\ Len(posted) = 0 /\ \E S : posted \in Seq(S)
  BY EmptySeq DEF Init
<1>2. SubOK(NewSub, posted, F)
  BY <1>1, SubscribeOK
<1>. QED
  BY <1>1, <1>2 DEF Init, PubSubInv, SubOK

LEMMA BecomeOK ==
  ASSUME NEW F, PubSubInv(F), NEW s \in Sub, NEW sub, SubOK(sub, posted, F), Become(s, sub)
  PROVE  PubSubInv(F)'
<1>1. sub \in Subscription(F, Len(posted)) /\ posted' = posted /\ subs' = [subs EXCEPT ![s] = sub]
  BY DEF SubOK, Become
<1>2. subs' \in [Sub -> Subscription(F, Len(posted))] /\ \A q \in Sub : subs'[q] = IF q = s THEN sub ELSE subs[q]
  BY <1>1 DEF PubSubInv
<1>3. \A q \in Sub : SubOK(subs'[q], posted, F)
  BY <1>2 DEF PubSubInv
<1>. QED
  BY <1>1, <1>2, <1>3 DEF PubSubInv

LEMMA StepOK ==
  ASSUME Capacity \in Nat, NEW F, {} \in F, PubSubInv(F), NEW T \in SUBSET Sub, Step(F, T)
  PROVE  PubSubInv(F)'
<1>1. PICK S : posted \in Seq(S)
  BY DEF PubSubInv
<1>2. Len(posted) \in Nat /\ \A s \in Sub : SubOK(subs[s], posted, F)
  BY <1>1, LenProperties DEF PubSubInv
<1>3. ASSUME NEW s \in Sub, NEW keys \in F, Subscribe(s, keys) PROVE PubSubInv(F)'
  BY <1>2, <1>3, SubscribeOK, BecomeOK DEF Subscribe
<1>4. ASSUME NEW s \in Sub, Handler(s) \/ Leave(s) PROVE PubSubInv(F)'
  <2>1. CASE Take(s)
    <3>. DEFINE hit == posted[Head(subs[s].chan)].key \in subs[s].filter
    <3>1. Become(s, IF hit THEN [subs[s] EXCEPT !.chan = Tail(@), !.st = "send", !.held = Head(subs[s].chan)]
                    ELSE [subs[s] EXCEPT !.chan = Tail(@)])
      BY <2>1 DEF Take, Matches
    <3>2. hit \in BOOLEAN /\ subs[s].st = "recv" /\ subs[s].chan # <<>>
      BY <2>1 DEF Take
    <3>3. SubOK(IF hit THEN [subs[s] EXCEPT !.chan = Tail(@), !.st = "send", !.held = Head(subs[s].chan)]
                ELSE [subs[s] EXCEPT !.chan = Tail(@)], posted, F)
      BY <1>2, <3>2, TakeOK
    <3>. QED
      BY <3>1, <3>3, BecomeOK
  <2>2. CASE Send(s)
    BY <1>2, <2>2, SendOK, BecomeOK DEF Send
  <2>3. CASE SendFails(s) \/ Unregister(s) \/ Leave(s)
    BY <1>2, <2>3, EndOK, BecomeOK DEF SendFails, Unregister, Leave
  <2>4. CASE Close(s)
    <3>1. SubOK([NewSub EXCEPT !.st = "returned", !.closed = TRUE], posted, F)
      BY <1>2, SubscribeOK
    <3>. QED
      BY <2>4, <3>1, BecomeOK DEF Close
  <2>. QED
    BY <1>4, <2>1, <2>2, <2>3, <2>4 DEF Handler
<1>5. ASSUME NEW m, Broadcast(m) PROVE PubSubInv(F)'
  <2>1. posted' = Append(posted, m)
    BY <1>5 DEF Broadcast
  <2>2. ASSUME NEW s \in Sub PROVE SubOK(subs'[s], posted', F)
    <3>1. subs'[s] = IF ~subs[s].registered THEN subs[s]
                     ELSE IF Fits(subs[s]) THEN [subs[s] EXCEPT !.chan = Append(@, Len(posted) + 1)]
                     ELSE IF Len(subs[s].chan) >= Capacity
                       THEN [subs[s] EXCEPT !.dropped = @ \cup {Len(posted) + 1}]
                     ELSE subs[s]
      BY <1>5 DEF Broadcast
    <3>. QED
      BY <1>1, <1>2, <2>1, <3>1, OfferOK
  <2>3. posted' \in Seq(S \cup {m})
    BY <1>1, <2>1, SeqGrows, AppendProperties
  <2>4. subs' = [s \in Sub |-> subs'[s]]
    BY <1>5 DEF Broadcast
  <2>5. subs' \in [Sub -> Subscription(F, Len(posted'))]
    BY <2>2, <2>4 DEF SubOK
  <2>. QED
    BY <2>2, <2>3, <2>5 DEF PubSubInv
<1>6. CASE Stop
  <2>1. posted' = posted /\ subs' = [s \in Sub |-> Stopped(subs[s])]
    BY <1>6 DEF Stop
  <2>2. \A s \in Sub : SubOK(Stopped(subs[s]), posted, F)
    BY <1>2, EndOK
  <2>3. subs' \in [Sub -> Subscription(F, Len(posted))] /\ \A s \in Sub : SubOK(subs'[s], posted, F)
    BY <2>1, <2>2 DEF SubOK
  <2>. QED
    BY <1>1, <2>1, <2>3 DEF PubSubInv
<1>7. CASE UNCHANGED <<subs, posted>>
  BY <1>7 DEF PubSubInv
<1>. QED
  BY <1>3, <1>4, <1>5, <1>6, <1>7 DEF Step

\* The invariant gives what a service promises.
LEMMA Concatenated ==
  ASSUME NEW S, NEW x \in Seq(S), NEW y \in Seq(S)
  PROVE  /\ x \o y \in Seq(S) /\ Len(x \o y) = Len(x) + Len(y)
         /\ DOMAIN (x \o y) = 1..(Len(x) + Len(y))
         /\ \A i \in 1..(Len(x) + Len(y)) : (x \o y)[i] = IF i <= Len(x) THEN x[i] ELSE y[i - Len(x)]
<1>1. /\ x \o y \in Seq(S) /\ Len(x \o y) = Len(x) + Len(y)
      /\ \A i \in 1..(Len(x) + Len(y)) : (x \o y)[i] = IF i <= Len(x) THEN x[i] ELSE y[i - Len(x)]
  BY ConcatProperties
<1>. QED
  BY <1>1, LenProperties

LEMMA QueueElements ==
  ASSUME NEW n \in Nat, NEW F, NEW u \in Subscription(F, n), PlaceOK(u), OrderOK(u)
  PROVE  /\ Increasing(Queue(u)) /\ \A i \in DOMAIN Queue(u) : Queue(u)[i] > u.since
         /\ Elements(u.got) \cup ({u.held} \ {0}) \cup Elements(u.chan) \subseteq Elements(Queue(u))
<1>. DEFINE mid == IF u.held = 0 THEN <<>> ELSE <<u.held>>
            q == u.got \o mid
            r == q \o u.chan
<1>1. /\ u.got \in Seq(1..n) /\ u.chan \in Seq(1..n) /\ mid \in Seq(1..n)
      /\ Len(u.got) \in Nat /\ Len(u.chan) \in Nat
      /\ DOMAIN u.got = 1..Len(u.got) /\ DOMAIN u.chan = 1..Len(u.chan) /\ u.since \in Nat /\ u.held \in Nat
      /\ (\A i \in DOMAIN u.got : u.got[i] \in Nat) /\ \A j \in DOMAIN u.chan : u.chan[j] \in Nat
  <2>1. mid \in Seq(1..n)
    <3>1. u.held \in 0..n
      BY Fields
    <3>2. u.held # 0 => u.held \in 1..n
      BY <3>1
    <3>3. <<>> \in Seq(1..n)
      BY EmptySeq
    <3>4. u.held # 0 => <<u.held>> \in Seq(1..n)
      BY <3>2
    <3>. QED
      BY <3>3, <3>4, Zenon
  <2>2. /\ u.got \in Seq(1..n) /\ u.chan \in Seq(1..n)
        /\ Len(u.got) \in Nat /\ Len(u.chan) \in Nat
        /\ DOMAIN u.got = 1..Len(u.got) /\ DOMAIN u.chan = 1..Len(u.chan)
        /\ u.since \in 0..n /\ u.held \in 0..n
        /\ (\A i \in DOMAIN u.got : u.got[i] \in 1..n) /\ \A j \in DOMAIN u.chan : u.chan[j] \in 1..n
    BY Fields
  <2>. HIDE DEF mid
  <2>. QED
    BY <2>1, <2>2
<1>2. Len(mid) = (IF u.held = 0 THEN 0 ELSE 1) /\ (u.held # 0 => mid[1] = u.held)
  BY EmptySeq
<1>. HIDE DEF mid
<1>3. /\ q \in Seq(1..n) /\ Len(q) = Len(u.got) + Len(mid)
      /\ \A i \in 1..(Len(u.got) + Len(mid)) : q[i] = IF i <= Len(u.got) THEN u.got[i] ELSE mid[i - Len(u.got)]
  BY <1>1, Concatenated
<1>. HIDE DEF q
<1>4. /\ DOMAIN r = 1..(Len(q) + Len(u.chan))
      /\ \A i \in 1..(Len(q) + Len(u.chan)) : r[i] = IF i <= Len(q) THEN q[i] ELSE u.chan[i - Len(q)]
  <2>1. q \in Seq(1..n) /\ u.chan \in Seq(1..n)
    BY <1>1, <1>3
  <2>2. PICK k : k = u.chan
    OBVIOUS
  <2>3. k \in Seq(1..n)
    BY <2>1, <2>2, Zenon
  <2>4. /\ DOMAIN (q \o k) = 1..(Len(q) + Len(k))
        /\ \A i \in 1..(Len(q) + Len(k)) : (q \o k)[i] = IF i <= Len(q) THEN q[i] ELSE k[i - Len(q)]
    BY <2>1, <2>3, Concatenated
  <2>. QED
    BY <2>2, <2>4, Zenon
<1>. HIDE DEF r
<1>. DEFINE a == Len(u.got)
            b == Len(q)
            c == Len(u.chan)
<1>5. a \in Nat /\ b \in Nat /\ c \in Nat /\ b = IF u.held = 0 THEN a ELSE a + 1
  <2>1. a \in Nat /\ c \in Nat /\ b = a + Len(mid)
    BY <1>1, <1>3
  <2>. HIDE DEF a, b, c
  <2>2. Len(mid) = 0 \/ Len(mid) = 1
    BY <1>2
  <2>3. u.held = 0 <=> Len(mid) = 0
    BY <1>2
  <2>4. CASE Len(mid) = 0
    BY <2>1, <2>3, <2>4
  <2>5. CASE Len(mid) = 1
    BY <2>1, <2>3, <2>5
  <2>. QED
    BY <2>2, <2>4, <2>5
<1>11. \A i \in 1..b : q[i] = IF i <= a THEN u.got[i] ELSE mid[i - a]
  BY <1>3
<1>12. DOMAIN r = 1..(b + c) /\ \A i \in 1..(b + c) : r[i] = IF i <= b THEN q[i] ELSE u.chan[i - b]
  BY <1>4
<1>13. DOMAIN u.got = 1..a /\ DOMAIN u.chan = 1..c
  BY <1>1
<1>. HIDE DEF a, b, c
\* A place in the queue is one of the three.
<1>14. ASSUME NEW i \in 1..a PROVE i \in DOMAIN r /\ r[i] = u.got[i]
  <2>1. i \in 1..b /\ i \in 1..(b + c) /\ i <= a /\ i <= b
    BY <1>5, <1>14
  <2>. QED
    BY <1>11, <1>12, <2>1
<1>15. ASSUME u.held # 0 PROVE a + 1 \in DOMAIN r /\ r[a + 1] = u.held
  <2>1. a + 1 \in 1..b /\ a + 1 \in 1..(b + c) /\ ~(a + 1 <= a) /\ a + 1 <= b /\ (a + 1) - a = 1
    BY <1>5, <1>15
  <2>. QED
    BY <1>2, <1>11, <1>12, <1>15, <2>1
<1>16. ASSUME NEW j \in 1..c PROVE b + j \in DOMAIN r /\ r[b + j] = u.chan[j]
  <2>1. b + j \in 1..(b + c) /\ ~(b + j <= b) /\ (b + j) - b = j
    BY <1>5, <1>16
  <2>. QED
    BY <1>12, <2>1
<1>6. ASSUME NEW i \in DOMAIN r
      PROVE  \/ i \in 1..a /\ r[i] = u.got[i]
             \/ i = a + 1 /\ u.held # 0 /\ r[i] = u.held
             \/ i > b /\ i - b \in DOMAIN u.chan /\ r[i] = u.chan[i - b]
  <2>1. \/ i \in 1..a
        \/ i = a + 1 /\ u.held # 0
        \/ i > b /\ i - b \in 1..c /\ b + (i - b) = i
    <3>1. i \in 1..(b + c)
      BY <1>6, <1>12
    <3>2. CASE u.held = 0
      <4>1. b = a
        BY <1>5, <3>2
      <4>. QED
        BY <1>5, <3>1, <4>1
    <3>3. CASE u.held # 0
      <4>1. b = a + 1
        BY <1>5, <3>3
      <4>. QED
        BY <1>5, <3>1, <3>3, <4>1
    <3>. QED
      BY <3>2, <3>3
  <2>. QED
    BY <1>13, <1>14, <1>15, <1>16, <2>1
<1>7. Increasing(r)
  <2>1. SUFFICES ASSUME NEW i \in DOMAIN r, NEW j \in DOMAIN r, i < j PROVE r[i] < r[j]
    BY DEF Increasing
  <2>2. i \in Nat /\ j \in Nat
    BY <1>5, <1>12
  <2>3. CASE i \in 1..a /\ r[i] = u.got[i]
    <3>1. i \in DOMAIN u.got
      BY <1>13, <2>3
    <3>2. CASE j \in 1..a /\ r[j] = u.got[j]
      BY <1>13, <2>1, <2>3, <3>1, <3>2 DEF OrderOK, Increasing
    <3>3. CASE j = a + 1 /\ u.held # 0 /\ r[j] = u.held
      BY <2>3, <3>1, <3>3 DEF OrderOK
    <3>4. CASE j > b /\ j - b \in DOMAIN u.chan /\ r[j] = u.chan[j - b]
      BY <2>3, <3>1, <3>4 DEF OrderOK
    <3>. QED
      BY <1>6, <3>2, <3>3, <3>4
  <2>4. CASE i = a + 1 /\ u.held # 0 /\ r[i] = u.held
    <3>1. j > b /\ j - b \in DOMAIN u.chan /\ r[j] = u.chan[j - b]
      BY <1>5, <1>6, <2>1, <2>2, <2>4
    <3>. QED
      BY <1>1, <2>4, <3>1 DEF OrderOK
  <2>5. CASE i > b /\ i - b \in DOMAIN u.chan /\ r[i] = u.chan[i - b]
    <3>1. j > b /\ j - b \in DOMAIN u.chan /\ r[j] = u.chan[j - b]
      BY <1>5, <1>6, <2>1, <2>2, <2>5
    <3>2. i - b < j - b
      BY <1>5, <2>1, <2>2
    <3>. QED
      BY <2>5, <3>1, <3>2 DEF OrderOK, Increasing
  <2>. QED
    BY <1>6, <2>3, <2>4, <2>5
<1>8. \A i \in DOMAIN r : r[i] > u.since
  BY <1>6, <1>13 DEF OrderOK
<1>9. Elements(u.got) \cup ({u.held} \ {0}) \cup Elements(u.chan) \subseteq Elements(r)
  BY <1>13, <1>14, <1>15, <1>16 DEF Elements
<1>. QED
  BY <1>7, <1>8, <1>9 DEF Queue, r, q, mid

LEMMA Promises ==
  ASSUME Capacity \in Nat, NEW F, PubSubInv(F)
  PROVE  MapHoldsOpenChannels /\ InOrder /\ GapsAreOverflow
<1>1. Len(posted) \in Nat /\ \A s \in Sub : SubOK(subs[s], posted, F)
  BY LenProperties DEF PubSubInv
<1>2. MapHoldsOpenChannels
  BY <1>1 DEF MapHoldsOpenChannels, SubOK, PlaceOK
<1>3. InOrder
  BY <1>1, QueueElements DEF InOrder, SubOK
<1>4. GapsAreOverflow
  <2>1. SUFFICES ASSUME NEW s \in Sub, subs[s].st \in {"recv", "send"},
                        NEW i \in (subs[s].since + 1)..Len(posted), posted[i].key \in subs[s].filter
                 PROVE  i \in Elements(Queue(subs[s])) \cup subs[s].dropped
    BY DEF GapsAreOverflow, Matches
  <2>2. i \in Inside(subs[s]) /\ subs[s].since \in Nat
    BY <1>1, <2>1, Fields DEF SubOK, NoneMissing
  <2>3. i # 0
    BY <1>1, <2>2
  <2>4. Elements(subs[s].got) \cup ({subs[s].held} \ {0}) \cup Elements(subs[s].chan) \subseteq Elements(Queue(subs[s]))
    BY <1>1, QueueElements DEF SubOK
  <2>. QED
    BY <2>2, <2>3, <2>4 DEF Inside
<1>. QED
  BY <1>2, <1>3, <1>4

-------------------------------------------------------------------------------
\* Messages stay, and are numbered in the order they were broadcast.
LEMMA PostedGrows ==
  ASSUME NEW F, PubSubInv(F), NEW T \in SUBSET Sub, Step(F, T)
  PROVE  Len(posted) \in Nat /\ Len(posted') \in Nat /\ Len(posted) <= Len(posted')
<1>1. PICK S : posted \in Seq(S)
  BY DEF PubSubInv
<1>2. posted' = posted \/ \E m : posted' = Append(posted, m)
  BY DEF Step, Subscribe, Handler, Take, Send, SendFails, Unregister, Close, Leave, Become, Broadcast, Stop
<1>3. ASSUME NEW m, posted' = Append(posted, m) PROVE Len(posted') = Len(posted) + 1
  BY <1>1, <1>3
<1>. QED
  BY <1>1, <1>2, <1>3, LenProperties

\* A client that has subscribed and not left, whose handler may have ended with
\* the process.
Served(s) == subs[s].st \in {"recv", "send", "returned"} /\ ~subs[s].gone

\* Unless it leaves, its subscription stays the same one, and what it has got
\* only grows.
LEMMA ServedStays ==
  ASSUME NEW F, PubSubInv(F), NEW T \in SUBSET Sub, Step(F, T), NEW s \in Sub \ T, Served(s)
  PROVE  /\ Served(s)' /\ subs'[s].since = subs[s].since
         /\ Len(subs[s].got) \in Nat /\ Len(subs'[s].got) \in Nat /\ Len(subs[s].got) <= Len(subs'[s].got)
         /\ \A i \in DOMAIN subs[s].got : i \in DOMAIN subs'[s].got /\ subs'[s].got[i] = subs[s].got[i]
<1>. DEFINE u == subs[s]
            n == Len(posted)
<1>1. n \in Nat /\ subs \in [Sub -> Subscription(F, n)] /\ u \in Subscription(F, n)
  BY LenProperties DEF PubSubInv
<1>2. u.got \in Seq(1..n) /\ u.held \in 0..n /\ Len(u.got) \in Nat /\ DOMAIN u.got = 1..Len(u.got)
  BY <1>1, Fields
<1>3. PlaceOK(u)
  BY DEF PubSubInv, SubOK
\* It is enough to see that what it got stays or has one more message.
<1>4. ASSUME NEW v, subs'[s] = v, v.st \in {"recv", "send", "returned"}, v.gone = u.gone, v.since = u.since,
             v.got = u.got \/ v.got = Append(u.got, u.held)
      PROVE  /\ Served(s)' /\ subs'[s].since = u.since
             /\ Len(u.got) \in Nat /\ Len(subs'[s].got) \in Nat /\ Len(u.got) <= Len(subs'[s].got)
             /\ \A i \in DOMAIN u.got : i \in DOMAIN subs'[s].got /\ subs'[s].got[i] = u.got[i]
  <2>1. Served(s)'
    BY <1>4 DEF Served
  <2>2. CASE v.got = u.got
    BY <1>2, <1>4, <2>1, <2>2
  <2>3. CASE v.got = Append(u.got, u.held)
    <3>1. u.got \in Seq(0..n)
      <4>1. 1..n \subseteq 0..n
        BY <1>1
      <4>. QED
        BY <1>2, <4>1, SeqGrows
    <3>2. /\ Len(v.got) = Len(u.got) + 1 /\ DOMAIN v.got = 1..(Len(u.got) + 1)
          /\ \A i \in 1..Len(u.got) : v.got[i] = u.got[i]
      BY <1>2, <2>3, <3>1, AppendProperties, LenProperties
    <3>3. \A i \in 1..Len(u.got) : i \in 1..(Len(u.got) + 1)
      BY <1>2
    <3>. QED
      BY <1>2, <1>4, <2>1, <3>2, <3>3
  <2>. QED
    BY <1>4, <2>2, <2>3
<1>5. ASSUME NEW q \in Sub, NEW keys \in F, Subscribe(q, keys) PROVE subs'[s] = u
  BY <1>1, <1>5 DEF Subscribe, Become, Served
<1>6. ASSUME NEW q \in Sub, q # s, Handler(q) \/ Leave(q) PROVE subs'[s] = u
  BY <1>1, <1>6 DEF Handler, Take, Send, SendFails, Unregister, Close, Leave, Become
<1>7. ASSUME Handler(s)
      PROVE  \E v : /\ subs'[s] = v /\ v.st \in {"recv", "send", "returned"} /\ v.gone = u.gone /\ v.since = u.since
                    /\ v.got = u.got \/ v.got = Append(u.got, u.held)
  <2>1. Take(s) \/ Send(s)
    BY <1>7 DEF Handler, SendFails, Unregister, Close, Served
  <2>2. CASE Take(s)
    <3>1. PICK i : subs'[s] = [u EXCEPT !.chan = Tail(@), !.st = "send", !.held = i] \/ subs'[s] = [u EXCEPT !.chan = Tail(@)]
      BY <1>1, <2>2 DEF Take, Become
    <3>. QED
      BY <1>1, <2>2, <3>1 DEF Subscription, Take
  <2>3. CASE Send(s)
    <3>1. subs'[s] = [u EXCEPT !.st = "recv", !.held = 0, !.got = Append(@, u.held)]
      BY <1>1, <2>3 DEF Send, Become
    <3>. QED
      BY <1>1, <3>1 DEF Subscription
  <2>. QED
    BY <2>1, <2>2, <2>3
<1>8. ASSUME NEW m, Broadcast(m)
      PROVE  \E v : subs'[s] = v /\ v.st = u.st /\ v.gone = u.gone /\ v.since = u.since /\ v.got = u.got
  <2>1. PICK i : \/ subs'[s] = u
                 \/ subs'[s] = [u EXCEPT !.chan = Append(@, i)]
                 \/ subs'[s] = [u EXCEPT !.dropped = @ \cup {i}]
    BY <1>8 DEF Broadcast
  <2>. QED
    BY <1>1, <2>1 DEF Subscription
<1>9. ASSUME Stop
      PROVE  \E v : subs'[s] = v /\ v.st = "returned" /\ v.gone = u.gone /\ v.since = u.since /\ v.got = u.got
  <2>1. subs'[s] = [u EXCEPT !.st = "returned", !.registered = FALSE, !.chan = <<>>, !.held = 0]
    BY <1>9 DEF Stop, Stopped, Served
  <2>. QED
    BY <1>1, <2>1 DEF Subscription
<1>. QED
  <2>1. u.st \in {"recv", "send", "returned"}
    BY DEF Served
  <2>2. subs'[s] = u => u.gone = u.gone /\ u.since = u.since /\ u.got = u.got
    OBVIOUS
  <2>3. CASE subs'[s] = u
    BY <1>4, <2>1, <2>3
  <2>4. CASE Handler(s)
    BY <1>4, <1>7, <2>4
  <2>5. CASE \E m : Broadcast(m)
    BY <1>4, <1>8, <2>1, <2>5
  <2>6. CASE Stop
    BY <1>4, <1>9, <2>6
  <2>. QED
    BY <1>5, <1>6, <2>3, <2>4, <2>5, <2>6 DEF Step

===============================================================================
