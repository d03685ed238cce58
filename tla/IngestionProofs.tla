---------------------------- MODULE IngestionProofs ----------------------------
(***************************************************************************)
(* Where streams are sent, for every cluster and any number of streams,    *)
(* readings and handlers.                                                  *)
(***************************************************************************)
EXTENDS IngestionProperties, SequenceTheorems, TLAPS

\* What holds of a handler at any time: it was told of a node that was once
\* elected, knows one when it stores or dials it, and has a reading in hand
\* when it submits.
SoundHop ==
  {h \in Hops : /\ h.to \in led \cup {None}
                /\ h.st \in {"heard", "dial"} => h.to \in Node
                /\ h.st \in {"submit", "replicate"} => h.last \in 1..Length}

ViewType ==
  /\ role \in [Node -> {"follower", "candidate", "leader"}]
  /\ leaderId \in [Node -> Node \cup {None}]
  /\ wedged \in [Node -> BOOLEAN]
  /\ led \subseteq Node

\* The name a node has for the leader is that of a node that was once elected,
\* whoever wrote it, and a leader was elected itself.
NamesElected == \A n \in Node : leaderId[n] \in led \cup {None} /\ (role[n] = "leader" => n \in led)

HopsSound == hops \in [Stream -> Seq(SoundHop)]
CountsType == accepted \in [Stream -> Seq(1..Length)] /\ changes \in Nat

Sound == ViewType /\ NamesElected /\ HopsSound /\ CountsType
IInv == Sound /\ settled \subseteq Stream

-------------------------------------------------------------------------------
\* The invariant gives both properties of the runs.
LEMMA Consequences == ASSUME IInv PROVE TypeOK /\ ForwardsToPastLeaders
<1>1. \A s \in Stream : hops[s] \in Seq(Hops) /\ \A k \in DOMAIN hops[s] : hops[s][k] \in SoundHop
  <2>1. SUFFICES ASSUME NEW s \in Stream
                 PROVE  hops[s] \in Seq(Hops) /\ \A k \in DOMAIN hops[s] : hops[s][k] \in SoundHop
    OBVIOUS
  <2>2. hops[s] \in Seq(SoundHop)
    BY DEF IInv, Sound, HopsSound
  <2>3. Len(hops[s]) \in Nat /\ hops[s] \in [1..Len(hops[s]) -> SoundHop]
    BY <2>2, LenProperties
  <2>4. SoundHop \subseteq Hops
    BY DEF SoundHop
  <2>. QED
    BY <2>3, <2>4
<1>2. hops \in [Stream -> Seq(Hops)]
  BY <1>1 DEF IInv, Sound, HopsSound
<1>3. ForwardsToPastLeaders
  BY <1>1 DEF ForwardsToPastLeaders, SoundHop
<1>. QED
  BY <1>2, <1>3 DEF IInv, Sound, ViewType, CountsType, TypeOK

\* More nodes elected leave what a handler knows as sound as it was.
LEMMA SoundStays == ASSUME led \subseteq led' PROVE SoundHop \subseteq SoundHop'
BY DEF SoundHop, Hops

LEMMA SeqGrows == ASSUME NEW S, NEW T, S \subseteq T PROVE Seq(S) \subseteq Seq(T)
<1>1. SUFFICES ASSUME NEW q \in Seq(S) PROVE q \in Seq(T)
  OBVIOUS
<1>2. Len(q) \in Nat /\ q \in [1..Len(q) -> S]
  BY LenProperties
<1>. QED
  BY <1>2

\* One handler of a stream goes on and leaves the others as they were.
LEMMA BecomeKeeps ==
  ASSUME HopsSound, led \subseteq led', NEW s \in Stream, NEW k, NEW hop, k \in DOMAIN hops[s],
         hop \in SoundHop', Become(s, k, hop)
  PROVE  HopsSound'
<1>1. hops[s] \in Seq(SoundHop') /\ \A q \in Stream : hops[q] \in Seq(SoundHop')
  BY SoundStays, SeqGrows DEF HopsSound
<1>2. k \in 1..Len(hops[s])
  BY <1>1, LenProperties
<1>3. [hops[s] EXCEPT ![k] = hop] \in Seq(SoundHop')
  BY <1>1, <1>2, ExceptSeq
<1>. QED
  BY <1>1, <1>3 DEF HopsSound, Become

LEMMA HopAt ==
  ASSUME HopsSound, NEW s \in Stream, NEW k, k \in DOMAIN hops[s]
  PROVE  hops[s][k] \in SoundHop
<1>1. hops[s] \in Seq(SoundHop)
  BY DEF HopsSound
<1>. QED
  BY <1>1, LenProperties

-------------------------------------------------------------------------------
\* The initial states.
LEMMA StartsSound == Init => IInv
<1>. SUFFICES ASSUME Init PROVE IInv
  OBVIOUS
<1>1. ViewType /\ NamesElected
  BY DEF Init, InitView, ViewType, NamesElected
<1>2. HopsSound /\ CountsType /\ settled \subseteq Stream
  BY EmptySeq DEF Init, HopsSound, CountsType
<1>. QED
  BY <1>1, <1>2 DEF IInv, Sound

\* A step of one handler that leaves the Raft nodes and the clients alone.
LEMMA QuietStep ==
  ASSUME Sound, UNCHANGED <<view, accepted, changes>>, NEW s \in Stream, NEW k, NEW hop,
         k \in DOMAIN hops[s], hop \in SoundHop, Become(s, k, hop)
  PROVE  Sound'
<1>1. UNCHANGED <<role, leaderId, wedged, led>> /\ led \subseteq led'
  BY DEF view
<1>2. hop \in SoundHop'
  BY <1>1, SoundStays
<1>3. HopsSound'
  BY <1>1, <1>2, BecomeKeeps DEF Sound
<1>. QED
  BY <1>1, <1>3 DEF Sound, ViewType, NamesElected, CountsType

\* GetLeaderAddress and GetLeader name nodes that were elected.
LEMMA AddressElected ==
  ASSUME Sound, NEW n \in Node
  PROVE  LeaderAddress(n) \in led \cup {None} /\ GetLeader(n) \in led \cup {None}
BY DEF Sound, NamesElected, LeaderAddress, GetLeader

LEMMA LookupSound ==
  ASSUME Sound, NEW s \in Stream, NEW k \in 1..MaxHops, Lookup(s, k)
  PROVE  Sound'
<1>. DEFINE h == hops[s][k]
<1>1. k \in DOMAIN hops[s]
  BY DEF Lookup, CheckRole, LookUp, AskPeer, AskFails, NobodyKnows, Adopt, At
<1>2. h \in SoundHop /\ led \subseteq Node
  BY <1>1, HopAt DEF Sound, ViewType
<1>3. CASE CheckRole(s, k)
  <2>. DEFINE hop == [h EXCEPT !.st = IF role[h.node] = "leader" THEN "serve" ELSE "lookup"]
  <2>1. hop \in SoundHop
    BY <1>2 DEF SoundHop, Hops
  <2>. QED
    BY <1>1, <1>3, <2>1, QuietStep DEF CheckRole
<1>4. CASE LookUp(s, k)
  <2>1. LeaderAddress(h.node) \in led \cup {None} /\ Peers[h.node] \in Seq(Node)
    BY <1>2, AddressElected, PeersAssumption DEF SoundHop, Hops
  <2>. DEFINE addr == LeaderAddress(h.node)
              hop == IF addr = None THEN [h EXCEPT !.st = "ask", !.left = Peers[h.node]]
                                    ELSE [h EXCEPT !.st = "dial", !.to = addr]
  <2>2. hop \in SoundHop
    <3>. HIDE DEF addr
    <3>. QED
      BY <1>2, <2>1 DEF SoundHop, Hops, addr
  <2>. QED
    BY <1>1, <1>4, <2>2, QuietStep DEF LookUp
<1>5. CASE AskPeer(s, k)
  <2>1. h.left \in Seq(Node) /\ h.left # <<>>
    BY <1>2, <1>5 DEF AskPeer, MayAsk, SoundHop, Hops
  <2>2. Head(h.left) \in Node /\ Tail(h.left) \in Seq(Node)
    BY <2>1, HeadTailProperties
  <2>3. GetLeader(Head(h.left)) \in led \cup {None}
    BY <2>2, AddressElected
  <2>. DEFINE p == Head(h.left)
              hop == IF GetLeader(p) = None THEN [h EXCEPT !.left = Tail(@)]
                     ELSE [h EXCEPT !.st = "heard", !.to = GetLeader(p), !.left = <<>>]
  <2>4. hop \in SoundHop
    BY <1>2, <1>5, <2>2, <2>3, EmptySeq DEF SoundHop, Hops, AskPeer, At
  <2>. QED
    BY <1>1, <1>5, <2>4, QuietStep DEF AskPeer
<1>6. CASE AskFails(s, k)
  <2>1. h.left \in Seq(Node) /\ h.left # <<>>
    BY <1>2, <1>6 DEF AskFails, MayAsk, SoundHop, Hops
  <2>2. Tail(h.left) \in Seq(Node)
    BY <2>1, HeadTailProperties
  <2>. DEFINE hop == [h EXCEPT !.left = NextPeer(@)]
  <2>3. hop \in SoundHop
    BY <1>2, <1>6, <2>2 DEF SoundHop, Hops, NextPeer, AskFails, At
  <2>. QED
    BY <1>1, <1>6, <2>3, QuietStep DEF AskFails
<1>7. CASE NobodyKnows(s, k)
  <2>1. [h EXCEPT !.st = "error"] \in SoundHop
    BY <1>2 DEF SoundHop, Hops
  <2>. QED
    BY <1>1, <1>7, <2>1, QuietStep DEF NobodyKnows, Fail
<1>8. CASE Adopt(s, k)
  <2>1. h.to \in Node /\ h.to \in led /\ h.node \in Node
    BY <1>2, <1>8, PeersAssumption DEF SoundHop, Hops, Adopt, At
  <2>2. [h EXCEPT !.st = "dial"] \in SoundHop'
    BY <1>2, <1>8, <2>1 DEF SoundHop, Hops, Adopt
  <2>3. HopsSound'
    BY <1>1, <1>8, <2>2, BecomeKeeps DEF Sound, Adopt
  <2>4. ViewType' /\ NamesElected'
    BY <1>8, <2>1 DEF Sound, ViewType, NamesElected, Adopt
  <2>. QED
    BY <1>8, <2>3, <2>4 DEF Sound, CountsType, Adopt
<1>. QED
  BY <1>3, <1>4, <1>5, <1>6, <1>7, <1>8 DEF Lookup

\* A new handler is sound, and so is a stream it was added to.
LEMMA NewHopSound == ASSUME Sound, NEW n \in Node PROVE NewHop(n) \in SoundHop
BY LengthAssumption, EmptySeq DEF NewHop, SoundHop, Hops

LEMMA RelaySound ==
  ASSUME Sound, NEW s \in Stream, NEW k \in 1..MaxHops, Relay(s, k)
  PROVE  Sound'
<1>. DEFINE h == hops[s][k]
<1>1. k \in DOMAIN hops[s]
  BY DEF Relay, OpenForward, OpenFails, Forward, CloseForward, ReturnAck, StreamBreaks, At
<1>2. h \in SoundHop
  BY <1>1, HopAt DEF Sound
<1>3. hops[s] \in Seq(SoundHop) /\ k \in 1..Len(hops[s])
  BY <1>1, LenProperties DEF Sound, HopsSound
<1>4. CASE OpenForward(s, k)
  <2>1. h.to \in Node
    BY <1>2, <1>4 DEF SoundHop, OpenForward, At
  <2>2. [h EXCEPT !.st = "forward"] \in SoundHop
    BY <1>2 DEF SoundHop, Hops
  <2>3. [hops[s] EXCEPT ![k] = [h EXCEPT !.st = "forward"]] \in Seq(SoundHop)
    BY <1>3, <2>2, ExceptSeq
  <2>4. NewHop(h.to) \in SoundHop
    BY <2>1, NewHopSound
  <2>5. Append([hops[s] EXCEPT ![k] = [h EXCEPT !.st = "forward"]], NewHop(h.to)) \in Seq(SoundHop)
    BY <2>3, <2>4, AppendProperties
  <2>6. hops' = [hops EXCEPT ![s] =
                   Append([hops[s] EXCEPT ![k] = [h EXCEPT !.st = "forward"]], NewHop(h.to))]
    BY <1>4 DEF OpenForward
  <2>7. UNCHANGED <<role, leaderId, wedged, led, accepted, changes>>
    BY <1>4 DEF OpenForward, view
  <2>8. SoundHop' = SoundHop
    BY <2>7 DEF SoundHop
  <2>9. HopsSound'
    BY <2>5, <2>6, <2>8 DEF Sound, HopsSound
  <2>. QED
    BY <2>7, <2>9 DEF Sound, ViewType, NamesElected, CountsType
<1>5. ASSUME OpenFails(s, k) \/ StreamBreaks(s, k) PROVE Sound'
  <2>1. [h EXCEPT !.st = "error"] \in SoundHop
    BY <1>2 DEF SoundHop, Hops
  <2>. QED
    BY <1>1, <1>5, <2>1, QuietStep DEF OpenFails, StreamBreaks, Fail
<1>6. CASE Forward(s, k)
  <2>1. Sent(s, k) \in 0..Length
    <3>1. CASE k = 1
      BY <3>1, LengthAssumption DEF Sent
    <3>2. CASE k # 1
      <4>1. k - 1 \in DOMAIN hops[s]
        BY <1>3, <3>2, LenProperties
      <4>2. hops[s][k - 1] \in SoundHop
        BY <4>1, HopAt DEF Sound
      <4>. QED
        BY <3>2, <4>2 DEF Sent, SoundHop, Hops
    <3>. QED
      BY <3>1, <3>2
  <2>2. h.got \in 0..Length /\ h.got < Sent(s, k)
    BY <1>2, <1>6 DEF SoundHop, Hops, Forward, More
  <2>3. h.got + 1 \in 0..Length
    BY <2>1, <2>2, LengthAssumption
  <2>4. [h EXCEPT !.got = @ + 1] \in SoundHop
    BY <1>2, <1>6, <2>3 DEF SoundHop, Hops, Forward, At
  <2>. QED
    BY <1>1, <1>6, <2>4, QuietStep DEF Forward
<1>7. CASE CloseForward(s, k)
  <2>1. [h EXCEPT !.st = "close"] \in SoundHop
    BY <1>2 DEF SoundHop, Hops
  <2>. QED
    BY <1>1, <1>7, <2>1, QuietStep DEF CloseForward
<1>8. CASE ReturnAck(s, k)
  <2>1. hops[s][k + 1] \in SoundHop
    BY <1>8, HopAt DEF Sound, ReturnAck, At
  <2>2. [h EXCEPT !.st = "acked", !.last = hops[s][k + 1].last] \in SoundHop
    BY <1>2, <2>1 DEF SoundHop, Hops
  <2>. QED
    BY <1>1, <1>8, <2>2, QuietStep DEF ReturnAck
<1>. QED
  BY <1>4, <1>5, <1>6, <1>7, <1>8 DEF Relay

LEMMA ServeSound ==
  ASSUME Sound, NEW s \in Stream, NEW k \in 1..MaxHops, Serve(s, k)
  PROVE  Sound'
<1>. DEFINE h == hops[s][k]
<1>1. k \in DOMAIN hops[s]
  BY DEF Serve, Receive, AckStream, Submit, SubmitSucceeds, SubmitFails, At
<1>2. h \in SoundHop
  BY <1>1, HopAt DEF Sound
<1>3. CASE Receive(s, k)
  <2>1. Sent(s, k) \in 0..Length
    <3>1. CASE k = 1
      BY <3>1, LengthAssumption DEF Sent
    <3>2. CASE k # 1
      <4>1. hops[s] \in Seq(SoundHop)
        BY DEF Sound, HopsSound
      <4>2. k - 1 \in DOMAIN hops[s]
        BY <1>1, <3>2, <4>1, LenProperties
      <4>3. hops[s][k - 1] \in SoundHop
        BY <4>2, HopAt DEF Sound
      <4>. QED
        BY <3>2, <4>3 DEF Sent, SoundHop, Hops
    <3>. QED
      BY <3>1, <3>2
  <2>2. h.got \in 0..Length /\ h.got < Sent(s, k)
    BY <1>2, <1>3 DEF SoundHop, Hops, Receive, More
  <2>3. h.got + 1 \in 1..Length
    BY <2>1, <2>2, LengthAssumption
  <2>. DEFINE g == h.got + 1
  <2>4. [h EXCEPT !.st = "submit", !.got = @ + 1, !.last = h.got + 1] \in SoundHop
    <3>1. g \in 0..Length /\ g \in 1..Length
      BY <2>3, LengthAssumption
    <3>. HIDE DEF g
    <3>2. [h EXCEPT !.st = "submit", !.got = g, !.last = g] \in SoundHop
      BY <1>2, <3>1 DEF SoundHop, Hops
    <3>. QED
      BY <3>2 DEF g
  <2>. QED
    BY <1>1, <1>3, <2>4, QuietStep DEF Receive
<1>4. CASE AckStream(s, k)
  <2>1. [h EXCEPT !.st = "acked"] \in SoundHop
    BY <1>2 DEF SoundHop, Hops
  <2>. QED
    BY <1>1, <1>4, <2>1, QuietStep DEF AckStream
<1>5. CASE Submit(s, k)
  <2>. DEFINE hop == [h EXCEPT !.st = IF role[h.node] = "leader" THEN "replicate" ELSE AfterError]
  <2>1. hop \in SoundHop
    BY <1>2, <1>5 DEF SoundHop, Hops, AfterError, Submit, At
  <2>. QED
    BY <1>1, <1>5, <2>1, QuietStep DEF Submit
<1>6. CASE SubmitSucceeds(s, k)
  <2>1. [h EXCEPT !.st = "serve"] \in SoundHop /\ h.last \in 1..Length
    BY <1>2, <1>6 DEF SoundHop, Hops, SubmitSucceeds, At
  <2>2. Append(accepted[s], h.last) \in Seq(1..Length)
    BY <2>1, AppendProperties DEF Sound, CountsType
  <2>3. UNCHANGED <<role, leaderId, wedged, led, changes>>
    BY <1>6 DEF SubmitSucceeds, view
  <2>4. SoundHop' = SoundHop
    BY <2>3 DEF SoundHop
  <2>5. HopsSound'
    BY <1>1, <1>6, <2>1, <2>3, <2>4, BecomeKeeps DEF Sound, SubmitSucceeds
  <2>6. accepted' \in [Stream -> Seq(1..Length)]
    BY <1>6, <2>2 DEF Sound, CountsType, SubmitSucceeds
  <2>. QED
    BY <2>3, <2>5, <2>6 DEF Sound, ViewType, NamesElected, CountsType
<1>7. CASE SubmitFails(s, k)
  <2>1. [h EXCEPT !.st = AfterError] \in SoundHop
    BY <1>2 DEF SoundHop, Hops, AfterError
  <2>. QED
    BY <1>1, <1>7, <2>1, QuietStep DEF SubmitFails
<1>. QED
  BY <1>3, <1>4, <1>5, <1>6, <1>7 DEF Serve

\* What a Raft node does by itself names nobody who was not elected.
LEMMA ViewSound ==
  ASSUME ViewType, NamesElected, ViewNext
  PROVE  ViewType' /\ NamesElected' /\ led \subseteq led'
<1>1. ASSUME NEW n \in Node, ViewStep(n) PROVE ViewType' /\ NamesElected' /\ led \subseteq led'
  <2>1. CASE Campaign(n)
    BY <2>1, PeersAssumption DEF Campaign, ViewType, NamesElected
  <2>2. CASE LearnHigherTerm(n)
    BY <2>2 DEF LearnHigherTerm, ViewType, NamesElected
  <2>3. CASE Win(n)
    BY <2>3 DEF Win, ViewType, NamesElected
  <2>4. ASSUME NEW p \in Node \ {n}, Vote(n, p) PROVE ViewType' /\ NamesElected' /\ led \subseteq led'
    BY <2>4 DEF Vote, ViewType, NamesElected
  <2>5. ASSUME NEW p \in Node \ {n}, Hear(n, p) PROVE ViewType' /\ NamesElected' /\ led \subseteq led'
    BY <2>5 DEF Hear, ViewType, NamesElected
  <2>. QED
    BY <1>1, <2>1, <2>2, <2>3, <2>4, <2>5 DEF ViewStep
<1>2. ASSUME NEW n \in Node, Restart(n) PROVE ViewType' /\ NamesElected' /\ led \subseteq led'
  BY <1>2 DEF Restart, ViewType, NamesElected
<1>. QED
  BY <1>1, <1>2 DEF ViewNext

LEMMA ClusterSound ==
  ASSUME Sound, RaftStep \/ \E n \in Node : Crash(n)
  PROVE  Sound'
<1>1. ViewNext
  BY DEF RaftStep, Crash, ViewNext
<1>2. ViewType' /\ NamesElected' /\ led \subseteq led'
  BY <1>1, ViewSound DEF Sound
<1>3. SoundHop \subseteq SoundHop' /\ Seq(SoundHop) \subseteq Seq(SoundHop')
  BY <1>2, SoundStays, SeqGrows
<1>4. CountsType'
  BY DEF Sound, CountsType, RaftStep, Crash
<1>5. CASE RaftStep
  <2>1. HopsSound'
    BY <1>3, <1>5 DEF Sound, HopsSound, RaftStep
  <2>. QED
    BY <1>2, <1>4, <2>1 DEF Sound
<1>6. ASSUME NEW n \in Node, Crash(n) PROVE Sound'
  <2>. DEFINE left(s, k) == IF hops[s][k].node = n /\ ~Returned(hops[s][k])
                              THEN [hops[s][k] EXCEPT !.st = "error"] ELSE hops[s][k]
  <2>1. ASSUME NEW s \in Stream PROVE [k \in DOMAIN hops[s] |-> left(s, k)] \in Seq(SoundHop')
    <3>1. Len(hops[s]) \in Nat /\ DOMAIN hops[s] = 1..Len(hops[s])
      BY LenProperties DEF Sound, HopsSound
    <3>2. ASSUME NEW k \in DOMAIN hops[s] PROVE left(s, k) \in SoundHop'
      <4>1. hops[s][k] \in SoundHop
        BY HopAt DEF Sound
      <4>2. [hops[s][k] EXCEPT !.st = "error"] \in SoundHop
        BY <4>1 DEF SoundHop, Hops
      <4>. QED
        BY <1>3, <4>1, <4>2
    <3>. HIDE DEF left
    <3>3. [k \in DOMAIN hops[s] |-> left(s, k)] \in [1..Len(hops[s]) -> SoundHop']
      BY <3>1, <3>2
    <3>. QED
      BY <3>1, <3>3
  <2>2. hops' = [s \in Stream |-> [k \in DOMAIN hops[s] |-> left(s, k)]]
    BY <1>6 DEF Crash
  <2>. HIDE DEF left
  <2>3. HopsSound'
    BY <2>1, <2>2 DEF HopsSound
  <2>. QED
    BY <1>2, <1>4, <2>3 DEF Sound
<1>. QED
  BY <1>5, <1>6

LEMMA OpenSound ==
  ASSUME Sound, NEW n \in Node, NEW s \in Stream, Open(s, n)
  PROVE  Sound'
<1>1. UNCHANGED <<role, leaderId, wedged, led, accepted, changes>>
  BY DEF Open, view
<1>2. SoundHop' = SoundHop
  BY <1>1 DEF SoundHop
<1>3. <<NewHop(n)>> \in Seq(SoundHop)
  BY NewHopSound
<1>4. HopsSound'
  BY <1>2, <1>3 DEF Sound, HopsSound, Open
<1>. QED
  BY <1>1, <1>4 DEF Sound, ViewType, NamesElected, CountsType

LEMMA StepsSound == IInv /\ [Next]_<<vars, settled>> => IInv'
<1>. SUFFICES ASSUME IInv, [Next]_<<vars, settled>> PROVE IInv'
  OBVIOUS
<1>1. CASE Next
  <2>1. Sound'
    <3>1. CASE RaftStep
      BY <3>1, ClusterSound DEF IInv
    <3>2. ASSUME NEW n \in Node, Crash(n) \/ \E s \in Stream : Open(s, n) PROVE Sound'
      BY <3>2, ClusterSound, OpenSound DEF IInv
    <3>3. ASSUME NEW s \in Stream, NEW k \in 1..MaxHops, Lookup(s, k) \/ Relay(s, k) \/ Serve(s, k)
          PROVE  Sound'
      BY <3>3, LookupSound, RelaySound, ServeSound DEF IInv
    <3>. QED
      BY <1>1, <3>1, <3>2, <3>3 DEF Next
  <2>2. (settled \subseteq Stream)'
    BY <1>1 DEF Next
  <2>. QED
    BY <2>1, <2>2 DEF IInv
<1>2. CASE UNCHANGED <<vars, settled>>
  BY <1>2 DEF IInv, Sound, ViewType, NamesElected, HopsSound, SoundHop, CountsType, vars, view
<1>. QED
  BY <1>1, <1>2

THEOREM Invariance == Spec => []IInv
<1>. QED
  BY StartsSound, StepsSound, PTL DEF Spec

-------------------------------------------------------------------------------
\* Handlers, addresses and counts keep their types: in particular no handler
\* receives more than was sent to it, however many handlers pass a stream on.
THEOREM TypeCorrect == Spec => []TypeOK
<1>1. IInv => TypeOK
  BY Consequences
<1>. QED
  BY <1>1, Invariance, PTL

\* A stream is only forwarded to a node that was once elected, whatever stale
\* names DiscoverLeader stores and deposed nodes keep.
THEOREM ForwardsAreToElected == Spec => []ForwardsToPastLeaders
<1>1. IInv => ForwardsToPastLeaders
  BY Consequences
<1>. QED
  BY <1>1, Invariance, PTL
-------------------------------------------------------------------------------
(* A stream is faithful: its handlers form a chain of which only the last  *)
(* one submits, and what is accepted is what that one has received.        *)

Seeking == {"role", "lookup", "ask", "heard", "dial"}
Inner == {"forward", "close", "acked", "error"}

\* What holds of the k-th of n handlers of a stream of which a readings were
\* accepted.  An end of stream is passed on only behind all the readings.
HopOK(h, k, n, a) ==
  /\ k < n => h.st \in Inner
  /\ k = n => /\ h.st \notin {"forward", "close"}
              /\ h.st \in Seeking => h.got = 0 /\ h.last = 0 /\ a = 0
              /\ h.st = "serve" => a = h.got /\ h.last = h.got
              /\ h.st \in {"submit", "replicate"} => h.last = h.got /\ h.last = a + 1
  /\ h.st = "close" => h.got = Length
  /\ h.st = "acked" => h.last = Length /\ a = Length

ChainOK(s) ==
  /\ hops[s] = <<>> => accepted[s] = <<>>
  /\ \A k \in DOMAIN hops[s] : HopOK(hops[s][k], k, Len(hops[s]), Len(accepted[s]))
  /\ \A i \in DOMAIN accepted[s] : accepted[s][i] = i

ChainsInOrder == \A s \in Stream : ChainOK(s)

\* A step does for the clients what ReadingStream says, or nothing.
Faithful == Clients!Next \/ UNCHANGED <<accepted, Answer>>

\* The answers are the same when each of them is.
LEMMA AnswerSame ==
  ASSUME \A s \in Stream : Answer'[s] = Answer[s]
  PROVE  Answer' = Answer
BY DEF Answer

LEMMA ChainLen ==
  ASSUME Sound, NEW s \in Stream
  PROVE  /\ Len(hops[s]) \in Nat /\ DOMAIN hops[s] = 1..Len(hops[s])
         /\ Len(accepted[s]) \in Nat /\ DOMAIN accepted[s] = 1..Len(accepted[s])
         /\ hops[s] = <<>> <=> Len(hops[s]) = 0
<1>1. hops[s] \in Seq(SoundHop) /\ accepted[s] \in Seq(1..Length)
  BY DEF Sound, HopsSound, CountsType
<1>. QED
  BY <1>1, LenProperties, EmptySeq

\* Handler k of stream s goes on, and nothing is accepted.
LEMMA HopStep ==
  ASSUME Sound, ChainsInOrder, NEW s \in Stream, NEW k \in DOMAIN hops[s], NEW hop,
         HopOK(hop, k, Len(hops[s]), Len(accepted[s])), ~Returned(hops[s][k]),
         Become(s, k, hop), UNCHANGED accepted
  PROVE  ChainsInOrder' /\ Faithful
<1>0. hops \in [Stream -> Seq(SoundHop)]
  BY DEF Sound, HopsSound
<1>1. /\ hops'[s] = [hops[s] EXCEPT ![k] = hop] /\ DOMAIN hops'[s] = DOMAIN hops[s]
      /\ \A q \in Stream : q # s => hops'[q] = hops[q]
  BY <1>0 DEF Become
<1>2. Len(hops'[s]) = Len(hops[s]) /\ hops'[s] # <<>> /\ hops[s] # <<>>
  <2>1. hops[s] \in Seq(SoundHop) /\ k \in 1..Len(hops[s])
    BY <1>0, ChainLen
  <2>. QED
    BY <1>1, <2>1
<1>3. ChainsInOrder'
  <2>1. ChainOK(s)'
    BY <1>1, <1>2 DEF ChainsInOrder, ChainOK
  <2>2. ASSUME NEW q \in Stream, q # s PROVE ChainOK(q)'
    BY <1>1, <2>2 DEF ChainsInOrder, ChainOK
  <2>. QED
    BY <2>1, <2>2 DEF ChainsInOrder
<1>4. ASSUME NEW q \in Stream, q # s PROVE Answer'[q] = Answer[q]
  BY <1>1, <1>4 DEF Answer
<1>5. CASE k # 1 \/ ~Returned(hop)
  <2>1. Answer'[s] = Answer[s]
    BY <1>1, <1>2, <1>5, ChainLen DEF Answer
  <2>. QED
    BY <1>3, <1>4, <2>1, AnswerSame DEF Faithful
<1>6. CASE k = 1 /\ hop.st = "error"
  <2>1. Answer[s] = Clients!Asked /\ Answer'[s] = Clients!Error
    BY <1>1, <1>2, <1>6 DEF Answer, Returned, Clients!Asked, Clients!Error
  <2>2. Answer' = [q \in Stream |-> IF q \in {s} THEN Clients!Error ELSE Answer[q]]
    BY <1>4, <2>1 DEF Answer
  <2>3. Clients!Refuse({s})
    BY <2>1, <2>2 DEF Clients!Refuse
  <2>. QED
    BY <1>3, <2>3 DEF Faithful, Clients!Next
<1>7. CASE k = 1 /\ hop.st = "acked"
  <2>1. hop.last = Length /\ Len(accepted[s]) = Length
    BY <1>7 DEF HopOK
  <2>2. Answer[s] = Clients!Asked /\ Answer'[s] = Clients!Ack(Length)
    BY <1>1, <1>2, <1>7, <2>1 DEF Answer, Returned, Clients!Asked, Clients!Ack
  <2>3. Answer' = [Answer EXCEPT ![s] = Clients!Ack(Length)]
    BY <1>4, <2>2 DEF Answer
  <2>4. Clients!Acknowledge(s)
    BY <2>1, <2>2, <2>3 DEF Clients!Acknowledge
  <2>. QED
    BY <1>3, <2>4 DEF Faithful, Clients!Next
<1>. QED
  BY <1>5, <1>6, <1>7 DEF Returned
LEMMA ChainAt ==
  ASSUME Sound, ChainsInOrder, NEW s \in Stream, NEW k \in DOMAIN hops[s]
  PROVE  /\ hops[s][k] \in Hops /\ HopOK(hops[s][k], k, Len(hops[s]), Len(accepted[s]))
         /\ Len(hops[s]) \in Nat /\ k \in 1..Len(hops[s])
<1>1. hops[s][k] \in Hops
  BY HopAt DEF Sound, SoundHop
<1>2. Len(hops[s]) \in Nat /\ k \in 1..Len(hops[s])
  BY ChainLen
<1>. QED
  BY <1>1, <1>2 DEF ChainsInOrder, ChainOK

LEMMA LookupFaithful ==
  ASSUME Sound, ChainsInOrder, NEW s \in Stream, NEW k \in 1..MaxHops, Lookup(s, k)
  PROVE  ChainsInOrder' /\ Faithful
<1>. DEFINE h == hops[s][k]
            n == Len(hops[s])
            a == Len(accepted[s])
<1>1. k \in DOMAIN hops[s] /\ h.st \in Seeking /\ ~Returned(h) /\ accepted' = accepted
  BY DEF Lookup, CheckRole, LookUp, AskPeer, AskFails, NobodyKnows, Adopt, At, Seeking, Returned
<1>2. h \in Hops /\ HopOK(h, k, n, a) /\ n \in Nat /\ k \in 1..n
  BY <1>1, ChainAt
<1>3. k = n /\ h.got = 0 /\ h.last = 0 /\ a = 0
  BY <1>1, <1>2 DEF HopOK, Seeking, Inner
<1>4. ASSUME NEW st \in Seeking \cup {"serve", "error"}, NEW hop, hop.st = st, hop.got = h.got, hop.last = h.last
      PROVE  HopOK(hop, k, n, a)
  BY <1>2, <1>3, <1>4 DEF HopOK, Seeking
<1>5. PICK hop : Become(s, k, hop) /\ HopOK(hop, k, n, a)
  <2>1. CASE CheckRole(s, k)
    <3>. DEFINE hop == [h EXCEPT !.st = IF role[h.node] = "leader" THEN "serve" ELSE "lookup"]
    <3>1. hop.st \in {"serve", "lookup"} /\ hop.got = h.got /\ hop.last = h.last
      BY <1>2 DEF Hops
    <3>. QED
      BY <1>4, <2>1, <3>1 DEF CheckRole, Seeking
  <2>2. CASE LookUp(s, k)
    <3>. DEFINE addr == LeaderAddress(h.node)
                hop == IF addr = None THEN [h EXCEPT !.st = "ask", !.left = Peers[h.node]]
                                      ELSE [h EXCEPT !.st = "dial", !.to = addr]
    <3>1. hop.st \in {"ask", "dial"} /\ hop.got = h.got /\ hop.last = h.last
      BY <1>2 DEF Hops
    <3>. QED
      BY <1>4, <2>2, <3>1 DEF LookUp, Seeking
  <2>3. CASE AskPeer(s, k)
    <3>. DEFINE p == Head(h.left)
                hop == IF GetLeader(p) = None THEN [h EXCEPT !.left = Tail(@)]
                       ELSE [h EXCEPT !.st = "heard", !.to = GetLeader(p), !.left = <<>>]
    <3>1. hop.st \in {h.st, "heard"} /\ hop.got = h.got /\ hop.last = h.last
      BY <1>2 DEF Hops
    <3>. QED
      BY <1>1, <1>4, <2>3, <3>1 DEF AskPeer, Seeking
  <2>4. CASE AskFails(s, k)
    <3>. DEFINE hop == [h EXCEPT !.left = NextPeer(@)]
    <3>1. hop.st = h.st /\ hop.got = h.got /\ hop.last = h.last
      BY <1>2 DEF Hops
    <3>. QED
      BY <1>1, <1>4, <2>4, <3>1 DEF AskFails, Seeking
  <2>5. CASE NobodyKnows(s, k) \/ Adopt(s, k)
    <3>1. PICK z \in {"error", "dial"} : Become(s, k, [h EXCEPT !.st = z])
      BY <2>5 DEF NobodyKnows, Adopt, Fail
    <3>2. [h EXCEPT !.st = z].st = z /\ [h EXCEPT !.st = z].got = h.got /\ [h EXCEPT !.st = z].last = h.last
      BY <1>2 DEF Hops
    <3>. QED
      BY <1>4, <3>1, <3>2 DEF Seeking
  <2>. QED
    BY <2>1, <2>2, <2>3, <2>4, <2>5 DEF Lookup
<1>. QED
  BY <1>1, <1>5, HopStep

LEMMA RelayFaithful ==
  ASSUME Sound, ChainsInOrder, NEW s \in Stream, NEW k \in 1..MaxHops, Relay(s, k)
  PROVE  ChainsInOrder' /\ Faithful
<1>. DEFINE h == hops[s][k]
            n == Len(hops[s])
            a == Len(accepted[s])
<1>1. k \in DOMAIN hops[s] /\ ~Returned(h) /\ accepted' = accepted
  BY DEF Relay, OpenForward, OpenFails, Forward, CloseForward, ReturnAck, StreamBreaks, At, Returned
<1>2. h \in Hops /\ HopOK(h, k, n, a) /\ n \in Nat /\ k \in 1..n
  BY <1>1, ChainAt
<1>3. CASE OpenFails(s, k) \/ StreamBreaks(s, k)
  <2>1. HopOK([h EXCEPT !.st = "error"], k, n, a)
    BY <1>2 DEF HopOK, Hops, Inner, Seeking
  <2>. QED
    BY <1>1, <1>3, <2>1, HopStep DEF OpenFails, StreamBreaks, Fail
<1>4. CASE Forward(s, k)
  <2>1. HopOK([h EXCEPT !.got = @ + 1], k, n, a)
    BY <1>2, <1>4 DEF HopOK, Hops, Inner, Seeking, Forward, At
  <2>. QED
    BY <1>1, <1>4, <2>1, HopStep DEF Forward
<1>5. CASE CloseForward(s, k)
  <2>1. h.got = Length
    <3>1. CASE k = 1
      BY <1>5, <3>1 DEF CloseForward, Ends, Sent
    <3>2. CASE k # 1
      <4>1. At(s, k - 1, "close") /\ h.got = hops[s][k - 1].got
        BY <1>2, <1>5, <3>2 DEF CloseForward, Ends, Sent
      <4>. QED
        BY <4>1 DEF At, ChainsInOrder, ChainOK, HopOK
    <3>. QED
      BY <3>1, <3>2
  <2>2. HopOK([h EXCEPT !.st = "close"], k, n, a)
    BY <1>2, <1>5, <2>1 DEF HopOK, Hops, Inner, Seeking, CloseForward, At
  <2>. QED
    BY <1>1, <1>5, <2>2, HopStep DEF CloseForward
<1>6. CASE ReturnAck(s, k)
  <2>1. hops[s][k + 1].last = Length /\ a = Length
    BY <1>6 DEF ReturnAck, At, ChainsInOrder, ChainOK, HopOK
  <2>2. HopOK([h EXCEPT !.st = "acked", !.last = hops[s][k + 1].last], k, n, a)
    BY <1>2, <1>6, <2>1 DEF HopOK, Hops, Inner, Seeking, ReturnAck, At
  <2>. QED
    BY <1>1, <1>6, <2>2, HopStep DEF ReturnAck
<1>7. CASE OpenForward(s, k)
  <2>. DEFINE f == [h EXCEPT !.st = "forward"]
              c == [hops[s] EXCEPT ![k] = f]
              x == NewHop(h.to)
  <2>1. k = n /\ a = 0
    BY <1>2, <1>7 DEF HopOK, Inner, Seeking, OpenForward, At
  <2>2. f.st = "forward" /\ x.st = "role" /\ x.got = 0 /\ x.last = 0
    BY <1>2 DEF Hops, NewHop
  <2>3. hops' = [hops EXCEPT ![s] = Append(c, x)]
    BY <1>7 DEF OpenForward
  <2>. HIDE DEF f, x
  <2>4. /\ Len(hops'[s]) = n + 1 /\ DOMAIN hops'[s] = 1..(n + 1) /\ hops'[s] # <<>>
        /\ \A j \in 1..n : hops'[s][j] = IF j = k THEN f ELSE hops[s][j]
        /\ hops'[s][n + 1] = x
    <3>1. PICK S : hops[s] \in Seq(S) /\ f \in S /\ x \in S
      <4>1. hops[s] \in Seq(SoundHop \cup {f, x})
        BY SeqGrows DEF Sound, HopsSound
      <4>. QED
        BY <4>1
    <3>2. c \in Seq(S) /\ Len(c) = n /\ \A j \in 1..n : c[j] = IF j = k THEN f ELSE hops[s][j]
      BY <1>2, <3>1, ExceptSeq
    <3>3. hops'[s] = Append(c, x)
      BY <2>3 DEF Sound, HopsSound
    <3>. HIDE DEF c
    <3>4. /\ Append(c, x) \in Seq(S) /\ Len(Append(c, x)) = n + 1 /\ Append(c, x) # <<>>
          /\ \A j \in 1..n : Append(c, x)[j] = c[j]
          /\ Append(c, x)[n + 1] = x
      BY <3>1, <3>2, AppendProperties
    <3>5. DOMAIN Append(c, x) = 1..(n + 1)
      BY <3>4, LenProperties
    <3>. QED
      BY <3>2, <3>3, <3>4, <3>5
  <2>5. \A q \in Stream : q # s => hops'[q] = hops[q]
    BY <2>3 DEF Sound, HopsSound
  <2>6. ChainOK(s)'
    <3>1. ASSUME NEW j \in 1..n PROVE HopOK(hops'[s][j], j, n + 1, a)
      <4>1. CASE j = k
        BY <1>2, <2>1, <2>2, <2>4, <4>1 DEF HopOK, Inner
      <4>2. CASE j # k
        <5>1. HopOK(hops[s][j], j, n, a) /\ j < n
          BY <1>2, <2>1, <4>2, ChainLen, ChainAt
        <5>. QED
          BY <1>2, <2>4, <4>2, <5>1 DEF HopOK
      <4>. QED
        BY <4>1, <4>2
    <3>2. HopOK(x, n + 1, n + 1, a)
      BY <1>2, <2>1, <2>2 DEF HopOK
    <3>3. \A j \in 1..(n + 1) : HopOK(hops'[s][j], j, n + 1, a)
      <4>1. ASSUME NEW j \in 1..(n + 1) PROVE j \in 1..n \/ j = n + 1
        BY <1>2, ChainLen
      <4>. QED
        BY <2>4, <3>1, <3>2, <4>1
    <3>4. accepted' = accepted /\ \A i \in DOMAIN accepted[s] : accepted[s][i] = i
      BY <1>1, <1>7 DEF ChainsInOrder, ChainOK, OpenForward
    <3>. QED
      BY <2>4, <3>3, <3>4 DEF ChainOK
  <2>7. ChainsInOrder'
    BY <1>1, <2>5, <2>6 DEF ChainsInOrder, ChainOK
  <2>8. hops[s] # <<>> /\ (hops'[s][1] = hops[s][1] \/ (~Returned(hops[s][1]) /\ ~Returned(hops'[s][1])))
    BY <1>1, <1>2, <2>2, <2>4, ChainLen DEF Returned
  <2>9. Answer'[s] = Answer[s]
    BY <2>4, <2>8 DEF Answer, Returned
  <2>10. \A q \in Stream : q # s => Answer'[q] = Answer[q]
    BY <2>5 DEF Answer
  <2>. QED
    BY <1>1, <2>7, <2>9, <2>10, AnswerSame DEF Faithful
<1>. QED
  BY <1>3, <1>4, <1>5, <1>6, <1>7 DEF Relay

LEMMA ServeFaithful ==
  ASSUME Sound, ChainsInOrder, NEW s \in Stream, NEW k \in 1..MaxHops, Serve(s, k)
  PROVE  ChainsInOrder' /\ Faithful
<1>. DEFINE h == hops[s][k]
            n == Len(hops[s])
            a == Len(accepted[s])
<1>1. k \in DOMAIN hops[s] /\ ~Returned(h) /\ h.st \in {"serve", "submit", "replicate"}
  BY DEF Serve, Receive, AckStream, Submit, SubmitSucceeds, SubmitFails, At, Returned
<1>2. h \in Hops /\ HopOK(h, k, n, a) /\ n \in Nat /\ k \in 1..n
  BY <1>1, ChainAt
<1>3. k = n
  BY <1>1, <1>2 DEF HopOK, Inner
<1>4. CASE Receive(s, k)
  <2>. DEFINE g == h.got + 1
  <2>1. a = h.got /\ h.got \in Nat
    BY <1>2, <1>3, <1>4, LengthAssumption DEF HopOK, Receive, At, Hops
  <2>2. HopOK([h EXCEPT !.st = "submit", !.got = @ + 1, !.last = h.got + 1], k, n, a)
    <3>1. g = a + 1
      BY <2>1
    <3>. HIDE DEF g
    <3>2. HopOK([h EXCEPT !.st = "submit", !.got = g, !.last = g], k, n, a)
      BY <1>2, <1>3, <3>1 DEF HopOK, Hops, Seeking
    <3>. QED
      BY <3>2 DEF g
  <2>. QED
    BY <1>1, <1>4, <2>2, HopStep DEF Receive
<1>5. CASE AckStream(s, k)
  <2>1. h.got = Length
    <3>1. CASE k = 1
      BY <1>5, <3>1 DEF AckStream, Ends, Sent
    <3>2. CASE k # 1
      <4>1. At(s, k - 1, "close") /\ h.got = hops[s][k - 1].got
        BY <1>2, <1>5, <3>2 DEF AckStream, Ends, Sent
      <4>. QED
        BY <4>1 DEF At, ChainsInOrder, ChainOK, HopOK
    <3>. QED
      BY <3>1, <3>2
  <2>2. HopOK([h EXCEPT !.st = "acked"], k, n, a)
    BY <1>2, <1>3, <1>5, <2>1 DEF HopOK, Hops, Seeking, AckStream, At
  <2>. QED
    BY <1>1, <1>5, <2>2, HopStep DEF AckStream
<1>6. CASE Submit(s, k)
  <2>1. PICK z \in {"replicate", "error"} : Become(s, k, [h EXCEPT !.st = z])
    BY <1>6 DEF Submit, AfterError
  <2>2. HopOK([h EXCEPT !.st = z], k, n, a)
    BY <1>2, <1>3, <1>6 DEF HopOK, Hops, Seeking, Submit, At
  <2>. QED
    BY <1>1, <1>6, <2>1, <2>2, HopStep DEF Submit
<1>7. CASE SubmitFails(s, k)
  <2>1. HopOK([h EXCEPT !.st = AfterError], k, n, a)
    BY <1>2, <1>3 DEF HopOK, Hops, Seeking, AfterError
  <2>. QED
    BY <1>1, <1>7, <2>1, HopStep DEF SubmitFails
<1>8. CASE SubmitSucceeds(s, k)
  <2>. DEFINE x == [h EXCEPT !.st = "serve"]
  <2>1. h.last = h.got /\ h.last = a + 1 /\ h.last \in 0..Length /\ a \in Nat
    BY <1>2, <1>3, <1>8, ChainLen DEF HopOK, Hops, SubmitSucceeds, At
  <2>2. a < Length
    BY <2>1, LengthAssumption
  <2>3. /\ accepted' = [accepted EXCEPT ![s] = Append(@, a + 1)]
        /\ hops' = [hops EXCEPT ![s][k] = x]
    BY <1>8, <2>1 DEF SubmitSucceeds, Become
  <2>4. x.st = "serve" /\ x.got = a + 1 /\ x.last = a + 1
    BY <1>2, <2>1 DEF Hops
  <2>. HIDE DEF x
  <2>5. /\ accepted'[s] = Append(accepted[s], a + 1) /\ Len(accepted'[s]) = a + 1
        /\ DOMAIN accepted'[s] = 1..(a + 1)
        /\ \A i \in DOMAIN accepted'[s] : accepted'[s][i] = i
    <3>1. accepted[s] \in Seq(Nat) /\ accepted'[s] = Append(accepted[s], a + 1)
      <4>1. accepted[s] \in Seq(1..Length) /\ 1..Length \subseteq Nat
        BY DEF Sound, CountsType
      <4>2. accepted[s] \in Seq(Nat)
        BY <4>1, SeqGrows
      <4>. QED
        BY <2>3, <4>2 DEF Sound, CountsType
    <3>2. \A i \in DOMAIN accepted[s] : accepted[s][i] = i
      BY DEF ChainsInOrder, ChainOK
    <3>. QED
      BY <2>1, <3>1, <3>2, ChainLen
  <2>6. /\ hops'[s] = [hops[s] EXCEPT ![k] = x] /\ DOMAIN hops'[s] = DOMAIN hops[s] /\ Len(hops'[s]) = n
        /\ hops[s] # <<>> /\ hops'[s] # <<>>
    <3>1. hops'[s] = [hops[s] EXCEPT ![k] = x] /\ hops[s] \in Seq(SoundHop)
      BY <2>3 DEF Sound, HopsSound
    <3>. QED
      BY <1>2, <3>1
  <2>7. \A q \in Stream : q # s => hops'[q] = hops[q] /\ accepted'[q] = accepted[q]
    BY <2>3 DEF Sound, HopsSound, CountsType
  <2>8. ChainOK(s)'
    <3>1. ASSUME NEW j \in DOMAIN hops[s] PROVE HopOK(hops'[s][j], j, n, a + 1)
      <4>1. CASE j = k
        BY <1>2, <1>3, <2>1, <2>4, <2>6, <4>1 DEF HopOK, Seeking
      <4>2. CASE j # k
        <5>1. HopOK(hops[s][j], j, n, a) /\ j < n /\ hops'[s][j] = hops[s][j]
          BY <1>2, <1>3, <2>6, <4>2, ChainAt
        <5>. QED
          BY <2>1, <2>2, <5>1 DEF HopOK
      <4>. QED
        BY <4>1, <4>2
    <3>. QED
      BY <2>5, <2>6, <3>1 DEF ChainOK
  <2>9. ChainsInOrder'
    BY <2>7, <2>8 DEF ChainsInOrder, ChainOK
  <2>10. Answer'[s] = Answer[s]
    BY <1>1, <1>2, <2>4, <2>6 DEF Answer, Returned
  <2>11. Answer' = Answer
    <3>1. ASSUME NEW q \in Stream, q # s PROVE Answer'[q] = Answer[q]
      BY <2>7, <3>1 DEF Answer
    <3>. QED
      BY <2>10, <3>1, AnswerSame
  <2>12. Answer[s].st # "ack"
    <3>1. 1 \in DOMAIN hops[s]
      BY <1>2, ChainLen
    <3>2. hops[s][1].st # "acked"
      BY <2>1, <2>2, <3>1 DEF ChainsInOrder, ChainOK, HopOK
    <3>. QED
      BY <3>2 DEF Answer
  <2>13. Clients!Accept(s)
    BY <2>2, <2>3, <2>11, <2>12 DEF Clients!Accept
  <2>. QED
    BY <2>9, <2>13 DEF Faithful, Clients!Next
<1>. QED
  BY <1>4, <1>5, <1>6, <1>7, <1>8 DEF Serve
LEMMA OpenFaithful ==
  ASSUME Sound, ChainsInOrder, NEW n \in Node, NEW s \in Stream, Open(s, n)
  PROVE  ChainsInOrder' /\ Faithful
<1>1. /\ hops[s] = <<>> /\ hops'[s] = <<NewHop(n)>> /\ accepted' = accepted
      /\ \A q \in Stream : q # s => hops'[q] = hops[q]
  BY DEF Open, Sound, HopsSound
<1>2. accepted[s] = <<>> /\ Len(accepted[s]) = 0
  BY <1>1 DEF ChainsInOrder, ChainOK
<1>3. HopOK(NewHop(n), 1, 1, 0) /\ ~Returned(NewHop(n))
  BY DEF HopOK, NewHop, Returned
<1>4. ChainsInOrder'
  <2>1. ChainOK(s)'
    BY <1>1, <1>2, <1>3 DEF ChainOK
  <2>. QED
    BY <1>1, <2>1 DEF ChainsInOrder, ChainOK
<1>5. Answer' = Answer
  BY <1>1, <1>3 DEF Answer
<1>. QED
  BY <1>1, <1>4, <1>5 DEF Faithful

\* A process that ends returns an error on every stream whose first handler it
\* was running, all at once.
LEMMA CrashFaithful ==
  ASSUME Sound, ChainsInOrder, NEW n \in Node, Crash(n)
  PROVE  ChainsInOrder' /\ Faithful
<1>1. /\ accepted' = accepted
      /\ \A s \in Stream :
           hops'[s] = [k \in DOMAIN hops[s] |-> IF hops[s][k].node = n /\ ~Returned(hops[s][k])
                                               THEN [hops[s][k] EXCEPT !.st = "error"] ELSE hops[s][k]]
  BY DEF Crash
<1>2. ASSUME NEW s \in Stream
      PROVE  /\ DOMAIN hops'[s] = DOMAIN hops[s] /\ Len(hops'[s]) = Len(hops[s])
             /\ hops'[s] = <<>> <=> hops[s] = <<>>
             /\ \A k \in DOMAIN hops[s] : \/ hops'[s][k] = hops[s][k]
                                          \/ /\ ~Returned(hops[s][k])
                                             /\ hops'[s][k] = [hops[s][k] EXCEPT !.st = "error"]
  <2>1. DOMAIN hops'[s] = DOMAIN hops[s]
    BY <1>1
  <2>2. hops[s] \in Seq(SoundHop)
    BY DEF Sound, HopsSound
  <2>3. hops'[s] \in Seq(SoundHop')
    BY ClusterSound DEF Sound, HopsSound
  <2>4. Len(hops'[s]) = Len(hops[s])
    BY <2>1, <2>2, <2>3, LenProperties
  <2>5. hops'[s] = <<>> <=> hops[s] = <<>>
    BY <2>2, <2>3, <2>4, EmptySeq
  <2>6. ASSUME NEW k \in DOMAIN hops[s]
        PROVE  \/ hops'[s][k] = hops[s][k]
               \/ ~Returned(hops[s][k]) /\ hops'[s][k] = [hops[s][k] EXCEPT !.st = "error"]
    <3>1. hops'[s][k] = IF hops[s][k].node = n /\ ~Returned(hops[s][k])
                          THEN [hops[s][k] EXCEPT !.st = "error"] ELSE hops[s][k]
      BY <1>1, <2>6
    <3>. QED
      BY <3>1, Zenon
  <2>. QED
    BY <2>1, <2>4, <2>5, <2>6, Zenon
<1>3. ASSUME NEW s \in Stream PROVE ChainOK(s)'
  <2>1. ASSUME NEW k \in DOMAIN hops[s] PROVE HopOK(hops'[s][k], k, Len(hops[s]), Len(accepted[s]))
    <3>1. hops[s][k] \in Hops /\ HopOK(hops[s][k], k, Len(hops[s]), Len(accepted[s]))
      BY ChainAt
    <3>2. HopOK([hops[s][k] EXCEPT !.st = "error"], k, Len(hops[s]), Len(accepted[s]))
      BY <3>1 DEF HopOK, Hops, Inner, Seeking
    <3>. QED
      BY <1>2, <3>1, <3>2
  <2>. QED
    BY <1>1, <1>2, <2>1 DEF ChainsInOrder, ChainOK
<1>4. ASSUME NEW s \in Stream, Answer'[s] # Answer[s]
      PROVE  Answer[s] = Clients!Asked /\ Answer'[s] = Clients!Error
  <2>1. CASE hops[s] = <<>>
    BY <1>2, <1>4, <2>1 DEF Answer
  <2>2. CASE hops[s] # <<>>
    <3>1. 1 \in DOMAIN hops[s] /\ hops[s][1] \in Hops
      <4>1. 1 \in DOMAIN hops[s]
        BY <2>2, ChainLen
      <4>. QED
        BY <4>1, ChainAt
    <3>2. ~Returned(hops[s][1]) /\ hops'[s][1] = [hops[s][1] EXCEPT !.st = "error"]
      BY <1>2, <1>4, <2>2, <3>1 DEF Answer
    <3>3. hops'[s][1].st = "error"
      BY <3>1, <3>2 DEF Hops
    <3>. QED
      BY <1>2, <2>2, <3>2, <3>3 DEF Answer, Returned, Clients!Asked, Clients!Error
  <2>. QED
    BY <2>1, <2>2
<1>5. Clients!Refuse({s \in Stream : Answer'[s] # Answer[s]})
  <2>. DEFINE S == {s \in Stream : Answer'[s] # Answer[s]}
  <2>1. \A s \in Stream : Answer'[s] = IF s \in S THEN Clients!Error ELSE Answer[s]
    BY <1>4
  <2>2. Answer' = [s \in Stream |-> IF s \in S THEN Clients!Error ELSE Answer[s]]
    BY <2>1 DEF Answer
  <2>. QED
    BY <1>1, <1>4, <2>2 DEF Clients!Refuse
<1>. QED
  BY <1>3, <1>5 DEF ChainsInOrder, Faithful, Clients!Next

LEMMA StepFaithful ==
  ASSUME Sound, ChainsInOrder, [Next]_<<vars, settled>>
  PROVE  ChainsInOrder' /\ Faithful
<1>1. ASSUME UNCHANGED <<hops, accepted>> PROVE ChainsInOrder' /\ Faithful
  BY <1>1 DEF ChainsInOrder, ChainOK, Faithful, Answer
<1>2. CASE RaftStep
  BY <1>1, <1>2 DEF RaftStep
<1>3. CASE UNCHANGED <<vars, settled>>
  BY <1>1, <1>3 DEF vars
<1>4. CASE Next
  BY <1>2, <1>4, CrashFaithful, OpenFaithful, LookupFaithful, RelayFaithful, ServeFaithful DEF Next
<1>. QED
  BY <1>3, <1>4

LEMMA ChainsAlways == Spec => [](IInv /\ ChainsInOrder)
<1>1. Init => ChainsInOrder
  BY DEF Init, ChainsInOrder, ChainOK
<1>2. IInv /\ ChainsInOrder /\ [Next]_<<vars, settled>> => ChainsInOrder'
  BY StepFaithful DEF IInv
<1>. QED
  BY <1>1, <1>2, StartsSound, StepsSound, PTL DEF Spec

\* However the Raft nodes elect, fail and disagree, and wherever a stream is
\* forwarded, its client is served as ReadingStream says: readings are accepted
\* in order and once, and an acknowledgement means that all of them were.
THEOREM StreamsFaithful == Spec => StreamsAreFaithful
<1>1. Init => Clients!Init
  BY DEF Init, Clients!Init, Clients!Asked, Answer
<1>2. IInv /\ ChainsInOrder /\ [Next]_<<vars, settled>> => [Clients!Next]_<<accepted, Answer>>
  BY StepFaithful DEF IInv, Faithful
<1>. QED
  BY <1>1, <1>2, ChainsAlways, PTL DEF Spec, StreamsAreFaithful, Clients!Spec
-------------------------------------------------------------------------------
(* While the cluster is settled the leader stays the same, and a stream    *)
(* reaches it in one forward at most.                                      *)

\* What holds of the k-th handler of a stream the cluster was settled for since
\* it opened: the second runs on the leader, so it looks up and dials nobody.
Direct(h, k) ==
  /\ k <= 2 /\ h.st \notin {"ask", "heard"}
  /\ k = 2 => role[h.node] = "leader" /\ h.st \notin {"lookup", "dial"}
  /\ h.st = "lookup" => role[h.node] # "leader"
  /\ h.st = "dial" => role[h.to] = "leader"

DirectInv == \A s \in settled : Settled /\ \A k \in DOMAIN hops[s] : Direct(hops[s][k], k)

SameLeaders == \A n \in Node : role'[n] = "leader" <=> role[n] = "leader"

\* A step of the Raft nodes changes one role, so it cannot replace one leader of
\* a settled cluster by another.
LEMMA OneRole ==
  ASSUME ViewType, ViewNext
  PROVE  \E m \in Node : \A n \in Node : n # m => role'[n] = role[n]
<1>1. ASSUME NEW n \in Node, Restart(n) PROVE \A m \in Node : m # n => role'[m] = role[m]
  BY <1>1 DEF Restart, ViewType
<1>2. ASSUME NEW n \in Node, ViewStep(n) PROVE \A m \in Node : m # n => role'[m] = role[m]
  <2>1. role' = role \/ \E z : role' = [role EXCEPT ![n] = z]
    BY <1>2 DEF ViewStep, Campaign, LearnHigherTerm, Win, Vote, Hear
  <2>. QED
    BY <2>1 DEF ViewType
<1>. QED
  BY <1>1, <1>2 DEF ViewNext

LEMMA LeaderStays ==
  ASSUME ViewType, Settled, Settled', ViewNext \/ UNCHANGED role
  PROVE  SameLeaders
<1>1. PICK l \in Node : role[l] = "leader" /\ \A n \in Node \ {l} : role[n] # "leader"
  BY DEF Settled
<1>2. PICK k \in Node : role'[k] = "leader" /\ \A n \in Node \ {k} : role'[n] # "leader"
  BY DEF Settled
<1>3. k = l
  BY <1>1, <1>2, OneRole
<1>. QED
  BY <1>1, <1>2, <1>3 DEF SameLeaders

\* A handler that does not go on looking for the leader stays direct.
LEMMA DirectGoesOn ==
  ASSUME NEW h, NEW k, NEW hop, Direct(h, k), hop.node = h.node,
         hop.st \notin {"ask", "heard", "lookup", "dial"}
  PROVE  Direct(hop, k)
BY DEF Direct

\* What a step does to a stream it leaves with as many handlers.
LEMMA DirectLookup ==
  ASSUME Sound, Settled, NEW s \in Stream, NEW k \in DOMAIN hops[s], Direct(hops[s][k], k), Lookup(s, k)
  PROVE  \E hop : Become(s, k, hop) /\ Direct(hop, k) /\ UNCHANGED role
<1>. DEFINE h == hops[s][k]
<1>1. h \in Hops
  BY HopAt DEF Sound, SoundHop
<1>2. CASE CheckRole(s, k)
  <2>. DEFINE hop == [h EXCEPT !.st = IF role[h.node] = "leader" THEN "serve" ELSE "lookup"]
  <2>1. hop.node = h.node /\ hop.st = IF role[h.node] = "leader" THEN "serve" ELSE "lookup"
    BY <1>1 DEF Hops
  <2>2. Direct(hop, k)
    BY <1>2, <2>1 DEF Direct, CheckRole, At
  <2>. QED
    BY <1>2, <2>2 DEF CheckRole, view
<1>3. CASE LookUp(s, k)
  <2>1. role[h.node] # "leader" /\ k # 2 /\ k <= 2
    BY <1>3 DEF LookUp, At, Direct
  <2>2. PICK l \in Node : role[l] = "leader" /\ leaderId[h.node] = l
    BY <1>1, <2>1 DEF Settled, Hops
  <2>3. LeaderAddress(h.node) = l /\ l # None
    BY <2>1, <2>2, PeersAssumption DEF LeaderAddress
  <2>4. Become(s, k, [h EXCEPT !.st = "dial", !.to = l])
    BY <1>3, <2>3 DEF LookUp
  <2>5. Direct([h EXCEPT !.st = "dial", !.to = l], k)
    BY <1>1, <2>1, <2>2 DEF Direct, Hops
  <2>. QED
    BY <1>3, <2>4, <2>5 DEF LookUp, view
<1>. QED
  BY <1>2, <1>3 DEF Lookup, AskPeer, AskFails, NobodyKnows, Adopt, At, Direct

\* Relay and Serve without OpenForward.
LEMMA DirectServe ==
  ASSUME Sound, NEW s \in Stream, NEW k \in DOMAIN hops[s], Direct(hops[s][k], k),
         Relay(s, k) \/ Serve(s, k), ~OpenForward(s, k)
  PROVE  \E hop : Become(s, k, hop) /\ Direct(hop, k) /\ UNCHANGED role
<1>. DEFINE h == hops[s][k]
<1>1. h \in Hops /\ UNCHANGED role
  <2>1. h \in Hops
    BY HopAt DEF Sound, SoundHop
  <2>2. UNCHANGED role
    BY DEF Relay, OpenForward, OpenFails, Forward, CloseForward, ReturnAck, StreamBreaks,
           Serve, Receive, AckStream, Submit, SubmitSucceeds, SubmitFails, view
  <2>. QED
    BY <2>1, <2>2
<1>2. \A z \in {"error", "close", "acked", "serve", "replicate"} : Direct([h EXCEPT !.st = z], k)
  BY <1>1, DirectGoesOn DEF Hops
<1>3. CASE OpenFails(s, k) \/ StreamBreaks(s, k) \/ CloseForward(s, k) \/ AckStream(s, k) \/ Submit(s, k)
           \/ SubmitSucceeds(s, k) \/ SubmitFails(s, k)
  <2>1. \E z \in {"error", "close", "acked", "serve", "replicate"} : Become(s, k, [h EXCEPT !.st = z])
    BY <1>3 DEF OpenFails, StreamBreaks, CloseForward, AckStream, Submit, SubmitSucceeds, SubmitFails, Fail, AfterError
  <2>. QED
    BY <1>1, <1>2, <2>1
<1>4. CASE Forward(s, k)
  <2>1. Direct([h EXCEPT !.got = @ + 1], k)
    BY <1>1, <1>4, DirectGoesOn DEF Hops, Forward, At
  <2>. QED
    BY <1>1, <1>4, <2>1 DEF Forward
<1>5. CASE ReturnAck(s, k)
  <2>. DEFINE hop == [h EXCEPT !.st = "acked", !.last = hops[s][k + 1].last]
  <2>1. hop.node = h.node /\ hop.st = "acked" /\ Become(s, k, hop)
    BY <1>1, <1>5 DEF Hops, ReturnAck
  <2>. HIDE DEF hop
  <2>. QED
    BY <1>1, <2>1, DirectGoesOn
<1>6. CASE Receive(s, k)
  <2>. DEFINE hop == [h EXCEPT !.st = "submit", !.got = @ + 1, !.last = h.got + 1]
  <2>1. hop.node = h.node /\ hop.st = "submit" /\ Become(s, k, hop)
    BY <1>1, <1>6 DEF Hops, Receive
  <2>. HIDE DEF hop
  <2>. QED
    BY <1>1, <2>1, DirectGoesOn
<1>. QED
  BY <1>3, <1>4, <1>5, <1>6 DEF Relay, Serve
\* The one forward of a settled stream: it had one handler, which dials the leader.
LEMMA DirectOpens ==
  ASSUME Sound, ChainsInOrder, NEW s \in Stream, NEW k \in DOMAIN hops[s],
         \A j \in DOMAIN hops[s] : Direct(hops[s][j], j), OpenForward(s, k)
  PROVE  UNCHANGED role /\ \A j \in DOMAIN hops'[s] : Direct(hops'[s][j], j)
<1>. DEFINE h == hops[s][k]
            f == [h EXCEPT !.st = "forward"]
            x == NewHop(h.to)
<1>1. h \in Hops /\ h.st = "dial" /\ k = 1 /\ Len(hops[s]) = 1
  <2>1. h \in Hops /\ HopOK(h, k, Len(hops[s]), Len(accepted[s])) /\ Len(hops[s]) \in Nat /\ k \in 1..Len(hops[s])
    BY ChainAt
  <2>2. h.st = "dial" /\ k <= 2 /\ k # 2
    BY DEF OpenForward, At, Direct
  <2>3. ~(k < Len(hops[s]))
    BY <2>1, <2>2 DEF HopOK, Inner
  <2>4. ASSUME NEW n \in Nat, NEW i \in 1..n, i <= 2, i # 2, ~(i < n) PROVE i = 1 /\ n = 1
    BY <2>4
  <2>5. k = 1 /\ Len(hops[s]) = 1
    BY <2>1, <2>2, <2>3, <2>4
  <2>. QED
    BY <2>1, <2>2, <2>5
<1>2. hops'[s] = Append([hops[s] EXCEPT ![k] = f], x) /\ UNCHANGED role
  BY DEF OpenForward, Sound, HopsSound, view
<1>3. Direct(f, 1) /\ Direct(x, 2)
  <2>1. Direct(f, 1)
    BY <1>1, DirectGoesOn DEF Hops
  <2>2. Direct(x, 2)
    BY <1>1 DEF Direct, NewHop
  <2>. QED
    BY <2>1, <2>2
<1>. HIDE DEF f, x
<1>4. hops[s] \in Seq(SoundHop \cup {f, x})
  BY SeqGrows DEF Sound, HopsSound
<1>5. DOMAIN hops'[s] = 1..2 /\ hops'[s][1] = f /\ hops'[s][2] = x
  BY <1>1, <1>2, <1>4
<1>. QED
  BY <1>2, <1>3, <1>5

LEMMA DirectStep ==
  ASSUME IInv, ChainsInOrder, DirectInv, Next
  PROVE  DirectInv'
<1>0. Sound /\ hops \in [Stream -> Seq(SoundHop)] /\ ViewType
  BY DEF IInv, Sound, HopsSound
<1>1. SUFFICES ASSUME NEW s \in Stream, hops[s] = <<>> \/ s \in settled, Settled'
               PROVE  \A j \in DOMAIN hops'[s] : Direct(hops[s][j], j)'
  BY DEF Next, DirectInv
<1>2. CASE hops[s] = <<>>
  <2>1. ASSUME NEW q \in Stream, NEW k \in 1..MaxHops, Lookup(q, k) \/ Relay(q, k) \/ Serve(q, k)
        PROVE  hops'[s] = <<>>
    <3>1. k \in DOMAIN hops[q] /\ \E z : hops' = [hops EXCEPT ![q] = z]
      BY <2>1, Zenon
         DEF Lookup, CheckRole, LookUp, AskPeer, AskFails, NobodyKnows, Adopt, Relay, OpenForward, OpenFails,
             Forward, CloseForward, ReturnAck, StreamBreaks, Serve, Receive, AckStream, Submit, SubmitSucceeds,
             SubmitFails, At, Become, Fail
    <3>. QED
      BY <1>0, <1>2, <3>1
  <2>2. ASSUME NEW n \in Node, Crash(n) PROVE hops'[s] = <<>>
    BY <1>2, <2>2 DEF Crash
  <2>3. ASSUME NEW n \in Node, NEW q \in Stream, Open(q, n)
        PROVE  hops'[s] = <<>> \/ hops'[s] = <<NewHop(n)>>
    BY <1>0, <1>2, <2>3 DEF Open
  <2>4. ASSUME RaftStep PROVE hops'[s] = <<>>
    BY <1>2, <2>4 DEF RaftStep
  <2>5. hops'[s] = <<>> \/ \E n \in Node : hops'[s] = <<NewHop(n)>>
    <3>1. ASSUME NEW n \in Node, Crash(n) \/ \E q \in Stream : Open(q, n)
          PROVE  hops'[s] = <<>> \/ \E m \in Node : hops'[s] = <<NewHop(m)>>
      BY <2>2, <2>3, <3>1
    <3>2. \/ RaftStep
          \/ \E n \in Node : Crash(n) \/ \E q \in Stream : Open(q, n)
          \/ \E q \in Stream, k \in 1..MaxHops : Lookup(q, k) \/ Relay(q, k) \/ Serve(q, k)
      BY Zenon DEF Next
    <3>3. CASE RaftStep
      BY <2>4, <3>3
    <3>4. CASE \E n \in Node : Crash(n) \/ \E q \in Stream : Open(q, n)
      BY <3>1, <3>4
    <3>5. CASE \E q \in Stream, k \in 1..MaxHops : Lookup(q, k) \/ Relay(q, k) \/ Serve(q, k)
      BY <2>1, <3>5
    <3>. QED
      BY <3>2, <3>3, <3>4, <3>5
  <2>6. ASSUME NEW n \in Node, NEW j \in DOMAIN <<NewHop(n)>>
        PROVE  Direct(<<NewHop(n)>>[j], j)'
    <3>1. j = 1 /\ <<NewHop(n)>>[j] = NewHop(n)
      OBVIOUS
    <3>. QED
      BY <3>1 DEF Direct, NewHop
  <2>7. CASE hops'[s] = <<>>
    BY <2>7
  <2>8. ASSUME NEW n \in Node, hops'[s] = <<NewHop(n)>>
        PROVE  \A j \in DOMAIN hops'[s] : Direct(hops[s][j], j)'
    BY <2>6, <2>8 DEF Direct
  <2>. QED
    BY <2>5, <2>7, <2>8
<1>3. CASE hops[s] # <<>>
  <2>0. Settled /\ \A j \in DOMAIN hops[s] : Direct(hops[s][j], j)
    BY <1>1, <1>3 DEF DirectInv
  \* It is enough that the handlers are direct by the roles before the step.
  <2>1. ASSUME ViewNext \/ UNCHANGED role, \A j \in DOMAIN hops'[s] : Direct(hops'[s][j], j)
        PROVE  \A j \in DOMAIN hops'[s] : Direct(hops[s][j], j)'
    <3>1. SameLeaders
      BY <1>0, <1>1, <2>0, <2>1, LeaderStays
    <3>2. HopsSound'
      BY StepsSound DEF IInv, Sound
    <3>3. ASSUME NEW j \in DOMAIN hops'[s]
          PROVE  hops'[s][j].node \in Node /\ (hops'[s][j].st = "dial" => hops'[s][j].to \in Node)
      <4>1. hops'[s] \in Seq(SoundHop')
        BY <3>2 DEF HopsSound
      <4>2. hops'[s][j] \in SoundHop'
        BY <4>1, LenProperties
      <4>. QED
        BY <4>2 DEF SoundHop, Hops
    <3>. QED
      BY <2>1, <3>1, <3>3 DEF Direct, SameLeaders
  <2>2. ASSUME NEW k \in DOMAIN hops[s], NEW hop, Become(s, k, hop), Direct(hop, k), UNCHANGED role
        PROVE  \A j \in DOMAIN hops'[s] : Direct(hops[s][j], j)'
    <3>1. hops'[s] = [hops[s] EXCEPT ![k] = hop]
      BY <1>0, <2>2 DEF Become
    <3>2. \A j \in DOMAIN hops'[s] : Direct(hops'[s][j], j)
      BY <2>0, <2>2, <3>1
    <3>. QED
      BY <2>1, <2>2, <3>2
  <2>3. ASSUME hops'[s] = hops[s], ViewNext \/ UNCHANGED role
        PROVE  \A j \in DOMAIN hops'[s] : Direct(hops[s][j], j)'
    BY <2>0, <2>1, <2>3
  <2>4. ASSUME NEW k \in 1..MaxHops, Lookup(s, k) \/ Relay(s, k) \/ Serve(s, k)
        PROVE  \A j \in DOMAIN hops'[s] : Direct(hops[s][j], j)'
    <3>1. k \in DOMAIN hops[s]
      BY <2>4, Zenon
         DEF Lookup, CheckRole, LookUp, AskPeer, AskFails, NobodyKnows, Adopt, Relay, OpenForward, OpenFails,
             Forward, CloseForward, ReturnAck, StreamBreaks, Serve, Receive, AckStream, Submit, SubmitSucceeds,
             SubmitFails, At
    <3>2. CASE OpenForward(s, k)
      BY <1>0, <2>0, <2>1, <3>1, <3>2, DirectOpens
    <3>3. CASE ~OpenForward(s, k)
      BY <1>0, <2>0, <2>2, <2>4, <3>1, <3>3, DirectLookup, DirectServe
    <3>. QED
      BY <3>2, <3>3
  <2>5. ASSUME NEW q \in Stream, q # s, NEW k \in 1..MaxHops, Lookup(q, k) \/ Relay(q, k) \/ Serve(q, k)
        PROVE  \A j \in DOMAIN hops'[s] : Direct(hops[s][j], j)'
    <3>1. \E z : hops' = [hops EXCEPT ![q] = z]
      BY <2>5, Zenon
         DEF Lookup, CheckRole, LookUp, AskPeer, AskFails, NobodyKnows, Adopt, Relay, OpenForward, OpenFails,
             Forward, CloseForward, ReturnAck, StreamBreaks, Serve, Receive, AckStream, Submit, SubmitSucceeds,
             SubmitFails, Become, Fail
    <3>2. UNCHANGED role
      BY <2>5
         DEF Lookup, CheckRole, LookUp, AskPeer, AskFails, NobodyKnows, Adopt, Relay, OpenForward, OpenFails,
             Forward, CloseForward, ReturnAck, StreamBreaks, Serve, Receive, AckStream, Submit, SubmitSucceeds,
             SubmitFails, view
    <3>. QED
      BY <1>0, <2>3, <2>5, <3>1, <3>2
  <2>6. ASSUME NEW n \in Node, NEW q \in Stream, Open(q, n)
        PROVE  \A j \in DOMAIN hops'[s] : Direct(hops[s][j], j)'
    BY <1>0, <1>3, <2>3, <2>6 DEF Open, view
  <2>7. ASSUME NEW n \in Node, Crash(n)
        PROVE  \A j \in DOMAIN hops'[s] : Direct(hops[s][j], j)'
    <3>1. ViewNext
      BY <2>7 DEF Crash, ViewNext
    <3>2. ASSUME NEW j \in DOMAIN hops[s]
          PROVE  Direct(hops[s][j], j) /\ Direct([hops[s][j] EXCEPT !.st = "error"], j)
      <4>1. hops[s][j] \in Hops
        BY <1>0, HopAt DEF Sound, SoundHop
      <4>. QED
        BY <2>0, <4>1, DirectGoesOn DEF Hops
    <3>3. \A j \in DOMAIN hops'[s] : Direct(hops'[s][j], j)
      BY <2>7, <3>2 DEF Crash
    <3>. QED
      BY <2>1, <3>1, <3>3
  <2>8. CASE RaftStep
    BY <2>3, <2>8 DEF RaftStep, ViewNext
  <2>. QED
    BY <2>4, <2>5, <2>6, <2>7, <2>8 DEF Next
<1>. QED
  BY <1>2, <1>3

\* As long as the cluster is settled a stream takes one forward at most, to the
\* leader, and nobody is asked for its name.
THEOREM SettledDirect == Spec => []SettledIsDirect
<1>1. Init => DirectInv
  BY DEF Init, DirectInv
<1>2. IInv /\ ChainsInOrder /\ DirectInv /\ [Next]_<<vars, settled>> => DirectInv'
  <2>1. UNCHANGED <<vars, settled>> /\ DirectInv => DirectInv'
    BY DEF DirectInv, Direct, Settled, vars, view
  <2>. QED
    BY <2>1, DirectStep
<1>3. DirectInv => SettledIsDirect
  BY DEF DirectInv, Direct, SettledIsDirect
<1>. QED
  BY <1>1, <1>2, <1>3, ChainsAlways, PTL DEF Spec
===============================================================================
