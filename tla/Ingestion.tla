------------------------------- MODULE Ingestion -------------------------------
(***************************************************************************)
(* StreamReadings of architecture2/services/ingestion/main.go, with the    *)
(* leader lookup of raftnode/main.go (IsLeader, GetLeader,                 *)
(* GetLeaderAddress, DiscoverLeader).                                      *)
(*                                                                         *)
(* hops[s] is the chain of handlers that work for stream s: the first was  *)
(* called by the client, each other one by the handler before it.  A       *)
(* handler is [node, st, to, left, got, last]: its process, its place in   *)
(* StreamReadings, the leader it was told of, the peers DiscoverLeader has *)
(* still to ask, how many readings it has received, and the number it has  *)
(* to acknowledge.  gRPC delivers a stream in order, so what is under way  *)
(* from one handler to the next is the difference of their got.            *)
(***************************************************************************)
EXTENDS LeaderView, Sequences

CONSTANTS Peers,      \* rn.peers of each node, in the order of PEERS
          Stream,     \* the clients' streams
          Length,     \* each client sends readings 1..Length, then closes
          MaxHops,    \* bound: handlers of one stream
          MaxChanges  \* bound: steps of the Raft nodes

ASSUME PeersAssumption == Peers \in [Node -> Seq(Node)] /\ None \notin Node
ASSUME LengthAssumption == Length \in Nat /\ MaxHops \in Nat /\ MaxChanges \in Nat

VARIABLES hops, accepted,  \* per stream: its handlers, the readings SubmitReading took
          changes,         \* steps of the Raft nodes so far
          settled          \* history: streams the cluster was settled for since they opened

vars == <<view, hops, accepted, changes>>

NewHop(n) == [node |-> n, st |-> "role", to |-> None, left |-> <<>>, got |-> 0, last |-> 0]

Init ==
  /\ InitView
  /\ hops = [s \in Stream |-> <<>>]
  /\ accepted = [s \in Stream |-> <<>>]
  /\ changes = 0
  /\ settled = {}

\* One node leads, no other thinks it does, and all of these name it.
Settled ==
  /\ \A n \in Node : ~wedged[n]
  /\ \E l \in Node : /\ role[l] = "leader"
                    /\ \A n \in Node \ {l} : role[n] # "leader" /\ leaderId[n] = l

At(s, k, st) == k \in DOMAIN hops[s] /\ hops[s][k].st = st
Become(s, k, hop) == hops' = [hops EXCEPT ![s][k] = hop]
Fail(s, k) == Become(s, k, [hops[s][k] EXCEPT !.st = "error"])

Returned(hop) == hop.st \in {"acked", "error"}

\* The caller of handler k has gone: the context of the stream is cancelled.
Cancelled(s, k) == At(s, k - 1, "error")

-------------------------------------------------------------------------------
(* Whom a node takes for the leader.                                       *)

\* GetLeaderAddress: a name that is not among the peers, the node's own after
\* it lost the role, still gets an address from its number.
AddressIfLeader(n) == IF role[n] = "leader" THEN n ELSE None
LeaderAddress(n) == IF leaderId[n] # None /\ role[n] = "leader" THEN n ELSE leaderId[n]

\* The reply of GetLeader.
GetLeaderOrSelf(p) == IF role[p] = "candidate" THEN p ELSE leaderId[p]
GetLeader(p) == leaderId[p]

\* A client opens its stream at node n.
Open(s, n) ==
  /\ hops[s] = <<>>
  /\ hops' = [hops EXCEPT ![s] = <<NewHop(n)>>]
  /\ UNCHANGED <<view, accepted, changes>>

\* IsLeader, once per stream.
CheckRole(s, k) ==
  LET h == hops[s][k]
  IN /\ At(s, k, "role") /\ ~wedged[h.node]
     /\ Become(s, k, [h EXCEPT !.st = IF role[h.node] = "leader" THEN "serve" ELSE "lookup"])
     /\ UNCHANGED <<view, accepted, changes>>

LookUp(s, k) ==
  LET h == hops[s][k]
      addr == LeaderAddress(h.node)
  IN /\ At(s, k, "lookup") /\ ~wedged[h.node]
     /\ Become(s, k, IF addr = None THEN [h EXCEPT !.st = "ask", !.left = Peers[h.node]]
                                    ELSE [h EXCEPT !.st = "dial", !.to = addr])
     /\ UNCHANGED <<view, accepted, changes>>

\* DiscoverLeader takes the lock once before it asks the first peer.
MayAsk(h) == h.left # <<>> /\ (h.left = Peers[h.node] => ~wedged[h.node])

\* The next peer answers.  The term in its reply is not looked at.
AskPeer(s, k) ==
  LET h == hops[s][k]
      p == Head(h.left)
  IN /\ At(s, k, "ask") /\ MayAsk(h) /\ ~wedged[p]
     /\ Become(s, k, IF GetLeader(p) = None THEN [h EXCEPT !.left = Tail(@)]
                     ELSE [h EXCEPT !.st = "heard", !.to = GetLeader(p), !.left = <<>>])
     /\ UNCHANGED <<view, accepted, changes>>

SamePeer(left) == left
NextPeer(left) == Tail(left)

\* The dial or the call fails, or two seconds have passed.
AskFails(s, k) ==
  LET h == hops[s][k]
  IN /\ At(s, k, "ask") /\ MayAsk(h)
     /\ Become(s, k, [h EXCEPT !.left = NextPeer(@)])
     /\ UNCHANGED <<view, accepted, changes>>

NobodyKnows(s, k) ==
  /\ At(s, k, "ask") /\ hops[s][k].left = <<>>
  /\ Fail(s, k)
  /\ UNCHANGED <<view, accepted, changes>>

\* The reply is stored, whatever the node has heard since it asked.
Adopt(s, k) ==
  LET h == hops[s][k]
  IN /\ At(s, k, "heard") /\ ~wedged[h.node]
     /\ leaderId' = [leaderId EXCEPT ![h.node] = h.to]
     /\ Become(s, k, [h EXCEPT !.st = "dial"])
     /\ UNCHANGED <<role, wedged, led, accepted, changes>>

-------------------------------------------------------------------------------
(* Forwarding to the node taken for the leader.                            *)

\* The forward stream is open, and a handler runs at the other end.
OpenForward(s, k) ==
  /\ At(s, k, "dial") /\ ~Cancelled(s, k) /\ k < MaxHops
  /\ hops' = [hops EXCEPT ![s] = Append([@ EXCEPT ![k].st = "forward"], NewHop(@[k].to))]
  /\ UNCHANGED <<view, accepted, changes>>

OpenFails(s, k) ==
  /\ At(s, k, "dial")
  /\ Fail(s, k)
  /\ UNCHANGED <<view, accepted, changes>>

\* What handler k can have received by now, and whether nothing follows.
Sent(s, k) == IF k = 1 THEN Length ELSE hops[s][k - 1].got
MoreOrEof(s, k) == hops[s][k].got <= Sent(s, k)
More(s, k) == hops[s][k].got < Sent(s, k)
Ends(s, k) == hops[s][k].got = Sent(s, k) /\ (k > 1 => At(s, k - 1, "close"))

\* One message from the caller to the node ahead.  Send succeeds once the
\* message is buffered, even if the handler ahead is gone.
Forward(s, k) ==
  LET h == hops[s][k]
  IN /\ At(s, k, "forward") /\ More(s, k)
     /\ Become(s, k, [h EXCEPT !.got = @ + 1])
     /\ UNCHANGED <<view, accepted, changes>>

\* The caller's end of stream is passed on, and the answer awaited.
CloseForward(s, k) ==
  /\ At(s, k, "forward") /\ Ends(s, k)
  /\ Become(s, k, [hops[s][k] EXCEPT !.st = "close"])
  /\ UNCHANGED <<view, accepted, changes>>

ReturnAck(s, k) ==
  /\ At(s, k, "close") /\ At(s, k + 1, "acked")
  /\ Become(s, k, [hops[s][k] EXCEPT !.st = "acked", !.last = hops[s][k + 1].last])
  /\ UNCHANGED <<view, accepted, changes>>

\* A Recv, Send or CloseAndRecv fails: the caller or the handler ahead is gone,
\* or a connection broke.
StreamBreaks(s, k) ==
  /\ \E st \in {"forward", "close", "serve"} : At(s, k, st)
  /\ Fail(s, k)
  /\ UNCHANGED <<view, accepted, changes>>

-------------------------------------------------------------------------------
(* The loop of a handler that found its node leader.                       *)

Receive(s, k) ==
  LET h == hops[s][k]
  IN /\ At(s, k, "serve") /\ More(s, k)
     /\ Become(s, k, [h EXCEPT !.st = "submit", !.got = @ + 1, !.last = h.got + 1])
     /\ UNCHANGED <<view, accepted, changes>>

AckStream(s, k) ==
  /\ At(s, k, "serve") /\ Ends(s, k)
  /\ Become(s, k, [hops[s][k] EXCEPT !.st = "acked"])
  /\ UNCHANGED <<view, accepted, changes>>

\* What the loop does when SubmitReading returns an error.
ContinueAfterError == "serve"
AfterError == "error"

\* SubmitReading looks at the role, and refuses or starts to replicate.
Submit(s, k) ==
  LET h == hops[s][k]
  IN /\ At(s, k, "submit") /\ ~wedged[h.node]
     /\ Become(s, k, [h EXCEPT !.st = IF role[h.node] = "leader" THEN "replicate" ELSE AfterError])
     /\ UNCHANGED <<view, accepted, changes>>

\* SubmitReading returns nil: a majority acknowledged the reading.
SubmitSucceeds(s, k) ==
  LET h == hops[s][k]
  IN /\ At(s, k, "replicate") /\ ~wedged[h.node]
     /\ accepted' = [accepted EXCEPT ![s] = Append(@, h.last)]
     /\ Become(s, k, [h EXCEPT !.st = "serve"])
     /\ UNCHANGED <<view, changes>>

SubmitFails(s, k) ==
  /\ At(s, k, "replicate")
  /\ Become(s, k, [hops[s][k] EXCEPT !.st = AfterError])
  /\ UNCHANGED <<view, accepted, changes>>

-------------------------------------------------------------------------------
\* A Raft node changes what it shows, for reasons of its own.
RaftStep ==
  /\ changes < MaxChanges /\ changes' = changes + 1
  /\ \E n \in Node : ViewStep(n)
  /\ UNCHANGED <<hops, accepted>>

\* The process of n starts anew; its handlers are gone.
Crash(n) ==
  /\ changes < MaxChanges /\ changes' = changes + 1
  /\ Restart(n)
  /\ hops' = [s \in Stream |-> [k \in DOMAIN hops[s] |->
                IF hops[s][k].node = n /\ ~Returned(hops[s][k])
                THEN [hops[s][k] EXCEPT !.st = "error"] ELSE hops[s][k]]]
  /\ UNCHANGED accepted

Lookup(s, k) ==
  \/ CheckRole(s, k) \/ LookUp(s, k) \/ AskPeer(s, k) \/ AskFails(s, k)
  \/ NobodyKnows(s, k) \/ Adopt(s, k)

Relay(s, k) ==
  \/ OpenForward(s, k) \/ OpenFails(s, k) \/ Forward(s, k) \/ CloseForward(s, k)
  \/ ReturnAck(s, k) \/ StreamBreaks(s, k)

Serve(s, k) ==
  \/ Receive(s, k) \/ AckStream(s, k) \/ Submit(s, k)
  \/ SubmitSucceeds(s, k) \/ SubmitFails(s, k)

Next ==
  /\ \/ RaftStep
     \/ \E n \in Node : Crash(n) \/ \E s \in Stream : Open(s, n)
     \/ \E s \in Stream, k \in 1..MaxHops : Lookup(s, k) \/ Relay(s, k) \/ Serve(s, k)
  /\ settled' = {s \in Stream : (hops[s] = <<>> \/ s \in settled) /\ Settled'}

Spec == Init /\ [][Next]_<<vars, settled>>

\* A handler notices that its caller is gone when it receives, that the one
\* ahead is gone when it waits for its answer or has another message for it.
Notices(s, k) ==
  /\ \/ Cancelled(s, k)
     \/ At(s, k, "close") /\ At(s, k + 1, "error")
  /\ StreamBreaks(s, k)

\* Handlers run, peers and connections answer or fail in bounded time, the
\* client sends its readings and closes.  SubmitReading returns unless a peer
\* it waits for has locked itself out (RaftProperties!SubmissionReturns).
\* Nothing makes the Raft nodes act.
Fairness ==
  \A s \in Stream, k \in 1..MaxHops :
    /\ WF_vars(Lookup(s, k))
    /\ WF_vars(k < MaxHops /\ (OpenForward(s, k) \/ OpenFails(s, k)))
    /\ WF_vars(Forward(s, k) \/ CloseForward(s, k) \/ ReturnAck(s, k) \/ Notices(s, k))
    /\ WF_vars(Receive(s, k) \/ AckStream(s, k) \/ Submit(s, k))
    /\ WF_vars((\A n \in Node : ~wedged[n]) /\ (SubmitSucceeds(s, k) \/ SubmitFails(s, k)))

FairSpec == Spec /\ Fairness
===============================================================================
