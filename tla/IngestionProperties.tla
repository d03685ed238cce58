-------------------------- MODULE IngestionProperties --------------------------
(***************************************************************************)
(* What the ingestion service promises its clients, and where a stream can *)
(* travel while the Raft nodes elect, fail and disagree.                   *)
(***************************************************************************)
EXTENDS Ingestion

Hops == [node : Node, st : {"role", "lookup", "ask", "heard", "dial", "forward", "close",
                            "serve", "submit", "replicate", "acked", "error"},
         to : Node \cup {None}, left : Seq(Node), got : 0..Length, last : 0..Length]

\* The type invariant: in particular a handler receives no more than was sent.
TypeOK ==
  /\ role \in [Node -> {"follower", "candidate", "leader"}]
  /\ leaderId \in [Node -> Node \cup {None}]
  /\ wedged \in [Node -> BOOLEAN]
  /\ led \subseteq Node
  /\ hops \in [Stream -> Seq(Hops)]
  /\ accepted \in [Stream -> Seq(1..Length)]
  /\ changes \in Nat
  /\ settled \subseteq Stream

-------------------------------------------------------------------------------
\* A stream is only ever sent to a node that was once elected: no name in
\* leaderId, in a GetLeader reply under way or in the address a handler dials
\* is older than that, though DiscoverLeader stores replies late and a deposed
\* node keeps its own name.
ForwardsToPastLeaders ==
  \A s \in Stream : \A k \in DOMAIN hops[s] : hops[s][k].to \in led \cup {None}

\* While the cluster is settled a stream takes one forward at most and nobody
\* is asked: circles and refusals need an election, a restart or a late reply.
SettledIsDirect ==
  \A s \in settled : \A k \in DOMAIN hops[s] :
    LET h == hops[s][k]
    IN /\ k <= 2 /\ h.st \notin {"ask", "heard"}
       /\ k = 2 => role[h.node] = "leader" /\ h.st # "lookup"

\* The client's view: an acknowledgement carries the last number and means
\* that every reading was accepted, in order and once, wherever the stream
\* went and whichever nodes led meanwhile.  The role is read once per stream;
\* a deposed leader refuses the next reading and leaves a prefix accepted.
Answer == [s \in Stream |->
  IF hops[s] = <<>> \/ ~Returned(hops[s][1]) THEN [st |-> "none", seq |-> 0]
  ELSE IF hops[s][1].st = "acked" THEN [st |-> "ack", seq |-> hops[s][1].last]
  ELSE [st |-> "error", seq |-> 0]]

Clients == INSTANCE ReadingStream WITH answer <- Answer
StreamsAreFaithful == Clients!Spec

\* Every handler of a stream returns, also those whose caller is gone, unless
\* the stream has used up its hops going round or meets a node that has locked
\* itself out, at a handler or among the peers SubmitReading waits for.
Blocked(hop) ==
  \/ wedged[hop.node] /\ ~Returned(hop)
  \/ hop.st = "replicate" /\ \E n \in Node : wedged[n]

StreamEnds ==
  \A s \in Stream :
    hops[s] # <<>> ~> \/ \A k \in DOMAIN hops[s] : Returned(hops[s][k])
                      \/ \E k \in DOMAIN hops[s] : Blocked(hops[s][k])
                      \/ Len(hops[s]) = MaxHops /\ hops[s][MaxHops].st = "dial"
===============================================================================
