---------------------------- MODULE ReadingStream -----------------------------
(***************************************************************************)
(* What a client of the ingestion service may rely on, one stream at a     *)
(* time: its readings are accepted in the order sent, none twice and none  *)
(* left out, and an acknowledgement carries the number of the last reading *)
(* and means that all of them were accepted.  An error promises nothing:   *)
(* readings under way may still be accepted after it.                      *)
(***************************************************************************)
EXTENDS Naturals, Sequences

CONSTANTS Stream, Length  \* a client sends readings 1..Length, then closes

VARIABLES accepted,  \* [Stream -> the readings accepted, in order]
          answer     \* [Stream -> what the client has been told]

Asked == [st |-> "none", seq |-> 0]
Ack(i) == [st |-> "ack", seq |-> i]
Error == [st |-> "error", seq |-> 0]

Init ==
  /\ accepted = [s \in Stream |-> <<>>]
  /\ answer = [s \in Stream |-> Asked]

Accept(s) ==
  /\ answer[s].st # "ack"
  /\ Len(accepted[s]) < Length
  /\ accepted' = [accepted EXCEPT ![s] = Append(@, Len(@) + 1)]
  /\ UNCHANGED answer

Acknowledge(s) ==
  /\ answer[s] = Asked
  /\ Len(accepted[s]) = Length
  /\ answer' = [answer EXCEPT ![s] = Ack(Length)]
  /\ UNCHANGED accepted

\* A process that ends takes all the streams it serves with it.
Refuse(S) ==
  /\ \A s \in S : answer[s] = Asked
  /\ answer' = [s \in Stream |-> IF s \in S THEN Error ELSE answer[s]]
  /\ UNCHANGED accepted

Next ==
  \/ \E s \in Stream : Accept(s) \/ Acknowledge(s)
  \/ \E S \in SUBSET Stream : Refuse(S)

Spec == Init /\ [][Next]_<<accepted, answer>>
===============================================================================
