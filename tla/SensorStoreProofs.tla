------------------------- MODULE SensorStoreProofs -------------------------
(***************************************************************************)
(* Theorems about SensorStore, for any requests and any number of kills.   *)
(*                                                                         *)
(* The invariant names the places a handler can be at by the steps it has  *)
(* left.  A GET has few of them, and file_lock is held in four.  A POST    *)
(* has three: it wants the lock, holds it and is to look for the file, or  *)
(* holds it and wants it once more, where it stays.                        *)
(***************************************************************************)
EXTENDS SensorStoreProperties, SequenceTheorems, TLAPS

Exist == Step("exists")
Acq   == Step("acquire")
Rel   == Step("release")
Rd    == Step("read")
Opn   == Step("open")
Dmp   == [op |-> "dump", adds |-> {}]

Steps == [op : Ops, adds : SUBSET Items]

\* What a GET has left while it does not hold the lock,
Outside(s) ==
  \/ s = <<Exist, Acq, Rd, Rel>>
  \/ s = <<Acq, Rd, Rel>>
  \/ s = <<Acq, Opn, Dmp, Rel, Acq, Rd, Rel>>
  \/ s = << >>

\* between the halves of a write,
Writing(s) == s = <<Dmp, Rel, Acq, Rd, Rel>>

\* and while it holds the lock.
Inside(s) ==
  \/ s = <<Rd, Rel>>
  \/ s = <<Rel>>
  \/ s = <<Opn, Dmp, Rel, Acq, Rd, Rel>>
  \/ Writing(s)
  \/ s = <<Rel, Acq, Rd, Rel>>

\* What a POST has left: before it has the lock, and with it.
Begins(s) == Len(s) > 3 /\ s[1] = Acq /\ s[2] = Exist /\ s[3] = Acq
Blocks(s) == \/ Len(s) > 0 /\ s[1] = Acq
             \/ Len(s) > 1 /\ s[1] = Exist /\ s[2] = Acq

WillRelease(s) == \E i \in DOMAIN s : s[i].op = "release"

Getting(r) ==
  answer[r] = "getting" =>
    \/ Outside(todo[r]) /\ file_lock # r
    \/ Inside(todo[r]) /\ file_lock = r

Posting(r) ==
  answer[r] = "posting" =>
    /\ WillRelease(todo[r])
    /\ \/ Begins(todo[r]) /\ file_lock # r
       \/ Blocks(todo[r]) /\ file_lock = r

Idle(r) == ~Pending(r) => todo[r] = << >> /\ file_lock # r

\* A handler that does not look for the file any more has found or made it.
Found(r) ==
  todo[r] \in {<<Acq, Rd, Rel>>, <<Rd, Rel>>, <<Rel, Acq, Rd, Rel>>} => file # Absent

\* A file half written has its writer, unless that was killed.
TornHasWriter ==
  file = Torn /\ ~tornByKill =>
    \E r \in Requests : answer[r] = "getting" /\ Writing(todo[r]) /\ file_lock = r

Types ==
  /\ file \in {Absent, Torn, Whole}
  /\ file_lock \in Requests \cup {Nobody}
  /\ todo \in [Requests -> Seq(Steps)]
  /\ answer \in [Requests -> {"none", "posting", "getting", "200", "400", "500", "lost"}]
  /\ kills \in 0..MaxKills
  /\ misread \in SUBSET Requests
  /\ tornByKill \in BOOLEAN

Empty == stored = {} /\ data = [r \in Requests |-> {}]

IInv ==
  /\ Types
  /\ Empty
  /\ \A r \in Requests : Getting(r) /\ Posting(r) /\ Idle(r) /\ Found(r)
  /\ TornHasWriter
  /\ MisreadNeedsKill

-----------------------------------------------------------------------------
(* The steps of the handlers, as sequences. *)

LEMMA StepKinds ==
  /\ Exist \in Steps /\ Acq \in Steps /\ Rel \in Steps
  /\ Rd \in Steps /\ Opn \in Steps /\ Dmp \in Steps
  /\ Exist.op = "exists" /\ Acq.op = "acquire" /\ Rel.op = "release"
  /\ Rd.op = "read" /\ Opn.op = "open" /\ Dmp.op = "dump"
  /\ Dmp.adds = {}
BY DEF Exist, Acq, Rel, Rd, Opn, Dmp, Step, Steps, Ops

LEMMA Join1 ==
  ASSUME NEW S, NEW a \in S, NEW t \in Seq(S)
  PROVE  /\ <<a>> \o t \in Seq(S)
         /\ Len(<<a>> \o t) = 1 + Len(t)
         /\ \A i \in 1..(1 + Len(t)) : (<<a>> \o t)[i] = IF i = 1 THEN a ELSE t[i - 1]
<1>1. <<a>> \in Seq(S) /\ Len(<<a>>) = 1 /\ <<a>>[1] = a
  OBVIOUS
<1>2. QED
  BY <1>1, ConcatProperties, LenProperties

LEMMA Join ==
  ASSUME NEW S, NEW s \in Seq(S), NEW t \in Seq(S)
  PROVE  /\ s \o t \in Seq(S)
         /\ Len(s) \in Nat /\ Len(t) \in Nat
         /\ Len(s \o t) = Len(s) + Len(t)
         /\ \A i \in 1..Len(s) : (s \o t)[i] = s[i]
         /\ \A i \in 1..Len(t) : (s \o t)[Len(s) + i] = t[i]
         /\ DOMAIN (s \o t) = 1..(Len(s) + Len(t))
<1>1. /\ s \o t \in Seq(S)
      /\ Len(s \o t) = Len(s) + Len(t)
      /\ \A i \in 1..(Len(s) + Len(t)) : (s \o t)[i] = IF i <= Len(s) THEN s[i] ELSE t[i - Len(s)]
  BY ConcatProperties
<1>2. Len(s) \in Nat /\ Len(t) \in Nat
  BY LenProperties
<1>3. \A i \in 1..Len(t) : Len(s) + i \in 1..(Len(s) + Len(t)) /\ ~(Len(s) + i <= Len(s)) /\ (Len(s) + i) - Len(s) = i
  BY <1>2
<1>4. \A i \in 1..Len(s) : i \in 1..(Len(s) + Len(t)) /\ i <= Len(s)
  BY <1>2
<1>5. QED
  BY <1>1, <1>2, <1>3, <1>4, LenProperties

LEMMA LockedIs ==
  ASSUME NEW t \in Seq(Steps)
  PROVE  /\ Locked(t) \in Seq(Steps)
         /\ Len(Locked(t)) = Len(t) + 2
         /\ Locked(t)[1] = Acq
         /\ \A i \in 1..Len(t) : Locked(t)[i + 1] = t[i]
         /\ Locked(t)[Len(t) + 2] = Rel
<1> DEFINE u == <<Acq>> \o t
<1>1. Locked(t) = u \o <<Rel>>
  BY DEF Locked, Acq, Rel
<1>2. /\ u \in Seq(Steps) /\ Len(u) = 1 + Len(t) /\ Len(t) \in Nat
      /\ \A i \in 1..(1 + Len(t)) : u[i] = IF i = 1 THEN Acq ELSE t[i - 1]
  BY StepKinds, Join1, LenProperties
<1>3. <<Rel>> \in Seq(Steps) /\ Len(<<Rel>>) = 1 /\ <<Rel>>[1] = Rel
  BY StepKinds
<1> HIDE DEF u
<1>4. /\ u \o <<Rel>> \in Seq(Steps)
      /\ Len(u \o <<Rel>>) = Len(t) + 2
      /\ \A i \in 1..(Len(t) + 2) : (u \o <<Rel>>)[i] = IF i <= Len(t) + 1 THEN u[i] ELSE <<Rel>>[i - (Len(t) + 1)]
  BY <1>2, <1>3, ConcatProperties
<1>5. QED
  BY <1>1, <1>2, <1>3, <1>4

LEMMA Locked1 ==
  ASSUME NEW a \in Steps
  PROVE  Locked(<<a>>) = <<Acq, a, Rel>>
<1> DEFINE t == <<a>>
           u == <<Acq, a, Rel>>
<1>1. t \in Seq(Steps) /\ Len(t) = 1 /\ t[1] = a
  OBVIOUS
<1>2. u \in Seq(Steps) /\ Len(u) = 3 /\ u[1] = Acq /\ u[2] = a /\ u[3] = Rel
  BY StepKinds
<1> HIDE DEF t, u
<1>3. /\ Locked(t) \in Seq(Steps) /\ Len(Locked(t)) = 3
      /\ Locked(t)[1] = Acq /\ Locked(t)[1 + 1] = t[1] /\ Locked(t)[1 + 2] = Rel
  <2>1. /\ Locked(t) \in Seq(Steps) /\ Len(Locked(t)) = Len(t) + 2
        /\ Locked(t)[1] = Acq /\ Locked(t)[Len(t) + 2] = Rel
        /\ \A i \in 1..Len(t) : Locked(t)[i + 1] = t[i]
    BY <1>1, LockedIs
  <2>2. QED
    BY <1>1, <2>1
<1>4. \A i \in 1..3 : Locked(t)[i] = u[i]
  BY <1>1, <1>2, <1>3
<1>5. Locked(t) = u
  BY <1>2, <1>3, <1>4, SeqEqual
<1>6. QED
  BY <1>5 DEF t, u

LEMMA Locked2 ==
  ASSUME NEW a \in Steps, NEW b \in Steps
  PROVE  Locked(<<a, b>>) = <<Acq, a, b, Rel>>
<1> DEFINE t == <<a, b>>
           u == <<Acq, a, b, Rel>>
<1>1. t \in Seq(Steps) /\ Len(t) = 2 /\ t[1] = a /\ t[2] = b
  OBVIOUS
<1>2. u \in Seq(Steps) /\ Len(u) = 4 /\ u[1] = Acq /\ u[2] = a /\ u[3] = b /\ u[4] = Rel
  BY StepKinds
<1> HIDE DEF t, u
<1>3. /\ Locked(t) \in Seq(Steps) /\ Len(Locked(t)) = 4
      /\ Locked(t)[1] = Acq /\ Locked(t)[1 + 1] = t[1]
      /\ Locked(t)[2 + 1] = t[2] /\ Locked(t)[2 + 2] = Rel
  <2>1. /\ Locked(t) \in Seq(Steps) /\ Len(Locked(t)) = Len(t) + 2
        /\ Locked(t)[1] = Acq /\ Locked(t)[Len(t) + 2] = Rel
        /\ \A i \in 1..Len(t) : Locked(t)[i + 1] = t[i]
    BY <1>1, LockedIs
  <2>2. QED
    BY <1>1, <2>1
<1>4. \A i \in 1..4 : Locked(t)[i] = u[i]
  BY <1>1, <1>2, <1>3
<1>5. Locked(t) = u
  BY <1>2, <1>3, <1>4, SeqEqual
<1>6. QED
  BY <1>5 DEF t, u

\* A GET: look for the file, then read it under the lock.
LEMMA LoadIs == load_data = <<Exist, Acq, Rd, Rel>>
<1> DEFINE t == <<Acq, Rd, Rel>>
           u == <<Exist, Acq, Rd, Rel>>
<1>1. t \in Seq(Steps) /\ Len(t) = 3 /\ t[1] = Acq /\ t[2] = Rd /\ t[3] = Rel
  BY StepKinds
<1>2. /\ u \in Seq(Steps) /\ Len(u) = 4
      /\ u[1] = Exist /\ u[2] = Acq /\ u[3] = Rd /\ u[4] = Rel
  BY StepKinds
<1>3. load_data = <<Exist>> \o t
  BY StepKinds, Locked1 DEF load_data, init_database, Exist, Rd
<1> HIDE DEF t, u
<1>4. /\ load_data \in Seq(Steps) /\ Len(load_data) = 4
      /\ \A i \in 1..4 : load_data[i] = IF i = 1 THEN Exist ELSE t[i - 1]
  <2>1. /\ <<Exist>> \o t \in Seq(Steps)
        /\ Len(<<Exist>> \o t) = 1 + Len(t)
        /\ \A i \in 1..(1 + Len(t)) : (<<Exist>> \o t)[i] = IF i = 1 THEN Exist ELSE t[i - 1]
    <3>1. Exist \in Steps /\ t \in Seq(Steps)
      BY <1>1, StepKinds
    <3>2. QED
      BY <3>1, Join1
  <2>2. 1 + Len(t) = 4
    BY <1>1
  <2>3. QED
    BY <1>3, <2>1, <2>2
<1>5. \A i \in 1..4 : load_data[i] = u[i]
  BY <1>1, <1>2, <1>4
<1>6. load_data = u
  BY <1>2, <1>4, <1>5, SeqEqual
<1>7. QED
  BY <1>6 DEF u

\* Its look for the file replaced by the creation of the file.
LEMMA CreateIs ==
  Locked(Write({})) \o <<Acq, Rd, Rel>> = <<Acq, Opn, Dmp, Rel, Acq, Rd, Rel>>
<1> DEFINE t == Locked(Write({}))
           u == <<Acq, Rd, Rel>>
           v == <<Acq, Opn, Dmp, Rel, Acq, Rd, Rel>>
<1>1. t = <<Acq, Opn, Dmp, Rel>>
  BY StepKinds, Locked2 DEF Write, Opn, Dmp
<1>2. /\ t \in Seq(Steps) /\ Len(t) = 4
      /\ t[1] = Acq /\ t[2] = Opn /\ t[3] = Dmp /\ t[4] = Rel
  <2> HIDE DEF t
  <2>1. QED
    BY <1>1, StepKinds
<1>3. /\ u \in Seq(Steps) /\ Len(u) = 3 /\ u[1] = Acq /\ u[2] = Rd /\ u[3] = Rel
  BY StepKinds
<1>4. /\ v \in Seq(Steps) /\ Len(v) = 7 /\ v[1] = Acq /\ v[2] = Opn /\ v[3] = Dmp
      /\ v[4] = Rel /\ v[5] = Acq /\ v[6] = Rd /\ v[7] = Rel
  BY StepKinds
<1> HIDE DEF t, u, v
<1>5. /\ t \o u \in Seq(Steps)
      /\ Len(t \o u) = Len(t) + Len(u)
      /\ \A i \in 1..Len(t) : (t \o u)[i] = t[i]
      /\ \A i \in 1..Len(u) : (t \o u)[Len(t) + i] = u[i]
  <2>1. t \in Seq(Steps) /\ u \in Seq(Steps)
    BY <1>2, <1>3
  <2>2. QED
    BY <2>1, Join
<1> DEFINE w == t \o u
<1>6. \A i \in 1..7 : w[i] = v[i]
  <2>1. /\ w[1] = t[1] /\ w[2] = t[2] /\ w[3] = t[3] /\ w[4] = t[4]
        /\ w[5] = u[1] /\ w[6] = u[2] /\ w[7] = u[3]
    <3> HIDE DEF w
    <3>1. /\ \A i \in 1..4 : w[i] = t[i]
          /\ \A i \in 1..3 : w[4 + i] = u[i]
      BY <1>2, <1>3, <1>5 DEF w
    <3>2. w[4 + 1] = u[1] /\ w[4 + 2] = u[2] /\ w[4 + 3] = u[3]
      BY <3>1
    <3>3. QED
      BY <3>1, <3>2
  <2> HIDE DEF w
  <2>2. QED
    BY <1>2, <1>3, <1>4, <2>1
<1>7. w \in Seq(Steps) /\ Len(w) = 7
  BY <1>2, <1>3, <1>5
<1> HIDE DEF w
<1>8. t \o u = v
  BY <1>4, <1>6, <1>7, SeqEqual DEF w
<1>9. QED
  BY <1>8 DEF t, u, v

\* Creation of the file in front of anything takes the lock first.
LEMMA CreatesFirst ==
  ASSUME NEW s \in Seq(Steps)
  PROVE  LET c == Locked(Write({})) \o s
         IN  c \in Seq(Steps) /\ Len(c) > 3 /\ c[1] = Acq /\ WillRelease(c)
<1> DEFINE t == Locked(Write({}))
<1>1. t = <<Acq, Opn, Dmp, Rel>>
  BY StepKinds, Locked2 DEF Write, Opn, Dmp
<1> HIDE DEF t
<1>2. t \in Seq(Steps) /\ Len(t) = 4 /\ t[1] = Acq /\ t[4] = Rel /\ Len(s) \in Nat
  BY <1>1, StepKinds, LenProperties
<1>3. /\ t \o s \in Seq(Steps)
      /\ Len(t \o s) = 4 + Len(s)
      /\ (t \o s)[1] = Acq /\ (t \o s)[4] = Rel
      /\ DOMAIN (t \o s) = 1..(4 + Len(s))
  <2>1. /\ t \o s \in Seq(Steps)
        /\ Len(t \o s) = Len(t) + Len(s)
        /\ \A i \in 1..Len(t) : (t \o s)[i] = t[i]
        /\ DOMAIN (t \o s) = 1..(Len(t) + Len(s))
    <3>1. t \in Seq(Steps)
      BY <1>2
    <3>2. QED
      BY <3>1, Join
  <2>2. QED
    BY <1>2, <2>1
<1>4. QED
  BY <1>3, StepKinds DEF WillRelease, t

LEMMA AddBegins ==
  ASSUME NEW adds \in SUBSET Items
  PROVE  Add(adds) \in Seq(Steps) /\ Begins(Add(adds)) /\ WillRelease(Add(adds))
<1> DEFINE w == Write(adds)
           v == save_data(adds)
           u == load_data \o v
<1>1. w \in Seq(Steps)
  BY StepKinds DEF Write, Opn, Steps, Ops
<1>2. v \in Seq(Steps) /\ Len(v) \in Nat
  BY <1>1, LockedIs, LenProperties DEF save_data
<1>3. /\ load_data \in Seq(Steps) /\ Len(load_data) = 4
      /\ load_data[1] = Exist /\ load_data[2] = Acq
  BY LoadIs, StepKinds
<1> HIDE DEF w, v
<1>4. /\ u \in Seq(Steps) /\ Len(u) = 4 + Len(v) /\ u[1] = Exist /\ u[2] = Acq
  <2>1. /\ u \in Seq(Steps)
        /\ Len(u) = Len(load_data) + Len(v)
        /\ \A i \in 1..Len(load_data) : u[i] = load_data[i]
    <3>1. load_data \in Seq(Steps) /\ v \in Seq(Steps)
      BY <1>2, <1>3
    <3>2. QED
      BY <3>1, Join
  <2> HIDE DEF u
  <2>2. QED
    BY <1>2, <1>3, <2>1
<1>5. Add(adds) = Locked(u)
  BY DEF Add, v
<1> HIDE DEF u
<1>6. /\ Add(adds) \in Seq(Steps) /\ Len(Add(adds)) = Len(u) + 2
      /\ Add(adds)[1] = Acq /\ Add(adds)[2] = Exist /\ Add(adds)[3] = Acq
      /\ Add(adds)[Len(u) + 2] = Rel
  <2>1. \A i \in 1..Len(u) : Locked(u)[i + 1] = u[i]
    BY <1>4, LockedIs
  <2>2. Locked(u)[2] = u[1] /\ Locked(u)[3] = u[2]
    BY <1>2, <1>4, <2>1
  <2>3. QED
    BY <1>4, <1>5, <2>2, LockedIs
<1>7. QED
  BY <1>2, <1>4, <1>6, LenProperties, StepKinds DEF Begins, WillRelease

\* A POST takes the lock, looks for the file, and takes the lock.
LEMMA AcceptBegins ==
  ASSUME NEW r \in Requests, NEW value \in Values
  PROVE  /\ Accept(r, value) \in Seq(Steps)
         /\ Begins(Accept(r, value)) /\ WillRelease(Accept(r, value))
<1> DEFINE s == Add({<<"reading", r>>})
           t == process_reading(r, value)
<1>1. {<<"reading", r>>} \in SUBSET Items /\ {<<"alert", r>>} \in SUBSET Items
  BY DEF Items
<1>2. /\ s \in Seq(Steps) /\ Begins(s) /\ WillRelease(s)
      /\ Len(s) \in Nat /\ DOMAIN s = 1..Len(s)
  BY <1>1, AddBegins, LenProperties
<1>3. t \in Seq(Steps) /\ Len(t) \in Nat
  BY <1>1, AddBegins, LenProperties, EmptySeq DEF process_reading
<1>4. Accept(r, value) = s \o t
  BY DEF Accept
<1> HIDE DEF s, t
<1>5. /\ s \o t \in Seq(Steps) /\ Len(s \o t) = Len(s) + Len(t)
      /\ DOMAIN (s \o t) = 1..(Len(s) + Len(t))
      /\ \A i \in 1..Len(s) : (s \o t)[i] = s[i]
  BY <1>2, <1>3, ConcatProperties, LenProperties
<1>6. QED
  BY <1>2, <1>3, <1>4, <1>5 DEF Begins, WillRelease

-----------------------------------------------------------------------------
(* Where a handler is when it takes a step. *)

\* What is left of each of a GET's sequences after its first step.
LEMMA Heads ==
  /\ Head(<<Exist, Acq, Rd, Rel>>) = Exist
  /\ Head(<<Acq, Rd, Rel>>) = Acq
  /\ Head(<<Rd, Rel>>) = Rd
  /\ Head(<<Rel>>) = Rel
  /\ Head(<<Acq, Opn, Dmp, Rel, Acq, Rd, Rel>>) = Acq
  /\ Head(<<Opn, Dmp, Rel, Acq, Rd, Rel>>) = Opn
  /\ Head(<<Dmp, Rel, Acq, Rd, Rel>>) = Dmp
  /\ Head(<<Rel, Acq, Rd, Rel>>) = Rel
OBVIOUS

LEMMA Tails ==
  /\ Tail(<<Exist, Acq, Rd, Rel>>) = <<Acq, Rd, Rel>>
  /\ Tail(<<Acq, Rd, Rel>>) = <<Rd, Rel>>
  /\ Tail(<<Rd, Rel>>) = <<Rel>>
  /\ Tail(<<Rel>>) = << >>
  /\ Tail(<<Acq, Opn, Dmp, Rel, Acq, Rd, Rel>>) = <<Opn, Dmp, Rel, Acq, Rd, Rel>>
  /\ Tail(<<Opn, Dmp, Rel, Acq, Rd, Rel>>) = <<Dmp, Rel, Acq, Rd, Rel>>
  /\ Tail(<<Dmp, Rel, Acq, Rd, Rel>>) = <<Rel, Acq, Rd, Rel>>
  /\ Tail(<<Rel, Acq, Rd, Rel>>) = <<Acq, Rd, Rel>>
OBVIOUS

\* The same of a POST.
LEMMA PostTails ==
  ASSUME NEW s \in Seq(Steps), s # << >>, WillRelease(s)
  PROVE  /\ Tail(s) \in Seq(Steps)
         /\ Begins(s) => Head(s) = Acq /\ Blocks(Tail(s)) /\ WillRelease(Tail(s))
         /\ Blocks(s) => Head(s) \in {Acq, Exist}
         /\ Blocks(s) /\ Head(s) = Exist => Blocks(Tail(s)) /\ WillRelease(Tail(s))
<1>1. /\ Len(s) \in Nat /\ DOMAIN s = 1..Len(s) /\ Head(s) = s[1]
      /\ Tail(s) \in Seq(Steps) /\ Len(Tail(s)) = Len(s) - 1
      /\ \A i \in 1..Len(Tail(s)) : Tail(s)[i] = s[i + 1]
  BY HeadTailProperties, LenProperties
<1>2. DOMAIN Tail(s) = 1..(Len(s) - 1)
  BY <1>1, LenProperties
<1>3. ASSUME Head(s).op # "release" PROVE WillRelease(Tail(s))
  <2>1. PICK i \in 1..Len(s) : s[i].op = "release"
    BY <1>1 DEF WillRelease
  <2>2. i # 1
    BY <1>1, <1>3, <2>1
  <2>3. i - 1 \in 1..Len(Tail(s)) /\ (i - 1) + 1 = i
    BY <1>1, <2>2
  <2>4. Tail(s)[i - 1] = s[i]
    BY <1>1, <2>3
  <2>5. QED
    BY <1>1, <1>2, <2>1, <2>3, <2>4 DEF WillRelease
<1>4. ASSUME Begins(s) PROVE Head(s) = Acq /\ Blocks(Tail(s))
  <2>1. /\ Len(s) > 3 /\ s[1] = Acq /\ s[2] = Exist /\ s[3] = Acq
    BY <1>4 DEF Begins
  <2>2. Tail(s)[1] = s[1 + 1] /\ Tail(s)[2] = s[2 + 1] /\ Len(Tail(s)) > 1
    BY <1>1, <2>1
  <2>3. QED
    BY <1>1, <2>1, <2>2 DEF Blocks
<1>5. ASSUME Blocks(s) PROVE Head(s) \in {Acq, Exist}
  BY <1>1, <1>5 DEF Blocks
<1>6. ASSUME Blocks(s), Head(s) = Exist PROVE Blocks(Tail(s))
  <2>1. Len(s) > 1 /\ s[2] = Acq
    BY <1>1, <1>6, StepKinds DEF Blocks
  <2>2. Tail(s)[1] = s[1 + 1] /\ Len(Tail(s)) > 0
    BY <1>1, <2>1
  <2>3. QED
    BY <2>1, <2>2 DEF Blocks
<1>7. QED
  BY <1>1, <1>3, <1>4, <1>5, <1>6, StepKinds

\* The places at which each kind of step comes next.
LEMMA Places ==
  ASSUME IInv, NEW r \in Requests, todo[r] # << >>
  PROVE  LET op == Head(todo[r]).op IN
         /\ Pending(r)
         /\ op = "exists" =>
              \/ answer[r] = "getting" /\ file_lock # r /\ todo[r] = <<Exist, Acq, Rd, Rel>>
              \/ answer[r] = "posting" /\ file_lock = r /\ Blocks(todo[r]) /\ Head(todo[r]) = Exist
         /\ op = "acquire" /\ file_lock = Nobody =>
              \/ answer[r] = "getting" /\ todo[r] = <<Acq, Rd, Rel>>
              \/ answer[r] = "getting" /\ todo[r] = <<Acq, Opn, Dmp, Rel, Acq, Rd, Rel>>
              \/ answer[r] = "posting" /\ Begins(todo[r])
         /\ op = "release" =>
              /\ answer[r] = "getting" /\ file_lock = r
              /\ todo[r] \in {<<Rel>>, <<Rel, Acq, Rd, Rel>>}
         /\ op = "read" => answer[r] = "getting" /\ file_lock = r /\ todo[r] = <<Rd, Rel>>
         /\ op = "open" =>
              answer[r] = "getting" /\ file_lock = r /\ todo[r] = <<Opn, Dmp, Rel, Acq, Rd, Rel>>
         /\ op = "dump" => answer[r] = "getting" /\ file_lock = r /\ Writing(todo[r])
<1>1. Pending(r) /\ todo[r] \in Seq(Steps)
  BY DEF IInv, Idle, Types
<1>2. CASE answer[r] = "getting"
  <2>1. \/ Outside(todo[r]) /\ file_lock # r
        \/ Inside(todo[r]) /\ file_lock = r
    BY <1>2 DEF IInv, Getting
  <2>2. r # Nobody
    BY StoreAssumption
  <2>3. QED
    BY <1>1, <1>2, <2>1, <2>2, Heads, StepKinds DEF Outside, Inside, Writing
<1>3. CASE answer[r] = "posting"
  <2>1. /\ WillRelease(todo[r])
        /\ \/ Begins(todo[r]) /\ file_lock # r
           \/ Blocks(todo[r]) /\ file_lock = r
    BY <1>3 DEF IInv, Posting
  <2>2. r # Nobody
    BY StoreAssumption
  <2>3. /\ Begins(todo[r]) => Head(todo[r]) = Acq
        /\ Blocks(todo[r]) => Head(todo[r]) \in {Acq, Exist}
    BY <1>1, <2>1, PostTails
  <2>4. QED
    BY <1>1, <1>3, <2>1, <2>2, <2>3, StepKinds
<1>4. QED
  BY <1>1, <1>2, <1>3 DEF Pending

-----------------------------------------------------------------------------
(* Every step keeps the invariant. *)

InPlace(r) == Getting(r) /\ Posting(r) /\ Idle(r) /\ Found(r)

\* A step of r leaves the other requests where they are.
LEMMA OthersKeep ==
  ASSUME IInv, NEW r \in Requests,
         \A q \in Requests \ {r} : answer'[q] = answer[q] /\ todo'[q] = todo[q],
         \/ file_lock' = file_lock
         \/ file_lock = Nobody /\ file_lock' = r
         \/ file_lock = r /\ file_lock' = Nobody,
         file # Absent => file' # Absent
  PROVE  \A q \in Requests \ {r} : InPlace(q)'
<1> SUFFICES ASSUME NEW q \in Requests, q # r PROVE InPlace(q)'
  OBVIOUS
<1>1. answer'[q] = answer[q] /\ todo'[q] = todo[q] /\ (file_lock' = q <=> file_lock = q)
  BY StoreAssumption
<1>2. InPlace(q)
  BY DEF IInv, InPlace
<1>3. Pending(q)' <=> Pending(q)
  BY <1>1 DEF Pending
<1>4. Getting(q)' /\ Posting(q)' /\ Idle(q)'
  BY <1>1, <1>2, <1>3 DEF InPlace, Getting, Posting, Idle
<1>5. Found(q)'
  BY <1>1, <1>2 DEF InPlace, Found
<1>6. QED
  BY <1>4, <1>5 DEF InPlace

\* The writer of a half-written file is not r, which takes another step.
LEMMA WriterKeeps ==
  ASSUME IInv, NEW r \in Requests,
         \A q \in Requests \ {r} : answer'[q] = answer[q] /\ todo'[q] = todo[q],
         \/ file_lock' = file_lock
         \/ file_lock = Nobody /\ file_lock' = r
         \/ file_lock = r /\ file_lock' = Nobody,
         file' = file, tornByKill' = tornByKill,
         ~(answer[r] = "getting" /\ Writing(todo[r]))
  PROVE  TornHasWriter'
<1> SUFFICES ASSUME file = Torn, ~tornByKill
             PROVE  (\E q \in Requests : answer[q] = "getting" /\ Writing(todo[q]) /\ file_lock = q)'
  BY DEF TornHasWriter
<1>1. PICK q \in Requests : answer[q] = "getting" /\ Writing(todo[q]) /\ file_lock = q
  BY DEF IInv, TornHasWriter
<1>2. q # r /\ file_lock' = q
  BY <1>1, StoreAssumption
<1>3. (answer[q] = "getting" /\ Writing(todo[q]) /\ file_lock = q)'
  BY <1>1, <1>2 DEF Writing
<1>4. QED
  BY <1>3

\* No sequence of a GET is one of the others.
LEMMA Lengths ==
  /\ Len(<<Exist, Acq, Rd, Rel>>) = 4 /\ Len(<<Acq, Rd, Rel>>) = 3
  /\ Len(<<Rd, Rel>>) = 2 /\ Len(<<Rel>>) = 1 /\ Len(<< >>) = 0
  /\ Len(<<Acq, Opn, Dmp, Rel, Acq, Rd, Rel>>) = 7
  /\ Len(<<Opn, Dmp, Rel, Acq, Rd, Rel>>) = 6
  /\ Len(<<Dmp, Rel, Acq, Rd, Rel>>) = 5 /\ Len(<<Rel, Acq, Rd, Rel>>) = 4
OBVIOUS

LEMMA Longer ==
  ASSUME NEW s, Len(s) > 3
  PROVE  s # <<Acq, Rd, Rel>> /\ s # <<Rd, Rel>>
<1>1. ASSUME s = <<Acq, Rd, Rel>> PROVE FALSE
  <2>1. Len(s) = 3
    BY <1>1
  <2>2. QED
    BY <2>1
<1>2. ASSUME s = <<Rd, Rel>> PROVE FALSE
  <2>1. Len(s) = 2
    BY <1>2
  <2>2. QED
    BY <2>1
<1>3. QED
  BY <1>1, <1>2

LEMMA AcqFirst ==
  ASSUME NEW s, Len(s) > 3, s[1] = Acq
  PROVE  s \notin {<<Acq, Rd, Rel>>, <<Rd, Rel>>, <<Rel, Acq, Rd, Rel>>}
<1>1. s # <<Rel, Acq, Rd, Rel>>
  <2>1. <<Rel, Acq, Rd, Rel>>[1] = Rel
    OBVIOUS
  <2>2. QED
    BY <2>1, StepKinds
<1>2. QED
  BY <1>1, Longer

LEMMA InitHolds == Init => IInv
<1> SUFFICES ASSUME Init PROVE IInv
  OBVIOUS
<1>1. Types
  <2>1. todo \in [Requests -> Seq(Steps)]
    BY EmptySeq DEF Init
  <2>2. 0 \in 0..MaxKills
    BY StoreAssumption
  <2>3. QED
    BY <2>1, <2>2 DEF Init, Types
<1>2. \A r \in Requests : Getting(r) /\ Posting(r) /\ Idle(r)
  BY StoreAssumption DEF Init, Getting, Posting, Idle
<1>3. \A r \in Requests : Found(r)
  BY Lengths DEF Init, Found
<1>4. QED
  BY <1>1, <1>2, <1>3 DEF Init, IInv, Empty, TornHasWriter, MisreadNeedsKill, Torn, Absent, Whole

LEMMA PostHolds ==
  ASSUME IInv, NEW r \in Requests, submit_reading(r) PROVE IInv'
<1>1. answer[r] = "none" /\ todo[r] = << >> /\ file_lock # r
  BY DEF IInv, submit_reading, Idle, Pending
<1>2. UNCHANGED <<file, stored, file_lock, data, kills, misread, tornByKill>>
  BY DEF submit_reading
<1>3. \/ /\ todo' = todo
         /\ \E a \in {"400", "500"} : answer' = [answer EXCEPT ![r] = a]
      \/ \E value \in Values : /\ todo' = [todo EXCEPT ![r] = Accept(r, value)]
                                /\ answer' = [answer EXCEPT ![r] = "posting"]
  BY DEF submit_reading
<1>4. Types'
  <2>1. CASE todo' = todo /\ \E a \in {"400", "500"} : answer' = [answer EXCEPT ![r] = a]
    BY <1>2, <2>1 DEF IInv, Types
  <2>2. ASSUME NEW value \in Values, todo' = [todo EXCEPT ![r] = Accept(r, value)],
               answer' = [answer EXCEPT ![r] = "posting"]
        PROVE  Types'
    <3>1. Accept(r, value) \in Seq(Steps)
      BY AcceptBegins
    <3>2. QED
      BY <1>2, <2>2, <3>1 DEF IInv, Types
  <2>3. QED
    BY <1>3, <2>1, <2>2
<1>5. InPlace(r)'
  <2>1. CASE todo' = todo /\ \E a \in {"400", "500"} : answer' = [answer EXCEPT ![r] = a]
    <3>1. todo'[r] = << >> /\ answer'[r] \in {"400", "500"}
      BY <1>1, <2>1 DEF IInv, Types
    <3>2. QED
      BY <1>1, <1>2, <3>1, Lengths DEF InPlace, Getting, Posting, Idle, Found, Pending
  <2>2. CASE \E value \in Values : /\ todo' = [todo EXCEPT ![r] = Accept(r, value)]
                                   /\ answer' = [answer EXCEPT ![r] = "posting"]
    <3>1. PICK value \in Values : todo'[r] = Accept(r, value) /\ answer'[r] = "posting"
      BY <2>2 DEF IInv, Types
    <3>2. Begins(todo'[r]) /\ WillRelease(todo'[r])
      BY <3>1, AcceptBegins
    <3>3. Len(todo'[r]) > 3
      BY <3>2 DEF Begins
    <3>4. Found(r)'
      BY <3>2, <3>3, AcqFirst DEF Found, Begins
    <3>5. QED
      BY <1>1, <1>2, <3>1, <3>2, <3>4 DEF InPlace, Getting, Posting, Idle, Pending, Begins
  <2>3. QED
    BY <1>3, <2>1, <2>2
<1>6. \A q \in Requests \ {r} : answer'[q] = answer[q] /\ todo'[q] = todo[q]
  BY <1>3 DEF IInv, Types
<1>7. \A q \in Requests \ {r} : InPlace(q)'
  BY <1>2, <1>6, OthersKeep
<1>8. TornHasWriter'
  BY <1>1, <1>2, <1>6, WriterKeeps
<1>9. QED
  BY <1>2, <1>4, <1>5, <1>7, <1>8 DEF IInv, InPlace, Empty, MisreadNeedsKill

LEMMA GetHolds ==
  ASSUME IInv, NEW r \in Requests, get_latest(r) PROVE IInv'
<1>1. answer[r] = "none" /\ file_lock # r
  BY DEF IInv, get_latest, Idle, Pending
<1>2. UNCHANGED <<file, stored, file_lock, data, kills, misread, tornByKill>>
  BY DEF get_latest
<1>3. /\ todo' = [todo EXCEPT ![r] = <<Exist, Acq, Rd, Rel>>]
      /\ answer' = [answer EXCEPT ![r] = "getting"]
  BY LoadIs DEF get_latest
<1>4. Types'
  BY <1>2, <1>3, StepKinds DEF IInv, Types
<1>5. todo'[r] = <<Exist, Acq, Rd, Rel>> /\ answer'[r] = "getting"
  BY <1>3 DEF IInv, Types
<1>6. InPlace(r)'
  <2>1. Found(r)'
    BY <1>5, Lengths, Heads, StepKinds DEF Found
  <2>2. QED
    BY <1>1, <1>2, <1>5, <2>1 DEF InPlace, Getting, Posting, Idle, Pending, Outside
<1>7. \A q \in Requests \ {r} : answer'[q] = answer[q] /\ todo'[q] = todo[q]
  BY <1>3 DEF IInv, Types
<1>8. \A q \in Requests \ {r} : InPlace(q)'
  BY <1>2, <1>7, OthersKeep
<1>9. TornHasWriter'
  BY <1>1, <1>2, <1>7, WriterKeeps
<1>10. QED
  BY <1>2, <1>4, <1>6, <1>8, <1>9 DEF IInv, InPlace, Empty, MisreadNeedsKill

LEMMA ExistsHolds ==
  ASSUME IInv, NEW r \in Requests, Exists(r) PROVE IInv'
<1>1. /\ todo[r] # << >> /\ Head(todo[r]).op = "exists"
      /\ UNCHANGED <<file, stored, file_lock, answer, kills, misread, tornByKill>>
  BY DEF Exists, Takes
<1>2. \/ answer[r] = "getting" /\ file_lock # r /\ todo[r] = <<Exist, Acq, Rd, Rel>>
      \/ answer[r] = "posting" /\ file_lock = r /\ Blocks(todo[r]) /\ Head(todo[r]) = Exist
  BY <1>1, Places
<1>3. \/ file # Absent /\ todo' = [todo EXCEPT ![r] = Tail(@)] /\ data' = data
      \/ /\ todo' = [todo EXCEPT ![r] = Locked(Write({})) \o Tail(@)]
         /\ data' = [data EXCEPT ![r] = {}]
  BY DEF Exists, Past
<1>4. todo[r] \in Seq(Steps) /\ Tail(todo[r]) \in Seq(Steps)
  BY <1>1, HeadTailProperties DEF IInv, Types
<1>5. /\ \/ file # Absent /\ todo'[r] = Tail(todo[r])
         \/ todo'[r] = Locked(Write({})) \o Tail(todo[r])
      /\ \A q \in Requests \ {r} : answer'[q] = answer[q] /\ todo'[q] = todo[q]
  BY <1>1, <1>3 DEF IInv, Types
<1>6. Types'
  <2>1. Locked(Write({})) \o Tail(todo[r]) \in Seq(Steps)
    BY <1>4, CreatesFirst
  <2>2. todo' \in [Requests -> Seq(Steps)]
    BY <1>3, <1>4, <2>1 DEF IInv, Types
  <2>3. QED
    BY <1>1, <2>2 DEF IInv, Types
<1>7. Empty'
  BY <1>1, <1>3 DEF IInv, Empty
<1>8. InPlace(r)'
  <2>1. CASE answer[r] = "getting" /\ file_lock # r /\ todo[r] = <<Exist, Acq, Rd, Rel>>
    <3>1. \/ file # Absent /\ todo'[r] = <<Acq, Rd, Rel>>
          \/ todo'[r] = <<Acq, Opn, Dmp, Rel, Acq, Rd, Rel>>
      BY <1>5, <2>1, Tails, CreateIs
    <3>2. Found(r)'
      <4>1. CASE todo'[r] = <<Acq, Opn, Dmp, Rel, Acq, Rd, Rel>>
        <5>1. Len(todo'[r]) = 7 /\ todo'[r][1] = Acq
          BY <4>1
        <5>2. Len(todo'[r]) > 3
          BY <5>1
        <5>3. QED
          BY <5>1, <5>2, AcqFirst DEF Found
      <4>2. QED
        BY <1>1, <3>1, <4>1 DEF Found
    <3>3. QED
      BY <1>1, <2>1, <3>1, <3>2 DEF InPlace, Getting, Posting, Idle, Pending, Outside
  <2>2. CASE answer[r] = "posting" /\ file_lock = r /\ Blocks(todo[r]) /\ Head(todo[r]) = Exist
    <3>1. WillRelease(todo[r])
      BY <2>2 DEF IInv, Posting
    <3>2. Blocks(Tail(todo[r])) /\ WillRelease(Tail(todo[r]))
      BY <1>1, <1>4, <2>2, <3>1, PostTails
    <3>3. /\ Blocks(todo'[r]) /\ WillRelease(todo'[r])
          /\ file # Absent \/ (Len(todo'[r]) > 3 /\ todo'[r][1] = Acq)
      <4>1. CASE file # Absent /\ todo'[r] = Tail(todo[r])
        BY <3>2, <4>1
      <4>2. CASE todo'[r] = Locked(Write({})) \o Tail(todo[r])
        <5>1. /\ Len(todo'[r]) > 3 /\ todo'[r][1] = Acq /\ WillRelease(todo'[r])
              /\ todo'[r] \in Seq(Steps)
          BY <1>4, <4>2, CreatesFirst
        <5>2. Len(todo'[r]) > 0
          BY <5>1, LenProperties
        <5>3. QED
          BY <5>1, <5>2 DEF Blocks
      <4>3. QED
        BY <1>5, <4>1, <4>2
    <3>4. Found(r)'
      BY <1>1, <3>3, AcqFirst DEF Found
    <3>5. QED
      BY <1>1, <2>2, <3>3, <3>4 DEF InPlace, Getting, Posting, Idle, Pending
  <2>3. QED
    BY <1>2, <2>1, <2>2
<1>9. \A q \in Requests \ {r} : InPlace(q)'
  BY <1>1, <1>5, OthersKeep
<1>10. TornHasWriter'
  <2>1. ~(answer[r] = "getting" /\ Writing(todo[r]))
    BY <1>2, Heads, StepKinds DEF Writing
  <2>2. QED
    BY <1>1, <1>5, <2>1, WriterKeeps
<1>11. QED
  BY <1>1, <1>6, <1>7, <1>8, <1>9, <1>10 DEF IInv, InPlace, MisreadNeedsKill

\* What the steps that only move on have in common.
LEMMA Moves ==
  ASSUME IInv, NEW r \in Requests, NEW op, Takes(r, op), Past(r)
  PROVE  /\ todo[r] # << >> /\ Head(todo[r]).op = op
         /\ UNCHANGED <<answer, kills, tornByKill>>
         /\ todo[r] \in Seq(Steps) /\ todo' \in [Requests -> Seq(Steps)]
         /\ todo'[r] = Tail(todo[r])
         /\ \A q \in Requests \ {r} : answer'[q] = answer[q] /\ todo'[q] = todo[q]
<1>1. /\ todo[r] # << >> /\ Head(todo[r]).op = op
      /\ UNCHANGED <<answer, kills, tornByKill>>
      /\ todo' = [todo EXCEPT ![r] = Tail(todo[r])]
  BY DEF Takes, Past
<1>2. todo[r] \in Seq(Steps) /\ Tail(todo[r]) \in Seq(Steps)
  BY <1>1, HeadTailProperties DEF IInv, Types
<1>3. QED
  BY <1>1, <1>2 DEF IInv, Types

LEMMA AcquireHolds ==
  ASSUME IInv, NEW r \in Requests, Acquire(r) PROVE IInv'
<1>1. /\ Takes(r, "acquire") /\ Past(r)
      /\ file_lock = Nobody /\ file_lock' = r
      /\ UNCHANGED <<file, stored, data, misread>>
  BY DEF Acquire
<1>2. /\ todo[r] # << >> /\ Head(todo[r]).op = "acquire"
      /\ UNCHANGED <<answer, kills, tornByKill>>
      /\ todo[r] \in Seq(Steps) /\ todo' \in [Requests -> Seq(Steps)]
      /\ todo'[r] = Tail(todo[r])
      /\ \A q \in Requests \ {r} : answer'[q] = answer[q] /\ todo'[q] = todo[q]
  BY <1>1, Moves
<1>3. \/ answer[r] = "getting" /\ todo[r] = <<Acq, Rd, Rel>>
      \/ answer[r] = "getting" /\ todo[r] = <<Acq, Opn, Dmp, Rel, Acq, Rd, Rel>>
      \/ answer[r] = "posting" /\ Begins(todo[r])
  BY <1>1, <1>2, Places
<1>4. Types'
  BY <1>1, <1>2 DEF IInv, Types
<1>5. InPlace(r)'
  <2>1. CASE answer[r] = "getting" /\ todo[r] = <<Acq, Rd, Rel>>
    <3>1. todo'[r] = <<Rd, Rel>> /\ file # Absent
      BY <1>2, <2>1, Tails DEF IInv, Found
    <3>2. QED
      BY <1>1, <1>2, <2>1, <3>1 DEF InPlace, Getting, Posting, Idle, Pending, Inside, Found
  <2>2. CASE answer[r] = "getting" /\ todo[r] = <<Acq, Opn, Dmp, Rel, Acq, Rd, Rel>>
    <3>1. todo'[r] = <<Opn, Dmp, Rel, Acq, Rd, Rel>>
      BY <1>2, <2>2, Tails
    <3>2. Found(r)'
      BY <3>1 DEF Found
    <3>3. QED
      BY <1>1, <1>2, <2>2, <3>1, <3>2 DEF InPlace, Getting, Posting, Idle, Pending, Inside
  <2>3. CASE answer[r] = "posting" /\ Begins(todo[r])
    <3>1. WillRelease(todo[r])
      BY <2>3 DEF IInv, Posting
    <3>2. Blocks(todo'[r]) /\ WillRelease(todo'[r])
      BY <1>2, <2>3, <3>1, PostTails
    <3>3. todo'[r][1] = Exist
      <4>1. Len(todo[r]) > 3 /\ todo[r][2] = Exist
        BY <2>3 DEF Begins
      <4>2. 1 \in 1..Len(Tail(todo[r])) /\ Tail(todo[r])[1] = todo[r][1 + 1]
        BY <1>2, <4>1, HeadTailProperties, LenProperties
      <4>3. QED
        BY <1>2, <4>1, <4>2
    <3>4. Found(r)'
      BY <3>3, StepKinds DEF Found
    <3>5. QED
      BY <1>1, <1>2, <2>3, <3>2, <3>4 DEF InPlace, Getting, Posting, Idle, Pending
  <2>4. QED
    BY <1>3, <2>1, <2>2, <2>3
<1>6. \A q \in Requests \ {r} : InPlace(q)'
  BY <1>1, <1>2, OthersKeep
<1>7. TornHasWriter'
  <2>1. ~(answer[r] = "getting" /\ Writing(todo[r]))
    BY <1>2, Heads, StepKinds DEF Writing
  <2>2. QED
    BY <1>1, <1>2, <2>1, WriterKeeps
<1>8. QED
  BY <1>1, <1>2, <1>4, <1>5, <1>6, <1>7 DEF IInv, InPlace, Empty, MisreadNeedsKill

LEMMA ReleaseHolds ==
  ASSUME IInv, NEW r \in Requests, Release(r) PROVE IInv'
<1>1. /\ Takes(r, "release") /\ Past(r)
      /\ file_lock' = Nobody
      /\ UNCHANGED <<file, stored, data, misread>>
  BY DEF Release
<1>2. /\ todo[r] # << >> /\ Head(todo[r]).op = "release"
      /\ UNCHANGED <<answer, kills, tornByKill>>
      /\ todo[r] \in Seq(Steps) /\ todo' \in [Requests -> Seq(Steps)]
      /\ todo'[r] = Tail(todo[r])
      /\ \A q \in Requests \ {r} : answer'[q] = answer[q] /\ todo'[q] = todo[q]
  BY <1>1, Moves
<1>3. /\ answer[r] = "getting" /\ file_lock = r
      /\ todo[r] \in {<<Rel>>, <<Rel, Acq, Rd, Rel>>}
  BY <1>2, Places
<1>4. Types'
  BY <1>1, <1>2 DEF IInv, Types
<1>5. InPlace(r)'
  <2>1. CASE todo[r] = <<Rel>>
    <3>1. todo'[r] = << >>
      BY <1>2, <2>1, Tails
    <3>2. Found(r)'
      BY <3>1, Lengths DEF Found
    <3>3. QED
      BY <1>1, <1>2, <1>3, <3>1, <3>2, StoreAssumption DEF InPlace, Getting, Posting, Idle, Pending, Outside
  <2>2. CASE todo[r] = <<Rel, Acq, Rd, Rel>>
    <3>1. todo'[r] = <<Acq, Rd, Rel>> /\ file # Absent
      BY <1>2, <2>2, Tails DEF IInv, Found
    <3>2. QED
      BY <1>1, <1>2, <1>3, <3>1, StoreAssumption DEF InPlace, Getting, Posting, Idle, Pending, Outside, Found
  <2>3. QED
    BY <1>3, <2>1, <2>2
<1>6. \A q \in Requests \ {r} : InPlace(q)'
  BY <1>1, <1>2, <1>3, OthersKeep
<1>7. TornHasWriter'
  <2>1. ~(answer[r] = "getting" /\ Writing(todo[r]))
    BY <1>2, Heads, StepKinds DEF Writing
  <2>2. QED
    BY <1>1, <1>2, <1>3, <2>1, WriterKeeps
<1>8. QED
  BY <1>1, <1>2, <1>4, <1>5, <1>6, <1>7 DEF IInv, InPlace, Empty, MisreadNeedsKill

LEMMA ReadHolds ==
  ASSUME IInv, NEW r \in Requests, Read(r) PROVE IInv'
<1>1. /\ Takes(r, "read") /\ Past(r)
      /\ UNCHANGED <<file, stored, file_lock>>
      /\ \/ /\ data' = [data EXCEPT ![r] = stored]
            /\ misread' = misread
         \/ /\ file # Whole
            /\ data' = [data EXCEPT ![r] = {}]
            /\ misread' = misread \cup {r}
  BY DEF Read
<1>2. /\ todo[r] # << >> /\ Head(todo[r]).op = "read"
      /\ UNCHANGED <<answer, kills, tornByKill>>
      /\ todo[r] \in Seq(Steps) /\ todo' \in [Requests -> Seq(Steps)]
      /\ todo'[r] = Tail(todo[r])
      /\ \A q \in Requests \ {r} : answer'[q] = answer[q] /\ todo'[q] = todo[q]
  BY <1>1, Moves
<1>3. answer[r] = "getting" /\ file_lock = r /\ todo[r] = <<Rd, Rel>>
  BY <1>2, Places
<1>4. Types'
  BY <1>1, <1>2 DEF IInv, Types
<1>5. Empty'
  BY <1>1 DEF IInv, Empty
<1>6. InPlace(r)'
  <2>1. todo'[r] = <<Rel>>
    BY <1>2, <1>3, Tails
  <2>2. Found(r)'
    BY <2>1, Lengths DEF Found
  <2>3. QED
    BY <1>1, <1>2, <1>3, <2>1, <2>2 DEF InPlace, Getting, Posting, Idle, Pending, Inside
<1>7. \A q \in Requests \ {r} : InPlace(q)'
  BY <1>1, <1>2, OthersKeep
<1>8. TornHasWriter'
  <2>1. ~(answer[r] = "getting" /\ Writing(todo[r]))
    BY <1>2, Heads, StepKinds DEF Writing
  <2>2. QED
    BY <1>1, <1>2, <2>1, WriterKeeps
\* r holds the lock, so that the file has no writer.
<1>9. MisreadNeedsKill'
  <2>1. CASE misread' = misread
    BY <1>2, <2>1 DEF IInv, MisreadNeedsKill
  <2>2. CASE file # Whole
    <3>1. file = Torn
      BY <1>3, <2>2 DEF IInv, Found, Types
    <3>2. tornByKill
      <4>1. SUFFICES ASSUME ~tornByKill PROVE FALSE
        OBVIOUS
      <4>2. PICK q \in Requests : Writing(todo[q]) /\ file_lock = q
        BY <3>1, <4>1 DEF IInv, TornHasWriter
      <4>3. Head(todo[r]) = Dmp
        BY <1>3, <4>2, Heads DEF Writing
      <4>4. QED
        BY <1>2, <4>3, StepKinds
    <3>3. QED
      BY <1>2, <3>2 DEF MisreadNeedsKill
  <2>3. QED
    BY <1>1, <2>1, <2>2
<1>10. QED
  BY <1>1, <1>2, <1>4, <1>5, <1>6, <1>7, <1>8, <1>9 DEF IInv, InPlace, Empty

LEMMA OpenHolds ==
  ASSUME IInv, NEW r \in Requests, Open(r) PROVE IInv'
<1>1. /\ Takes(r, "open") /\ Past(r)
      /\ file' = Torn /\ stored' = {}
      /\ UNCHANGED <<file_lock, data, misread>>
  BY DEF Open
<1>2. /\ todo[r] # << >> /\ Head(todo[r]).op = "open"
      /\ UNCHANGED <<answer, kills, tornByKill>>
      /\ todo[r] \in Seq(Steps) /\ todo' \in [Requests -> Seq(Steps)]
      /\ todo'[r] = Tail(todo[r])
      /\ \A q \in Requests \ {r} : answer'[q] = answer[q] /\ todo'[q] = todo[q]
  BY <1>1, Moves
<1>3. answer[r] = "getting" /\ file_lock = r /\ todo[r] = <<Opn, Dmp, Rel, Acq, Rd, Rel>>
  BY <1>2, Places
<1>4. Types'
  BY <1>1, <1>2 DEF IInv, Types
<1>5. todo'[r] = <<Dmp, Rel, Acq, Rd, Rel>> /\ file' # Absent
  BY <1>1, <1>2, <1>3, Tails DEF Torn, Absent
<1>6. InPlace(r)'
  BY <1>1, <1>2, <1>3, <1>5 DEF InPlace, Getting, Posting, Idle, Pending, Inside, Writing, Found
<1>7. \A q \in Requests \ {r} : InPlace(q)'
  BY <1>1, <1>2, <1>5, OthersKeep
<1>8. TornHasWriter'
  BY <1>1, <1>2, <1>3, <1>5 DEF TornHasWriter, Writing
<1>9. QED
  BY <1>1, <1>2, <1>4, <1>6, <1>7, <1>8 DEF IInv, InPlace, Empty, MisreadNeedsKill

LEMMA DumpHolds ==
  ASSUME IInv, NEW r \in Requests, Dump(r) PROVE IInv'
<1>1. /\ Takes(r, "dump") /\ Past(r)
      /\ file' = Whole
      /\ stored' = data[r] \cup Head(todo[r]).adds
      /\ data' = [data EXCEPT ![r] = stored']
      /\ UNCHANGED <<file_lock, misread>>
  BY DEF Dump
<1>2. /\ todo[r] # << >> /\ Head(todo[r]).op = "dump"
      /\ UNCHANGED <<answer, kills, tornByKill>>
      /\ todo[r] \in Seq(Steps) /\ todo' \in [Requests -> Seq(Steps)]
      /\ todo'[r] = Tail(todo[r])
      /\ \A q \in Requests \ {r} : answer'[q] = answer[q] /\ todo'[q] = todo[q]
  BY <1>1, Moves
<1>3. answer[r] = "getting" /\ file_lock = r /\ todo[r] = <<Dmp, Rel, Acq, Rd, Rel>>
  BY <1>2, Places DEF Writing
<1>4. Types'
  BY <1>1, <1>2 DEF IInv, Types
<1>5. Empty'
  <2>1. Head(todo[r]).adds = {} /\ data[r] = {}
    BY <1>3, Heads, StepKinds DEF IInv, Empty
  <2>2. stored' = {}
    BY <1>1, <2>1
  <2>3. data' = [q \in Requests |-> {}]
    BY <1>1, <2>2 DEF IInv, Empty
  <2>4. QED
    BY <2>2, <2>3 DEF Empty
<1>6. todo'[r] = <<Rel, Acq, Rd, Rel>> /\ file' # Absent /\ file' # Torn
  BY <1>1, <1>2, <1>3, Tails DEF Torn, Absent, Whole
<1>7. InPlace(r)'
  BY <1>1, <1>2, <1>3, <1>6 DEF InPlace, Getting, Posting, Idle, Pending, Inside, Found
<1>8. \A q \in Requests \ {r} : InPlace(q)'
  BY <1>1, <1>2, <1>6, OthersKeep
<1>9. TornHasWriter'
  BY <1>6 DEF TornHasWriter
<1>10. QED
  BY <1>1, <1>2, <1>4, <1>5, <1>7, <1>8, <1>9 DEF IInv, InPlace, MisreadNeedsKill

LEMMA ReplyHolds ==
  ASSUME IInv, NEW r \in Requests, Reply(r) PROVE IInv'
<1>1. /\ Pending(r) /\ todo[r] = << >>
      /\ answer' = [answer EXCEPT ![r] = IF @ = "posting" THEN "201" ELSE "200"]
      /\ UNCHANGED <<file, stored, file_lock, todo, data, kills, misread, tornByKill>>
  BY DEF Reply
\* A POST has steps left.
<1>2. answer[r] = "getting"
  <2>1. SUFFICES ASSUME answer[r] = "posting" PROVE FALSE
    BY <1>1 DEF Pending
  <2>2. WillRelease(todo[r])
    BY <2>1 DEF IInv, Posting
  <2>3. QED
    BY <1>1, <2>2 DEF WillRelease
<1>3. answer' = [answer EXCEPT ![r] = "200"]
  BY <1>1, <1>2
<1>4. /\ answer'[r] = "200"
      /\ \A q \in Requests \ {r} : answer'[q] = answer[q] /\ todo'[q] = todo[q]
  BY <1>1, <1>3 DEF IInv, Types
<1>5. Types'
  BY <1>1, <1>3 DEF IInv, Types
<1>6. file_lock # r
  <2>1. \/ Outside(todo[r]) /\ file_lock # r
        \/ Inside(todo[r]) /\ file_lock = r
    BY <1>2 DEF IInv, Getting
  <2>2. ~Inside(todo[r])
    BY <1>1, Lengths DEF Inside, Writing
  <2>3. QED
    BY <2>1, <2>2
<1>7. InPlace(r)'
  BY <1>1, <1>4, <1>6 DEF IInv, InPlace, Getting, Posting, Idle, Pending, Found
<1>8. \A q \in Requests \ {r} : InPlace(q)'
  BY <1>1, <1>4, OthersKeep
<1>9. TornHasWriter'
  <2>1. ~(answer[r] = "getting" /\ Writing(todo[r]))
    BY <1>1, Lengths DEF Writing
  <2>2. QED
    BY <1>1, <1>4, <2>1, WriterKeeps
<1>10. QED
  BY <1>1, <1>5, <1>7, <1>8, <1>9 DEF IInv, InPlace, Empty, MisreadNeedsKill

LEMMA KillHolds ==
  ASSUME IInv, Kill PROVE IInv'
<1>1. /\ kills < MaxKills /\ kills' = kills + 1
      /\ file_lock' = Nobody
      /\ todo' = [r \in Requests |-> << >>]
      /\ answer' = [r \in Requests |-> IF Pending(r) THEN "lost" ELSE answer[r]]
      /\ tornByKill' = (tornByKill \/ file = Torn)
      /\ UNCHANGED <<file, stored, data, misread>>
  BY DEF Kill
<1>2. \A r \in Requests : todo'[r] = << >> /\ answer'[r] \notin {"posting", "getting"}
  BY <1>1 DEF Pending
<1>3. Types'
  <2>1. kills' \in 0..MaxKills
    BY <1>1, StoreAssumption DEF IInv, Types
  <2>2. todo' \in [Requests -> Seq(Steps)]
    BY <1>1, EmptySeq
  <2>3. answer' \in [Requests -> {"none", "posting", "getting", "200", "400", "500", "lost"}]
    BY <1>1 DEF IInv, Types
  <2>4. tornByKill' \in BOOLEAN
    BY <1>1 DEF IInv, Types
  <2>5. QED
    BY <1>1, <2>1, <2>2, <2>3, <2>4 DEF IInv, Types
<1>4. ASSUME NEW r \in Requests PROVE InPlace(r)'
  <2>1. todo'[r] = << >> /\ answer'[r] \notin {"posting", "getting"} /\ file_lock' # r
    BY <1>1, <1>2, StoreAssumption
  <2>2. Found(r)'
    BY <2>1, Lengths DEF Found
  <2>3. QED
    BY <2>1, <2>2 DEF InPlace, Getting, Posting, Idle
<1>5. TornHasWriter'
  BY <1>1 DEF TornHasWriter
<1>6. MisreadNeedsKill'
  BY <1>1 DEF IInv, MisreadNeedsKill
<1>7. QED
  BY <1>1, <1>3, <1>4, <1>5, <1>6 DEF IInv, InPlace, Empty

(* The invariant holds of every behaviour. *)
THEOREM Invariance == Spec => []IInv
<1>1. IInv /\ [Next]_vars => IInv'
  <2> SUFFICES ASSUME IInv, [Next]_vars PROVE IInv'
    OBVIOUS
  <2>1. CASE UNCHANGED vars
    BY <2>1 DEF vars, IInv, Types, Empty, Getting, Posting, Idle, Found, Pending,
                TornHasWriter, MisreadNeedsKill, Outside, Inside, Writing
  <2>2. ASSUME NEW r \in Requests, submit_reading(r) \/ get_latest(r) PROVE IInv'
    BY <2>2, PostHolds, GetHolds
  <2>3. ASSUME NEW r \in Requests, Handler(r) PROVE IInv'
    BY <2>3, ExistsHolds, AcquireHolds, ReleaseHolds, ReadHolds, OpenHolds, DumpHolds, ReplyHolds
       DEF Handler
  <2>4. QED
    BY <2>1, <2>2, <2>3, KillHolds DEF Next
<1>2. QED
  BY <1>1, InitHolds, PTL DEF Spec

(* Every variable has its type, and file_lock is held only by a handler    *)
(* that is yet to release it.                                              *)
THEOREM TypeCorrect == Spec => []TypeOK
<1>1. ASSUME IInv PROVE TypeOK
  <2>1. \A r \in Requests : file_lock = r => WillRelease(todo[r])
    <3> SUFFICES ASSUME NEW r \in Requests, file_lock = r PROVE WillRelease(todo[r])
      OBVIOUS
    <3>1. Pending(r)
      BY <1>1 DEF IInv, Idle
    <3>2. CASE answer[r] = "posting"
      BY <1>1, <3>2 DEF IInv, Posting
    <3>3. CASE answer[r] = "getting"
      <4>1. Inside(todo[r])
        BY <1>1, <3>3 DEF IInv, Getting
      <4>2. \A s : Inside(s) => \E i \in DOMAIN s : s[i] = Rel
        <5>1. 2 \in DOMAIN <<Rd, Rel>> /\ <<Rd, Rel>>[2] = Rel
          OBVIOUS
        <5>2. 1 \in DOMAIN <<Rel>> /\ <<Rel>>[1] = Rel
          OBVIOUS
        <5>3. 3 \in DOMAIN <<Opn, Dmp, Rel, Acq, Rd, Rel>> /\ <<Opn, Dmp, Rel, Acq, Rd, Rel>>[3] = Rel
          OBVIOUS
        <5>4. 2 \in DOMAIN <<Dmp, Rel, Acq, Rd, Rel>> /\ <<Dmp, Rel, Acq, Rd, Rel>>[2] = Rel
          OBVIOUS
        <5>5. 1 \in DOMAIN <<Rel, Acq, Rd, Rel>> /\ <<Rel, Acq, Rd, Rel>>[1] = Rel
          OBVIOUS
        <5>6. QED
          BY <5>1, <5>2, <5>3, <5>4, <5>5, Zenon DEF Inside, Writing
      <4>3. QED
        BY <4>1, <4>2, StepKinds DEF WillRelease
    <3>4. QED
      BY <3>1, <3>2, <3>3 DEF Pending
  <2>2. stored \in SUBSET Items /\ data \in [Requests -> SUBSET Items]
    BY <1>1 DEF IInv, Empty
  <2>3. answer \in [Requests -> {"none", "posting", "getting", "200", "201", "400", "500", "lost"}]
    BY <1>1 DEF IInv, Types
  <2>4. QED
    BY <1>1, <2>1, <2>2, <2>3 DEF IInv, Types, TypeOK, WillRelease, Steps
<1>2. QED
  BY <1>1, Invariance, PTL

(* load_data finds a file it cannot parse only after a kill in a write.    *)
THEOREM MisreadsComeFromKills == Spec => []MisreadNeedsKill
<1>1. IInv => MisreadNeedsKill
  BY DEF IInv
<1>2. QED
  BY <1>1, Invariance, PTL

(* add_reading takes file_lock and calls load_data, which takes it again   *)
(* (database.py:41-42): whatever the order of the requests and wherever    *)
(* the process is killed, no reading is stored and no POST is answered     *)
(* 201.  A run shows that a POST may hang; this is that none does not.     *)
THEOREM NoPostCompletes == Spec => [](stored = {} /\ \A r \in Requests : answer[r] # "201")
<1>1. IInv => stored = {} /\ \A r \in Requests : answer[r] # "201"
  BY DEF IInv, Types, Empty
<1>2. QED
  BY <1>1, Invariance, PTL
=============================================================================
