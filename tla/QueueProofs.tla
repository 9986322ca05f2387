---------------------------- MODULE QueueProofs ----------------------------
(***************************************************************************)
(* Lemmas about a queue that is a sequence: what Append, Head and Tail do  *)
(* to its elements.  The queues are the handlers of an io_service          *)
(* (HttpClient) and the connections the kernel holds for an acceptor       *)
(* (HttpServer).                                                           *)
(***************************************************************************)
EXTENDS Naturals, Sequences, SequencesExt, SequenceTheorems, TLAPS

(* An element that is appended is the last one. *)
LEMMA AppendToQueue ==
  ASSUME NEW S, NEW q \in Seq(S), NEW e \in S
  PROVE  /\ Append(q, e) \in Seq(S)
         /\ Len(Append(q, e)) = Len(q) + 1
         /\ \A i \in 1..Len(q) : Append(q, e)[i] = q[i]
         /\ Append(q, e)[Len(q) + 1] = e
         /\ ToSet(Append(q, e)) = ToSet(q) \union {e}
         /\ Append(q, e) # <<>>
<1> DEFINE r == Append(q, e)
<1>1. /\ r \in Seq(S) /\ Len(r) = Len(q) + 1
      /\ \A i \in 1..Len(q) : r[i] = q[i]
      /\ r[Len(q) + 1] = e /\ r # <<>>
  BY AppendProperties
<1>2. /\ DOMAIN r = 1..Len(q) + 1 /\ DOMAIN q = 1..Len(q) /\ Len(q) \in Nat
      /\ 1..Len(q) + 1 = (1..Len(q)) \union {Len(q) + 1}
  BY <1>1, LenProperties
<1>3. ToSet(r) = ToSet(q) \union {e}
  BY <1>1, <1>2 DEF ToSet
<1> QED
  BY <1>1, <1>3

(* The first element leaves, and the others move up. *)
LEMMA TailOfQueue ==
  ASSUME NEW S, NEW q \in Seq(S), q # <<>>
  PROVE  /\ Head(q) = q[1] /\ Head(q) \in S
         /\ Tail(q) \in Seq(S)
         /\ Len(q) \in Nat \ {0} /\ Len(Tail(q)) = Len(q) - 1
         /\ \A i \in 1..Len(q) - 1 : Tail(q)[i] = q[i + 1]
         /\ ToSet(q) = {Head(q)} \union ToSet(Tail(q))
<1> DEFINE r == Tail(q)
<1>1. /\ Head(q) \in S /\ r \in Seq(S) /\ Len(r) = Len(q) - 1
      /\ \A i \in 1..Len(r) : r[i] = q[i + 1]
  BY HeadTailProperties
<1>2. /\ Head(q) = q[1] /\ Len(q) \in Nat \ {0}
      /\ DOMAIN q = 1..Len(q) /\ DOMAIN r = 1..Len(q) - 1
  BY <1>1, LenProperties, EmptySeq
<1>3. \A i \in 1..Len(q) : i = 1 \/ i - 1 \in 1..Len(q) - 1
  BY <1>2
<1>4. ToSet(q) = {q[i] : i \in 1..Len(q)} /\ ToSet(r) = {r[i] : i \in 1..Len(q) - 1}
  BY <1>2 DEF ToSet
<1>5. ASSUME NEW x \in ToSet(q) PROVE x \in {Head(q)} \union ToSet(r)
  <2>1. PICK i \in 1..Len(q) : x = q[i]
    BY <1>4
  <2>2. CASE i = 1
    BY <1>2, <2>1, <2>2
  <2>3. CASE i # 1
    <3>1. i - 1 \in 1..Len(q) - 1 /\ r[i - 1] = q[i]
      BY <1>1, <1>2, <2>3
    <3> QED BY <1>4, <2>1, <3>1
  <2> QED BY <2>2, <2>3
<1>6. ASSUME NEW x \in {Head(q)} \union ToSet(r) PROVE x \in ToSet(q)
  <2>1. CASE x = Head(q)
    BY <1>2, <1>4, <2>1
  <2>2. CASE x \in ToSet(r)
    <3>1. PICK i \in 1..Len(q) - 1 : x = r[i]
      BY <1>4, <2>2
    <3>2. i + 1 \in 1..Len(q) /\ x = q[i + 1]
      BY <1>1, <1>2, <3>1
    <3> QED BY <1>4, <3>2
  <2> QED BY <2>1, <2>2
<1> QED
  BY <1>1, <1>2, <1>5, <1>6

(* A queue of different elements stays one when a new one is appended ...  *)
LEMMA AppendNew ==
  ASSUME NEW S, NEW q \in Seq(S), NEW e \in S, IsInjective(q), e \notin ToSet(q)
  PROVE  IsInjective(Append(q, e))
<1> DEFINE r == Append(q, e)
<1>1. /\ DOMAIN r = 1..Len(q) + 1 /\ DOMAIN q = 1..Len(q) /\ Len(q) \in Nat
      /\ \A i \in 1..Len(q) : r[i] = q[i] /\ q[i] # e
      /\ r[Len(q) + 1] = e
  BY AppendToQueue, LenProperties DEF ToSet
<1>2. ASSUME NEW a \in 1..Len(q) + 1, NEW b \in 1..Len(q) + 1, r[a] = r[b]
      PROVE  a = b
  <2>1. a \in 1..Len(q) \/ a = Len(q) + 1
    BY <1>1
  <2>2. b \in 1..Len(q) \/ b = Len(q) + 1
    BY <1>1
  <2>3. \A i, j \in 1..Len(q) : q[i] = q[j] => i = j
    BY <1>1 DEF IsInjective
  <2> QED
    BY <1>1, <1>2, <2>1, <2>2, <2>3
<1> QED
  BY <1>1, <1>2 DEF IsInjective

(* ... and when the first one leaves, which then is in it no more. *)
LEMMA TailOfDifferent ==
  ASSUME NEW S, NEW q \in Seq(S), q # <<>>, IsInjective(q)
  PROVE  IsInjective(Tail(q)) /\ Head(q) \notin ToSet(Tail(q))
<1> DEFINE r == Tail(q)
<1>1. /\ DOMAIN q = 1..Len(q) /\ DOMAIN r = 1..Len(q) - 1 /\ Len(q) \in Nat
      /\ Head(q) = q[1] /\ 1 \in 1..Len(q)
      /\ \A i \in 1..Len(q) - 1 : r[i] = q[i + 1] /\ i + 1 \in 1..Len(q)
  BY TailOfQueue, LenProperties
<1>2. \A i, j \in 1..Len(q) : q[i] = q[j] => i = j
  BY <1>1 DEF IsInjective
<1>3. \A i, j \in 1..Len(q) - 1 : r[i] = r[j] => i = j
  BY <1>1, <1>2
<1>4. \A i \in 1..Len(q) - 1 : r[i] # Head(q)
  BY <1>1, <1>2
<1> QED
  BY <1>1, <1>3, <1>4 DEF IsInjective, ToSet
===========================================================================
