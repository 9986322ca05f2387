--------------------------- MODULE ExchangeProofs ---------------------------
(***************************************************************************)
(* Theorems about Exchange, RequestParser and Reply, for every set of      *)
(* messages and every way to cut them into pieces: the invariants of the   *)
(* run.                                                                    *)
(***************************************************************************)
EXTENDS Exchange, SequenceTheorems, FiniteSetTheorems, WellFoundedInduction, TLAPS

(* Sequences *)

(* A set of natural numbers that is not empty has a least element. *)
LEMMA LeastExists ==
  ASSUME NEW S \in SUBSET Nat, S # {}
  PROVE  Min(S) \in S /\ \A i \in S : Min(S) <= i
<1>1. PICK m \in S : \A i \in S : ~(<<i, m>> \in OpToRel(<, Nat))
  BY NatLessThanWellFounded, WFMin
<1>2. \A i, k \in Nat : i < k => <<i, k>> \in OpToRel(<, Nat)
  BY Zenon DEF OpToRel
<1>3. \A i \in S : ~(i < m)
  BY <1>1, <1>2, Zenon
<1>4. \A i \in S : m <= i
  BY <1>3
<1> QED
  BY <1>4 DEF Min

(* The elements of two sequences, one behind the other. *)
LEMMA Joined ==
  ASSUME NEW S, NEW s \in Seq(S), NEW t \in Seq(S)
  PROVE  /\ s \o t \in Seq(S) /\ Len(s \o t) = Len(s) + Len(t)
         /\ \A i \in 1..Len(s) : (s \o t)[i] = s[i]
         /\ \A i \in 1..Len(t) : (s \o t)[Len(s) + i] = t[i]
<1>1. Len(s) \in Nat /\ Len(t) \in Nat
  BY LenProperties
<1>2. /\ s \o t \in Seq(S) /\ Len(s \o t) = Len(s) + Len(t)
      /\ \A i \in 1..Len(s) + Len(t) :
           (s \o t)[i] = IF i <= Len(s) THEN s[i] ELSE t[i - Len(s)]
  BY ConcatProperties
<1>3. ASSUME NEW i \in 1..Len(s) PROVE (s \o t)[i] = s[i]
  BY <1>1, <1>2
<1>4. ASSUME NEW i \in 1..Len(t) PROVE (s \o t)[Len(s) + i] = t[i]
  <2>1. Len(s) + i \in 1..Len(s) + Len(t) /\ ~(Len(s) + i <= Len(s)) /\ (Len(s) + i) - Len(s) = i
    BY <1>1
  <2> QED
    BY <1>2, <2>1
<1> QED
  BY <1>2, <1>3, <1>4

(* The first n elements of a sequence. *)
LEMMA FrontOf ==
  ASSUME NEW S, NEW s \in Seq(S), NEW n \in 0..Len(s)
  PROVE  /\ SubSeq(s, 1, n) \in Seq(S) /\ Len(SubSeq(s, 1, n)) = n
         /\ \A i \in 1..n : SubSeq(s, 1, n)[i] = s[i]
         /\ n = 0 => SubSeq(s, 1, n) = <<>>
         /\ n = Len(s) => SubSeq(s, 1, n) = s
<1>1. Len(s) \in Nat /\ n \in Int /\ 1 \in Int
  BY LenProperties
<1>2. \A i \in 1..n : s[i] \in S
  BY <1>1, ElementOfSeq
<1>3. /\ SubSeq(s, 1, n) \in Seq(S)
      /\ Len(SubSeq(s, 1, n)) = IF 1 <= n THEN n - 1 + 1 ELSE 0
      /\ \A i \in 1..n - 1 + 1 : SubSeq(s, 1, n)[i] = s[1 + i - 1]
  BY <1>1, <1>2, SubSeqProperties
<1>4. n = 0 => SubSeq(s, 1, n) = <<>>
  BY <1>1, SubSeqEmpty
<1>5. n = Len(s) => SubSeq(s, 1, n) = s
  BY SubSeqFull
<1> QED
  BY <1>1, <1>3, <1>4, <1>5

(* What is received of a text grows by each piece. *)
LEMMA NextPiece ==
  ASSUME NEW S, NEW s \in Seq(S), NEW from \in 0..Len(s), NEW n \in 0..Len(s) - from
  PROVE  /\ SubSeq(s, from + 1, from + n) \in Seq(S)
         /\ Len(SubSeq(s, from + 1, from + n)) = n
         /\ \A i \in 1..n : SubSeq(s, from + 1, from + n)[i] = s[from + i]
         /\ SubSeq(s, 1, from) \o SubSeq(s, from + 1, from + n) = SubSeq(s, 1, from + n)
<1>1. Len(s) \in Nat /\ from \in Int /\ n \in Int /\ from + 1 \in Int /\ from + n \in Int
  BY LenProperties
<1>2. \A i \in from + 1..from + n : s[i] \in S
  BY <1>1, ElementOfSeq
<1>3. /\ SubSeq(s, from + 1, from + n) \in Seq(S)
      /\ Len(SubSeq(s, from + 1, from + n))
           = IF from + 1 <= from + n THEN (from + n) - (from + 1) + 1 ELSE 0
      /\ \A i \in 1..(from + n) - (from + 1) + 1 :
           SubSeq(s, from + 1, from + n)[i] = s[(from + 1) + i - 1]
  BY <1>1, <1>2, SubSeqProperties
<1>4. SubSeq(s, 1, from) \o SubSeq(s, from + 1, from + n) = SubSeq(s, 1, from + n)
  BY <1>1, ConcatAdjacentSubSeq
<1> QED
  BY <1>1, <1>3, <1>4

(* The first n + 1 elements are the first n and the next. *)
LEMMA FrontGrows ==
  ASSUME NEW S, NEW s \in Seq(S), NEW n \in 1..Len(s)
  PROVE  SubSeq(s, 1, n) = Append(SubSeq(s, 1, n - 1), s[n])
<1>1. Len(s) \in Nat /\ 1 \in 1..Len(s) /\ n - 1 \in 0..Len(s)
  BY LenProperties
<1>2. SubSeq(s, 1, n) = SubSeq(s, 1, n - 1) \o <<s[n]>>
  <2>1. \A m \in 1..Len(s) : \A k \in m..Len(s) :
          SubSeq(s, m, k) = SubSeq(s, m, k - 1) \o <<s[k]>>
    BY SubSeqRecursiveSecond
  <2> QED
    BY <1>1, <2>1
<1>3. SubSeq(s, 1, n - 1) \in Seq(S) /\ s[n] \in S
  BY <1>1, FrontOf, ElementOfSeq
<1>4. \A q \in Seq(S), e \in S : Append(q, e) = q \o <<e>>
  BY AppendIsConcat
<1> QED
  BY <1>2, <1>3, <1>4

---------------------------------------------------------------------------
(* What the parser reports *)

Element_ == [kind : {"url", "field", "value", "headersComplete", "body", "complete"},
             text : Text]

(* Every header is reported as a name and a value. *)
LEMMA FieldsOf ==
  ASSUME NEW fields \in Seq(Field)
  PROVE  /\ Fields(fields) \in Seq(Element_) /\ Len(Fields(fields)) = 2 * Len(fields)
         /\ \A i \in 1..Len(fields) :
              /\ Fields(fields)[2 * i - 1] = Element("field", fields[i].name)
              /\ Fields(fields)[2 * i] = Element("value", fields[i].value)
<1> DEFINE n == Len(fields)
<1>1. n \in Nat /\ \A i \in 1..n : fields[i] \in Field
  BY LenProperties, ElementOfSeq
<1>2. \A i \in 1..2 * n :
        (i % 2 = 1 /\ (i + 1) \div 2 \in 1..n) \/ (i % 2 # 1 /\ i \div 2 \in 1..n)
  BY <1>1
<1>3. \A f \in Field : Element("field", f.name) \in Element_
                       /\ Element("value", f.value) \in Element_
  BY DEF Field, Element, Element_
<1>4. Fields(fields) \in [1..2 * n -> Element_]
  BY <1>1, <1>2, <1>3 DEF Fields
<1>5. Fields(fields) \in Seq(Element_) /\ Len(Fields(fields)) = 2 * n
  BY <1>1, <1>4
<1>6. \A i \in 1..n : /\ 2 * i - 1 \in 1..2 * n /\ 2 * i \in 1..2 * n
                      /\ (2 * i - 1) % 2 = 1 /\ (2 * i) % 2 # 1
                      /\ ((2 * i - 1) + 1) \div 2 = i /\ (2 * i) \div 2 = i
  BY <1>1
<1> QED
  BY <1>5, <1>6 DEF Fields

(* Where the elements of a message are: its url, its headers, their end,   *)
(* its body if it has one, its trailers and its end.                       *)
Heads(m)  == 2 * Len(m.headers) + 2
Bodies(m) == IF m.body = <<>> THEN 0 ELSE 1
Tails(m)  == Heads(m) + Bodies(m)
Ends(m)   == Tails(m) + 2 * Len(m.trailers) + 1

LEMMA ElementsOf ==
  ASSUME NEW m \in Messages
  PROVE  /\ Elements(m) \in Seq(Element_) /\ Len(Elements(m)) = Ends(m)
         /\ Elements(m)[1] = Element("url", m.url)
         /\ \A i \in 1..Len(m.headers) :
              /\ Elements(m)[2 * i] = Element("field", m.headers[i].name)
              /\ Elements(m)[2 * i + 1] = Element("value", m.headers[i].value)
         /\ Elements(m)[Heads(m)] = Element("headersComplete", <<>>)
         /\ m.body # <<>> => Elements(m)[Heads(m) + 1] = Element("body", m.body)
         /\ \A i \in 1..Len(m.trailers) :
              /\ Elements(m)[Tails(m) + 2 * i - 1] = Element("field", m.trailers[i].name)
              /\ Elements(m)[Tails(m) + 2 * i] = Element("value", m.trailers[i].value)
         /\ Elements(m)[Ends(m)] = Element("complete", <<>>)
<1> DEFINE u == <<Element("url", m.url)>>
           h == Fields(m.headers)
           e == <<Element("headersComplete", <<>>)>>
           b == IF m.body = <<>> THEN <<>> ELSE <<Element("body", m.body)>>
           t == Fields(m.trailers)
           c == <<Element("complete", <<>>)>>
           n == Len(m.headers)
           k == Len(m.trailers)
<1>1. /\ m.url \in Text /\ m.body \in Text
      /\ m.headers \in Seq(Field) /\ m.trailers \in Seq(Field)
      /\ n \in Nat /\ k \in Nat
  <2>1. m.headers \in Seq(Field) /\ m.trailers \in Seq(Field) /\ m.url \in Text /\ m.body \in Text
    BY MessagesAssumption
  <2> QED
    BY <2>1, LenProperties
<1>2. <<>> \in Text
  BY EmptySeq DEF Text
<1>3. /\ u \in Seq(Element_) /\ Len(u) = 1 /\ u[1] = Element("url", m.url)
      /\ e \in Seq(Element_) /\ Len(e) = 1 /\ e[1] = Element("headersComplete", <<>>)
      /\ c \in Seq(Element_) /\ Len(c) = 1 /\ c[1] = Element("complete", <<>>)
      /\ b \in Seq(Element_) /\ Len(b) = Bodies(m)
      /\ m.body # <<>> => b[1] = Element("body", m.body)
  <2>1. /\ Element("url", m.url) \in Element_ /\ Element("body", m.body) \in Element_
        /\ Element("headersComplete", <<>>) \in Element_
        /\ Element("complete", <<>>) \in Element_
    BY <1>1, <1>2 DEF Element, Element_
  <2> QED
    BY <2>1 DEF Bodies
<1>4. /\ h \in Seq(Element_) /\ Len(h) = 2 * n
      /\ \A i \in 1..n : h[2 * i - 1] = Element("field", m.headers[i].name)
                          /\ h[2 * i] = Element("value", m.headers[i].value)
      /\ t \in Seq(Element_) /\ Len(t) = 2 * k
      /\ \A i \in 1..k : t[2 * i - 1] = Element("field", m.trailers[i].name)
                          /\ t[2 * i] = Element("value", m.trailers[i].value)
  BY <1>1, FieldsOf
<1> DEFINE s1 == u \o h
           s2 == s1 \o e
           s3 == s2 \o b
           s4 == s3 \o t
           s5 == s4 \o c
<1>5. Elements(m) = s5
  BY DEF Elements
<1> HIDE DEF u, h, e, b, t, c, n, k
<1>6. /\ s1 \in Seq(Element_) /\ Len(s1) = 1 + 2 * n
      /\ s1[1] = u[1] /\ \A i \in 1..2 * n : s1[1 + i] = h[i]
  <2>1. /\ s1 \in Seq(Element_) /\ Len(s1) = Len(u) + Len(h)
        /\ \A i \in 1..Len(u) : s1[i] = u[i]
        /\ \A i \in 1..Len(h) : s1[Len(u) + i] = h[i]
    BY <1>3, <1>4, Joined
  <2> HIDE DEF s1
  <2> QED
    BY <1>1, <1>3, <1>4, <2>1
<1>7. /\ s2 \in Seq(Element_) /\ Len(s2) = 2 * n + 2 /\ s2[2 * n + 2] = e[1]
      /\ \A i \in 1..2 * n + 1 : s2[i] = s1[i]
  <2> HIDE DEF s1
  <2>1. /\ s2 \in Seq(Element_) /\ Len(s2) = Len(s1) + Len(e)
        /\ \A i \in 1..Len(s1) : s2[i] = s1[i]
        /\ \A i \in 1..Len(e) : s2[Len(s1) + i] = e[i]
    <3>1. s1 \in Seq(Element_) /\ e \in Seq(Element_)
      BY <1>3, <1>6
    <3> QED
      BY <3>1, Joined
  <2> HIDE DEF s2
  <2>2. 1 \in 1..Len(e) /\ Len(s1) + 1 = 2 * n + 2 /\ 2 * n + 1 = Len(s1)
    BY <1>1, <1>3, <1>6
  <2> QED
    BY <1>1, <1>3, <1>6, <2>1, <2>2
<1>8. /\ s3 \in Seq(Element_) /\ Len(s3) = 2 * n + 2 + Bodies(m)
      /\ Bodies(m) = 1 => s3[2 * n + 3] = b[1]
      /\ \A i \in 1..2 * n + 2 : s3[i] = s2[i]
      /\ Bodies(m) \in {0, 1}
  <2> HIDE DEF s2
  <2>1. /\ s3 \in Seq(Element_) /\ Len(s3) = Len(s2) + Len(b)
        /\ \A i \in 1..Len(s2) : s3[i] = s2[i]
        /\ \A i \in 1..Len(b) : s3[Len(s2) + i] = b[i]
    <3>1. s2 \in Seq(Element_) /\ b \in Seq(Element_)
      BY <1>3, <1>7
    <3> QED
      BY <3>1, Joined
  <2> HIDE DEF s3
  <2>2. Bodies(m) \in {0, 1} /\ (Bodies(m) = 1 => 1 \in 1..Len(b))
        /\ Len(s2) + 1 = 2 * n + 3
    BY <1>1, <1>3, <1>7 DEF Bodies
  <2> QED
    BY <1>1, <1>3, <1>7, <2>1, <2>2
<1>9. /\ s4 \in Seq(Element_) /\ Len(s4) = 2 * n + 2 + Bodies(m) + 2 * k
      /\ \A i \in 1..2 * n + 2 + Bodies(m) : s4[i] = s3[i]
      /\ \A i \in 1..2 * k : s4[2 * n + 2 + Bodies(m) + i] = t[i]
  <2> HIDE DEF s3
  <2>1. /\ s4 \in Seq(Element_) /\ Len(s4) = Len(s3) + Len(t)
        /\ \A i \in 1..Len(s3) : s4[i] = s3[i]
        /\ \A i \in 1..Len(t) : s4[Len(s3) + i] = t[i]
    <3>1. s3 \in Seq(Element_) /\ t \in Seq(Element_)
      BY <1>4, <1>8
    <3> QED
      BY <3>1, Joined
  <2> HIDE DEF s4
  <2> QED
    BY <1>1, <1>4, <1>8, <2>1
<1>10. /\ s5 \in Seq(Element_) /\ Len(s5) = Ends(m)
       /\ s5[Ends(m)] = c[1]
       /\ \A i \in 1..2 * n + 2 + Bodies(m) + 2 * k : s5[i] = s4[i]
  <2> HIDE DEF s4
  <2>1. /\ s5 \in Seq(Element_) /\ Len(s5) = Len(s4) + Len(c)
        /\ \A i \in 1..Len(s4) : s5[i] = s4[i]
        /\ \A i \in 1..Len(c) : s5[Len(s4) + i] = c[i]
    <3>1. s4 \in Seq(Element_) /\ c \in Seq(Element_)
      BY <1>3, <1>9
    <3> QED
      BY <3>1, Joined
  <2> HIDE DEF s5
  <2>2. 1 \in 1..Len(c) /\ Ends(m) = 2 * n + 2 + Bodies(m) + 2 * k + 1
    BY <1>3 DEF Ends, Tails, Heads, n, k
  <2> QED
    BY <1>1, <1>3, <1>8, <1>9, <2>1, <2>2
<1>11. Heads(m) = 2 * n + 2 /\ Tails(m) = 2 * n + 2 + Bodies(m)
  BY DEF Heads, Tails, n
<1> HIDE DEF s1, s2, s3, s4, s5
<1>12. \A i \in 1..2 * n + 2 + Bodies(m) : s5[i] = s3[i]
  <2> SUFFICES ASSUME NEW i \in 1..2 * n + 2 + Bodies(m) PROVE s5[i] = s3[i]
    OBVIOUS
  <2>1. i \in 1..2 * n + 2 + Bodies(m) + 2 * k
    BY <1>1, <1>8
  <2> QED
    BY <1>9, <1>10, <2>1
<1>13. \A i \in 1..n : s5[2 * i] = h[2 * i - 1] /\ s5[2 * i + 1] = h[2 * i]
  <2> SUFFICES ASSUME NEW i \in 1..2 * n PROVE s5[1 + i] = h[i]
    <3>1. \A i \in 1..n : /\ 2 * i - 1 \in 1..2 * n /\ 2 * i \in 1..2 * n
                          /\ 1 + (2 * i - 1) = 2 * i /\ 1 + 2 * i = 2 * i + 1
      BY <1>1
    <3> QED
      BY <3>1
  <2>1. 1 + i \in 1..2 * n + 2 + Bodies(m) /\ 1 + i \in 1..2 * n + 2 /\ 1 + i \in 1..2 * n + 1
    BY <1>1, <1>8
  <2> QED
    BY <1>6, <1>7, <1>8, <1>12, <2>1
<1>14. \A i \in 1..k : /\ s5[Tails(m) + 2 * i - 1] = t[2 * i - 1]
                       /\ s5[Tails(m) + 2 * i] = t[2 * i]
  <2> SUFFICES ASSUME NEW i \in 1..2 * k PROVE s5[Tails(m) + i] = t[i]
    <3>1. Tails(m) \in Int
      BY <1>1, <1>8, <1>11
    <3>2. \A i \in 1..k : /\ 2 * i - 1 \in 1..2 * k /\ 2 * i \in 1..2 * k
                          /\ Tails(m) + (2 * i - 1) = Tails(m) + 2 * i - 1
      BY <1>1, <3>1
    <3> QED
      BY <3>2
  <2>1. 2 * n + 2 + Bodies(m) + i \in 1..2 * n + 2 + Bodies(m) + 2 * k
    BY <1>1, <1>8
  <2> QED
    BY <1>9, <1>10, <1>11, <2>1
<1>15. m.body # <<>> => s5[Heads(m) + 1] = Element("body", m.body)
  <2>1. ASSUME m.body # <<>> PROVE s5[2 * n + 3] = b[1]
    <3>1. Bodies(m) = 1 /\ 2 * n + 3 \in 1..2 * n + 2 + Bodies(m)
      BY <1>1, <2>1 DEF Bodies
    <3> QED
      BY <1>8, <1>12, <3>1
  <2> QED
    BY <1>1, <1>3, <1>11, <2>1
<1>16. n = Len(m.headers) /\ k = Len(m.trailers)
  BY DEF n, k
<1>17. s5[1] = u[1] /\ s5[2 * n + 2] = e[1]
  <2>1. /\ 1 \in 1..2 * n + 2 + Bodies(m) /\ 1 \in 1..2 * n + 2 /\ 1 \in 1..2 * n + 1
        /\ 2 * n + 2 \in 1..2 * n + 2 + Bodies(m) /\ 2 * n + 2 \in 1..2 * n + 2
    BY <1>1, <1>8
  <2> QED
    BY <1>6, <1>7, <1>8, <1>12, <2>1
<1> QED
  BY <1>3, <1>4, <1>5, <1>10, <1>11, <1>13, <1>14, <1>15, <1>16, <1>17

---------------------------------------------------------------------------
(* The url *)

(* Mark is where the first "?" is. *)
LEMMA MarkOf ==
  ASSUME NEW t \in Text
  PROVE  /\ Mark(t) \in 0..Len(t)
         /\ Mark(t) = 0 => \A i \in 1..Len(t) : t[i] # Question
         /\ Mark(t) # 0 => t[Mark(t)] = Question
                           /\ \A i \in 1..Mark(t) - 1 : t[i] # Question
<1> DEFINE I == {i \in 1..Len(t) : t[i] = Question}
<1>1. Mark(t) = IF I # {} THEN Min(I) ELSE 0
  BY Zenon DEF Mark, SelectInSeq
<1>2. I \in SUBSET Nat /\ Len(t) \in Nat
  BY LenProperties DEF Text
<1>3. CASE I = {}
  <2>1. Mark(t) = 0
    BY <1>1, <1>3
  <2>2. \A i \in 1..Len(t) : t[i] # Question
    BY <1>3
  <2> QED
    BY <1>2, <2>1, <2>2
<1>4. CASE I # {}
  <2>1. Mark(t) \in I /\ \A i \in I : Mark(t) <= i
    BY <1>1, <1>2, <1>4, LeastExists
  <2>2. ASSUME NEW i \in 1..Mark(t) - 1, t[i] = Question PROVE FALSE
    <3>1. i \in I
      BY <1>2, <2>1, <2>2
    <3> QED
      BY <2>1, <3>1
  <2> QED
    BY <1>2, <2>1, <2>2
<1> QED
  BY <1>3, <1>4

(* No other place is. *)
LEMMA MarkIs ==
  ASSUME NEW t \in Text, NEW j \in 1..Len(t), t[j] = Question,
         \A i \in 1..j - 1 : t[i] # Question
  PROVE  Mark(t) = j
<1>1. Len(t) \in Nat
  BY LenProperties DEF Text
<1>2. Mark(t) # 0
  BY MarkOf
<1>3. ~(Mark(t) < j)
  BY <1>1, <1>2, MarkOf
<1>4. ~(j < Mark(t))
  BY <1>1, <1>2, MarkOf
<1> QED
  BY <1>1, <1>3, <1>4, MarkOf

(* Path and query are texts. *)
LEMMA PathType ==
  ASSUME NEW t \in Text
  PROVE  PathOf(t) \in Text /\ QueryOf(t) \in Text
<1>1. Len(t) \in Nat /\ Mark(t) \in 0..Len(t) /\ t \in Seq(Chars)
  BY MarkOf, LenProperties DEF Text
<1>2. <<>> \in Text
  BY EmptySeq DEF Text
<1>3. ASSUME Mark(t) # 0
      PROVE  SubSeq(t, 1, Mark(t) - 1) \in Text /\ SubSeq(t, Mark(t) + 1, Len(t)) \in Text
  <2>1. /\ Mark(t) - 1 \in 0..Len(t)
        /\ Mark(t) \in 0..Len(t) /\ Len(t) - Mark(t) \in 0..Len(t) - Mark(t)
        /\ Mark(t) + (Len(t) - Mark(t)) = Len(t)
    BY <1>1, <1>3
  <2>2. SubSeq(t, Mark(t) + 1, Mark(t) + (Len(t) - Mark(t))) \in Seq(Chars)
    BY <1>1, <2>1, NextPiece
  <2> QED
    BY <1>1, <2>1, <2>2, FrontOf DEF Text
<1> QED
  BY <1>2, <1>3 DEF PathOf, QueryOf

(* Cut in the path, a url may be split in pieces. *)
LEMMA PathJoins ==
  ASSUME NEW p \in Text, NEW q \in Text, Mark(p) = 0
  PROVE  PathOf(p \o q) = p \o PathOf(q) /\ QueryOf(p \o q) = QueryOf(q)
<1> DEFINE t == p \o q
<1>1. /\ p \in Seq(Chars) /\ q \in Seq(Chars) /\ Len(p) \in Nat /\ Len(q) \in Nat
      /\ t \in Seq(Chars) /\ t \in Text /\ Len(t) = Len(p) + Len(q)
      /\ \A i \in 1..Len(p) : t[i] = p[i]
      /\ \A i \in 1..Len(q) : t[Len(p) + i] = q[i]
  BY Joined, LenProperties DEF Text
<1> HIDE DEF t
<1>2. \A i \in 1..Len(p) : t[i] # Question
  BY <1>1, MarkOf
<1>3. CASE Mark(q) = 0
  <2>1. ASSUME Mark(t) # 0 PROVE FALSE
    <3>1. Mark(t) \in 1..Len(p) + Len(q) /\ t[Mark(t)] = Question
      BY <1>1, <2>1, MarkOf
    <3>2. Mark(t) - Len(p) \in 1..Len(q) /\ Len(p) + (Mark(t) - Len(p)) = Mark(t)
      BY <1>1, <1>2, <3>1
    <3>3. q[Mark(t) - Len(p)] = Question
      BY <1>1, <3>1, <3>2
    <3> QED
      BY <1>3, <3>2, <3>3, MarkOf
  <2> QED
    BY <1>3, <2>1 DEF PathOf, QueryOf, t
<1>4. CASE Mark(q) # 0
  <2> DEFINE j == Mark(q)
  <2>1. /\ j \in 1..Len(q) /\ q[j] = Question
        /\ \A i \in 1..j - 1 : q[i] # Question
    BY <1>1, <1>4, MarkOf
  <2> HIDE DEF j
  <2>2. Mark(t) = Len(p) + j
    <3>1. Len(p) + j \in 1..Len(t) /\ t[Len(p) + j] = Question
      BY <1>1, <2>1
    <3>2. ASSUME NEW i \in 1..(Len(p) + j) - 1 PROVE t[i] # Question
      <4>1. CASE i <= Len(p)
        BY <1>1, <1>2, <2>1, <4>1
      <4>2. CASE i > Len(p)
        <5>1. i - Len(p) \in 1..j - 1 /\ i - Len(p) \in 1..Len(q) /\ Len(p) + (i - Len(p)) = i
          BY <1>1, <2>1, <4>2
        <5>2. t[i] = q[i - Len(p)]
          BY <1>1, <5>1
        <5> QED
          BY <2>1, <5>1, <5>2
      <4> QED
        BY <1>1, <2>1, <4>1, <4>2
    <3> DEFINE k == Len(p) + j
    <3>3. k \in 1..Len(t) /\ t[k] = Question /\ \A i \in 1..k - 1 : t[i] # Question
      BY <3>1, <3>2, Zenon
    <3> HIDE DEF k
    <3>4. Mark(t) = k
      BY <1>1, <3>3, MarkIs
    <3> QED
      BY <3>4 DEF k
  <2>3. SubSeq(t, 1, (Len(p) + j) - 1) = p \o SubSeq(q, 1, j - 1)
    <3> DEFINE x == SubSeq(t, 1, (Len(p) + j) - 1)
               f == SubSeq(q, 1, j - 1)
               y == p \o f
    <3>1. /\ x \in Seq(Chars) /\ Len(x) = (Len(p) + j) - 1
          /\ \A i \in 1..(Len(p) + j) - 1 : x[i] = t[i]
      <4>1. (Len(p) + j) - 1 \in 0..Len(t)
        BY <1>1, <2>1
      <4> QED
        BY <1>1, <4>1, FrontOf
    <3>2. f \in Seq(Chars) /\ Len(f) = j - 1 /\ \A i \in 1..j - 1 : f[i] = q[i]
      <4>1. j - 1 \in 0..Len(q)
        BY <1>1, <2>1
      <4> QED
        BY <1>1, <4>1, FrontOf
    <3> HIDE DEF x, f
    <3>3. /\ y \in Seq(Chars) /\ Len(y) = Len(p) + (j - 1)
          /\ \A i \in 1..Len(p) : y[i] = p[i]
          /\ \A i \in 1..j - 1 : y[Len(p) + i] = f[i]
      <4>1. /\ y \in Seq(Chars) /\ Len(y) = Len(p) + Len(f)
            /\ \A i \in 1..Len(p) : y[i] = p[i]
            /\ \A i \in 1..Len(f) : y[Len(p) + i] = f[i]
        <5>1. p \in Seq(Chars) /\ f \in Seq(Chars)
          BY <1>1, <3>2
        <5> QED
          BY <5>1, Joined
      <4> QED
        BY <3>2, <4>1
    <3> HIDE DEF y
    <3>4. ASSUME NEW i \in 1..Len(x) PROVE x[i] = y[i]
      <4>1. CASE i <= Len(p)
        BY <1>1, <2>1, <3>1, <3>3, <4>1
      <4>2. CASE i > Len(p)
        <5>1. i - Len(p) \in 1..j - 1 /\ i - Len(p) \in 1..Len(q) /\ Len(p) + (i - Len(p)) = i
          BY <1>1, <2>1, <3>1, <4>2
        <5>2. y[i] = f[i - Len(p)] /\ f[i - Len(p)] = q[i - Len(p)] /\ t[i] = q[i - Len(p)]
          BY <1>1, <3>2, <3>3, <5>1
        <5> QED
          BY <3>1, <5>2
      <4> QED
        BY <1>1, <2>1, <3>1, <4>1, <4>2
    <3>5. Len(x) = Len(y)
      BY <1>1, <2>1, <3>1, <3>3
    <3>6. x = y
      BY <3>1, <3>3, <3>4, <3>5, SeqEqual
    <3> QED
      BY <3>6 DEF x, y, f
  <2>4. SubSeq(t, Len(p) + j + 1, Len(t)) = SubSeq(q, j + 1, Len(q))
    <3> DEFINE n == Len(q) - j
               x == SubSeq(t, Len(p) + j + 1, Len(p) + j + n)
               y == SubSeq(q, j + 1, j + n)
    <3>1. /\ n \in 0..Len(q) - j /\ n \in 0..Len(t) - (Len(p) + j)
          /\ j \in 0..Len(q) /\ Len(p) + j \in 0..Len(t)
          /\ Len(p) + j + n = Len(t) /\ j + n = Len(q)
      BY <1>1, <2>1
    <3> HIDE DEF n
    <3>2. /\ x \in Seq(Chars) /\ Len(x) = n
          /\ \A i \in 1..n : x[i] = t[Len(p) + j + i]
      BY <1>1, <3>1, NextPiece
    <3>3. y \in Seq(Chars) /\ Len(y) = n /\ \A i \in 1..n : y[i] = q[j + i]
      BY <1>1, <3>1, NextPiece
    <3>4. ASSUME NEW i \in 1..n PROVE t[Len(p) + j + i] = q[j + i]
      <4>1. j + i \in 1..Len(q) /\ Len(p) + (j + i) = Len(p) + j + i
        BY <1>1, <2>1, <3>1
      <4> QED
        BY <1>1, <4>1
    <3> HIDE DEF x, y
    <3>5. x = y
      BY <3>2, <3>3, <3>4, SeqEqual
    <3> QED
      BY <3>1, <3>5 DEF x, y
  <2>5. PathOf(t) = SubSeq(t, 1, Mark(t) - 1) /\ QueryOf(t) = SubSeq(t, Mark(t) + 1, Len(t))
    BY <1>1, <2>1, <2>2 DEF PathOf, QueryOf
  <2>6. PathOf(q) = SubSeq(q, 1, j - 1) /\ QueryOf(q) = SubSeq(q, j + 1, Len(q))
    BY <1>4 DEF PathOf, QueryOf, j
  <2>7. PathOf(t) = p \o PathOf(q) /\ QueryOf(t) = QueryOf(q)
    BY <2>2, <2>3, <2>4, <2>5, <2>6, Zenon
  <2> QED
    BY <2>7 DEF t
<1> QED
  BY <1>3, <1>4

---------------------------------------------------------------------------
(* The inductive invariant *)

(* The parser is in the middle of an element, or at its beginning.  A      *)
(* message is complete when its parser is done with it, and the connection *)
(* reads on only when it is.                                               *)
Position ==
  /\ at \in 0..Ends(sent)
  /\ off \in Nat /\ (off = 0 \/ (at # 0 /\ off < Len(Now.text)))
  /\ requestComplete => at = 0
  /\ phase # "reading" => at = 0 \/ refused

(* The first k headers, as the callbacks store them. *)
Stored(k) == SubSeq(LoweredFields(sent.headers), 1, k)

(* k headers have been reported, and no piece of another: the last one is  *)
(* still in the buffers.                                                   *)
Heard(k) ==
  IF k = 0 THEN headers = <<>> /\ key = <<>> /\ val = <<>> /\ ~lastWasValue
  ELSE /\ lastWasValue /\ headers = Stored(k - 1)
       /\ key = sent.headers[k].name /\ val = sent.headers[k].value

(* The headers so far, wherever the parser is in them or behind them. *)
HeadersSoFar ==
  /\ at = 1 => Heard(0)
  /\ \A i \in 1..Len(sent.headers) :
       /\ at = 2 * i =>
            IF off = 0 THEN Heard(i - 1)
            ELSE /\ headers = Stored(i - 1) /\ val = <<>> /\ ~lastWasValue
                 /\ key = SubSeq(sent.headers[i].name, 1, off)
       /\ at = 2 * i + 1 =>
            /\ headers = Stored(i - 1) /\ key = sent.headers[i].name
            /\ val = SubSeq(sent.headers[i].value, 1, off)
            /\ lastWasValue <=> off # 0
  /\ at = Heads(sent) => Heard(Len(sent.headers))
  /\ at > Heads(sent) =>
       /\ IsPrefix(LoweredFields(sent.headers), headers)
       /\ sent.trailers = <<>> => headers = LoweredFields(sent.headers)

(* The buffers in the trailers: they hold the pieces of this element only. *)
BuffersSoFar ==
  at > Heads(sent) =>
    /\ Now.kind = "value" => val = SubSeq(Now.text, 1, off) /\ key = Elements(sent)[at - 1].text
    /\ Now.kind = "field" /\ off # 0 =>
         key = SubSeq(Now.text, 1, off) /\ val = <<>> /\ ~lastWasValue
    /\ Now.kind = "field" /\ off = 0 => lastWasValue \/ (val = <<>> /\ key = <<>>)
    /\ Now.kind = "body" => lastWasValue \/ (val = <<>> /\ key = <<>>)

(* Url, body and what on_headers_complete notes. *)
RestSoFar ==
  /\ clean => url = PathOf(IF at = 1 THEN SubSeq(sent.url, 1, off) ELSE sent.url)
              /\ query = QueryOf(IF at = 1 THEN SubSeq(sent.url, 1, off) ELSE sent.url)
  /\ at <= Heads(sent) => body = <<>>
  /\ at > Heads(sent) =>
       /\ body = IF Now.kind = "body" THEN SubSeq(sent.body, 1, off) ELSE sent.body
       /\ contentLength = IF sent.sized THEN Len(sent.body) ELSE Unknown
       /\ method = sent.method

(* The request is the one that was sent. *)
AsSent == MethodAsSent /\ UrlAsSent /\ HeadersAsSent /\ BodyAsSent

ParserInv ==
  /\ Position /\ OneHeaderBuffered
  /\ at # 0 => HeadersInOrder
  /\ at # 0 /\ ~refused => HeadersSoFar /\ BuffersSoFar /\ RestSoFar
  /\ asked # "no" => at = 0 /\ AsSent
  /\ asked = "complete" => phase = "reading"

(* No id is known before the request is dispatched. *)
IdInv ==
  /\ RequestIdentified
  /\ phase = "reading" /\ ~refused => requestId = NoText /\ requestUuid = NoText

(* A created reply without headers of the application. *)
OwnHeaders(content) ==
  LET length == Header("Content-Length", Len(content))
  IN  IF content = <<>> THEN <<length>> ELSE <<length, Header("Content-Type", "text/html")>>
Headers_ == [name : {"Content-Length", "Content-Type", "Connection"},
             value : Nat \union {"text/html", "close"}]
Reply_ == [status : Statuses \union {"undefined"}, headers : Seq(Headers_),
           content : Text \union {NoBuffer}]

(* The reply is empty until it is created, and created before it is sent.  *)
ReplyInv ==
  /\ reply \in Reply_
  /\ phase = "reading" =>
       reply.content = <<>> \/ (reply.content = NoBuffer /\ at = 0 /\ ~requestComplete)
  /\ phase = "working" => reply.content = <<>>
  /\ phase = "notified" =>
       reply.content \in Text /\ reply.headers = OwnHeaders(reply.content)
  /\ wire # Nothing =>
       /\ phase = "writing" /\ wire.status \in Statuses /\ wire.content \in Text
       /\ wire.headers = IF keepAlive THEN OwnHeaders(wire.content)
                         ELSE Append(OwnHeaders(wire.content), Header("Connection", "close"))

(* A request that waits for its answer is one the application accepts. *)
AnswerInv ==
  /\ phase \in {"working", "notified"} =>
       /\ url = Rest /\ method = "POST"
       /\ sample = "avro" => body \in DOMAIN Decoded /\ Decoded[body].delay = "some"
       /\ sample = "json" => body \in Objects
  /\ phase = "notified" =>
       /\ reply.status = "ok"
       /\ reply.content = IF sample = "avro" THEN Greeting ELSE <<>>
  /\ wire # Nothing /\ asked = "taken" /\ clean =>
       wire.status = ExpectedStatus(sent) /\ wire.content = ExpectedContent(sent)

IInv == ExchangeTypeOK /\ ParserInv /\ IdInv /\ ReplyInv /\ AnswerInv

---------------------------------------------------------------------------
(* Messages *)

(* The parts of a message and where they end. *)
LEMMA MessageFacts ==
  ASSUME NEW m \in Messages
  PROVE  /\ m.method \in Methods /\ m.url \in Text /\ m.body \in Text
         /\ m.headers \in Seq(Field) /\ m.trailers \in Seq(Field)
         /\ m.sized \in BOOLEAN /\ m.keep \in BOOLEAN
         /\ m.url # <<>> /\ Head(m.url) = Slash
         /\ Len(m.headers) \in Nat /\ Len(m.trailers) \in Nat /\ Len(m.body) \in Nat
         /\ Heads(m) = 2 * Len(m.headers) + 2 /\ Bodies(m) \in {0, 1}
         /\ m.body # <<>> <=> Bodies(m) = 1
         /\ Tails(m) = Heads(m) + Bodies(m)
         /\ Ends(m) = Tails(m) + 2 * Len(m.trailers) + 1
<1>1. /\ m.method \in Methods /\ m.url \in Text /\ m.body \in Text
      /\ m.headers \in Seq(Field) /\ m.trailers \in Seq(Field)
      /\ m.sized \in BOOLEAN /\ m.keep \in BOOLEAN
      /\ m.url # <<>> /\ Head(m.url) = Slash
  BY MessagesAssumption
<1>2. Len(m.headers) \in Nat /\ Len(m.trailers) \in Nat /\ Len(m.body) \in Nat
  BY <1>1, LenProperties DEF Text
<1> QED
  BY <1>1, <1>2 DEF Heads, Bodies, Tails, Ends

(* The fields of a message are texts, and their names are not empty.       *)
LEMMA FieldFacts ==
  ASSUME NEW m \in Messages
  PROVE  /\ \A i \in 1..Len(m.headers) :
              /\ m.headers[i].name \in Text /\ m.headers[i].value \in Text
              /\ m.headers[i].name # <<>> /\ m.headers[i] \in ToSet(m.headers \o m.trailers)
         /\ \A i \in 1..Len(m.trailers) :
              /\ m.trailers[i].name \in Text /\ m.trailers[i].value \in Text
              /\ m.trailers[i].name # <<>> /\ m.trailers[i] \in ToSet(m.headers \o m.trailers)
<1> DEFINE h == m.headers
           t == m.trailers
           Fits(f) == f.name # <<>> /\ f \in ToSet(h \o t)
<1>1. /\ h \in Seq(Field) /\ t \in Seq(Field) /\ Len(h) \in Nat /\ Len(t) \in Nat
      /\ \A f \in ToSet(h \o t) : Fits(f)
  BY MessageFacts, MessagesAssumption
<1>2. \A f \in Field : f.name \in Text /\ f.value \in Text
  BY DEF Field
<1> HIDE DEF h, t, Fits
<1>3. /\ h \o t \in Seq(Field) /\ Len(h \o t) = Len(h) + Len(t)
      /\ \A i \in 1..Len(h) : (h \o t)[i] = h[i]
      /\ \A i \in 1..Len(t) : (h \o t)[Len(h) + i] = t[i]
  BY <1>1, Joined
<1>4. \A i \in 1..Len(h) + Len(t) : Fits((h \o t)[i])
  <2> DEFINE s == h \o t
  <2>1. DOMAIN s = 1..Len(h) + Len(t)
    BY <1>3, LenProperties
  <2>2. \A i \in DOMAIN s : s[i] \in ToSet(s)
    BY DEF ToSet
  <2> QED
    BY <1>1, <2>1, <2>2
<1>5. \A i \in 1..Len(h) : Fits(h[i]) /\ h[i] \in Field
  <2> SUFFICES ASSUME NEW i \in 1..Len(h) PROVE Fits(h[i]) /\ h[i] \in Field
    OBVIOUS
  <2>1. i \in 1..Len(h) + Len(t)
    BY <1>1
  <2>2. Fits(h[i])
    BY <1>3, <1>4, <2>1
  <2> QED
    BY <1>1, <2>2, ElementOfSeq
<1>6. \A i \in 1..Len(t) : Fits(t[i]) /\ t[i] \in Field
  <2> SUFFICES ASSUME NEW i \in 1..Len(t) PROVE Fits(t[i]) /\ t[i] \in Field
    OBVIOUS
  <2>1. Len(h) + i \in 1..Len(h) + Len(t)
    BY <1>1
  <2>2. Fits(t[i])
    BY <1>3, <1>4, <2>1
  <2> QED
    BY <1>1, <2>2, ElementOfSeq
<1> QED
  BY <1>2, <1>5, <1>6 DEF h, t, Fits

(* The places of n headers, a body or none (b), and k trailers. *)
LEMMA Places ==
  ASSUME NEW n \in Nat, NEW k \in Nat, NEW b \in {0, 1},
         NEW p \in 1..2 * n + 2 + b + 2 * k + 1
  PROVE  \/ p = 1 \/ p = 2 * n + 2 \/ p = 2 * n + 2 + b + 2 * k + 1
         \/ p = 2 * n + 3 /\ b = 1
         \/ \E i \in 1..n : p = 2 * i \/ p = 2 * i + 1
         \/ \E i \in 1..k : p = 2 * n + 2 + b + 2 * i - 1 \/ p = 2 * n + 2 + b + 2 * i
<1>1. CASE p <= 2 * n + 1 /\ p # 1
  <2>1. PICK i \in Nat : p = 2 * i \/ p = 2 * i + 1
    BY p \div 2 \in Nat
  <2>2. i \in 1..n
    BY <1>1, <2>1
  <2> QED
    BY <2>1, <2>2
<1>2. CASE p > 2 * n + 2 + b /\ p < 2 * n + 2 + b + 2 * k + 1
  <2> DEFINE q == p - (2 * n + 2 + b) + 1
  <2>1. q \in Nat
    BY <1>2
  <2>2. PICK i \in Nat : q = 2 * i \/ q = 2 * i + 1
    BY <2>1, q \div 2 \in Nat
  <2>3. i \in 1..k
    BY <1>2, <2>2
  <2> QED
    BY <2>2, <2>3
<1> QED
  BY <1>1, <1>2

(* What the element at a place is. *)
LEMMA ElementAt ==
  ASSUME NEW m \in Messages, NEW p \in 1..Ends(m)
  PROVE  LET e == Elements(m)[p] IN
         \/ p = 1 /\ e = Element("url", m.url)
         \/ \E i \in 1..Len(m.headers) :
              p = 2 * i /\ e = Element("field", m.headers[i].name)
         \/ \E i \in 1..Len(m.headers) :
              p = 2 * i + 1 /\ e = Element("value", m.headers[i].value)
         \/ p = Heads(m) /\ e = Element("headersComplete", <<>>)
         \/ p = Heads(m) + 1 /\ p = Tails(m) /\ e = Element("body", m.body) /\ m.body # <<>>
         \/ \E i \in 1..Len(m.trailers) :
              p = Tails(m) + 2 * i - 1 /\ e = Element("field", m.trailers[i].name)
         \/ \E i \in 1..Len(m.trailers) :
              p = Tails(m) + 2 * i /\ e = Element("value", m.trailers[i].value)
         \/ p = Ends(m) /\ e = Element("complete", <<>>)
<1> DEFINE n == Len(m.headers)
           k == Len(m.trailers)
           b == Bodies(m)
<1>1. /\ n \in Nat /\ k \in Nat /\ b \in {0, 1}
      /\ m.body # <<>> <=> b = 1
      /\ Heads(m) = 2 * n + 2 /\ Tails(m) = 2 * n + 2 + b
      /\ Ends(m) = 2 * n + 2 + b + 2 * k + 1
  BY MessageFacts
<1>2. /\ Elements(m)[1] = Element("url", m.url)
      /\ \A i \in 1..n : /\ Elements(m)[2 * i] = Element("field", m.headers[i].name)
                         /\ Elements(m)[2 * i + 1] = Element("value", m.headers[i].value)
      /\ Elements(m)[Heads(m)] = Element("headersComplete", <<>>)
      /\ m.body # <<>> => Elements(m)[Heads(m) + 1] = Element("body", m.body)
      /\ \A i \in 1..k :
           /\ Elements(m)[Tails(m) + 2 * i - 1] = Element("field", m.trailers[i].name)
           /\ Elements(m)[Tails(m) + 2 * i] = Element("value", m.trailers[i].value)
      /\ Elements(m)[Ends(m)] = Element("complete", <<>>)
  BY ElementsOf
<1> HIDE DEF n, k, b
<1>3. \/ p = 1 \/ p = Heads(m) \/ p = Ends(m)
      \/ p = Heads(m) + 1 /\ p = Tails(m) /\ b = 1
      \/ \E i \in 1..n : p = 2 * i \/ p = 2 * i + 1
      \/ \E i \in 1..k : p = Tails(m) + 2 * i - 1 \/ p = Tails(m) + 2 * i
  <2>1. p \in 1..2 * n + 2 + b + 2 * k + 1
    BY <1>1
  <2>2. \/ p = 1 \/ p = 2 * n + 2 \/ p = 2 * n + 2 + b + 2 * k + 1
        \/ p = 2 * n + 3 /\ b = 1
        \/ \E i \in 1..n : p = 2 * i \/ p = 2 * i + 1
        \/ \E i \in 1..k : p = 2 * n + 2 + b + 2 * i - 1 \/ p = 2 * n + 2 + b + 2 * i
    BY <1>1, <2>1, Places
  <2>3. CASE \E i \in 1..k : p = 2 * n + 2 + b + 2 * i - 1 \/ p = 2 * n + 2 + b + 2 * i
    BY <1>1, <2>3
  <2> QED
    BY <1>1, <2>2, <2>3
<1> QED
  BY <1>1, <1>2, <1>3 DEF n, k

(* to_lower of a text is a text. *)
LEMMA LoweredType ==
  ASSUME NEW t \in Text
  PROVE  Lowered(t) \in Text
<1>1. Len(t) \in Nat /\ DOMAIN t = 1..Len(t) /\ \A i \in 1..Len(t) : t[i] \in Chars
  BY LenProperties, ElementOfSeq DEF Text
<1>2. Lowered(t) \in [1..Len(t) -> Chars]
  BY <1>1, MessagesAssumption DEF Lowered
<1> QED
  BY <1>1, <1>2 DEF Text

(* Lower case keeps the number of headers. *)
LEMMA LoweredFacts ==
  ASSUME NEW fields \in Seq(Field)
  PROVE  /\ LoweredFields(fields) \in Seq(Field)
         /\ Len(LoweredFields(fields)) = Len(fields)
         /\ \A i \in 1..Len(fields) :
              LoweredFields(fields)[i]
                = [name |-> Lowered(fields[i].name), value |-> Lowered(fields[i].value)]
<1>1. Len(fields) \in Nat /\ DOMAIN fields = 1..Len(fields)
      /\ \A i \in 1..Len(fields) : fields[i] \in Field
  BY LenProperties, ElementOfSeq
<1>2. \A f \in Field : [name |-> Lowered(f.name), value |-> Lowered(f.value)] \in Field
  <2> SUFFICES ASSUME NEW f \in Field
               PROVE  [name |-> Lowered(f.name), value |-> Lowered(f.value)] \in Field
    OBVIOUS
  <2>1. f.name \in Text /\ f.value \in Text
    BY DEF Field
  <2> QED
    BY <2>1, LoweredType DEF Field
<1>3. LoweredFields(fields) \in [1..Len(fields) -> Field]
  BY <1>1, <1>2 DEF LoweredFields
<1>4. LoweredFields(fields) \in Seq(Field) /\ Len(LoweredFields(fields)) = Len(fields)
  BY <1>1, <1>3
<1> QED
  BY <1>1, <1>4 DEF LoweredFields

(* A sequence is a prefix of itself with something behind it. *)
LEMMA PrefixFacts ==
  ASSUME NEW S, NEW s \in Seq(S)
  PROVE  /\ IsPrefix(s, s) /\ IsPrefix(<<>>, s)
         /\ \A k \in 0..Len(s) : IsPrefix(SubSeq(s, 1, k), s)
         /\ \A t \in Seq(S), e \in S : IsPrefix(s, t) => IsPrefix(s, Append(t, e))
<1>1. \A t \in Seq(S) : Len(t) \in Nat /\ SubSeq(t, 1, Len(t)) = t
  BY LenProperties, SubSeqFull
<1>2. ASSUME NEW k \in 0..Len(s) PROVE IsPrefix(SubSeq(s, 1, k), s)
  <2> DEFINE f == SubSeq(s, 1, k)
  <2>1. f \in Seq(S) /\ Len(f) = k
    BY FrontOf
  <2>2. SubSeq(f, 1, Len(f)) = f
    BY <1>1, <2>1
  <2> HIDE DEF f
  <2>3. SubSeq(s, 1, Len(f)) = f
    BY <2>1 DEF f
  <2>4. Len(f) <= Len(s)
    BY <1>1, <2>1
  <2>5. IsPrefix(f, s)
    BY <2>2, <2>3, <2>4 DEF IsPrefix
  <2> QED
    BY <2>5 DEF f
<1>3. IsPrefix(<<>>, s)
  <2>1. 0 \in 0..Len(s) /\ SubSeq(s, 1, 0) = <<>>
    BY <1>1, FrontOf
  <2> QED
    BY <1>2, <2>1
<1>4. IsPrefix(s, s)
  BY <1>1 DEF IsPrefix
<1>5. ASSUME NEW t \in Seq(S), NEW e \in S, IsPrefix(s, t)
      PROVE  IsPrefix(s, Append(t, e))
  <2> DEFINE r == Append(t, e)
             n == Len(s)
  <2>1. r \in Seq(S) /\ Len(r) = Len(t) + 1 /\ \A i \in 1..Len(t) : r[i] = t[i]
    BY AppendProperties
  <2>2. n \in Nat /\ n <= Len(t) /\ Len(t) \in Nat /\ SubSeq(s, 1, n) = SubSeq(t, 1, n)
    BY <1>1, <1>5 DEF IsPrefix
  <2> HIDE DEF r, n
  <2>3. SubSeq(t, 1, n) = SubSeq(r, 1, n)
    <3> DEFINE x == SubSeq(t, 1, n)
               y == SubSeq(r, 1, n)
    <3>1. x \in Seq(S) /\ Len(x) = n /\ \A i \in 1..n : x[i] = t[i]
      BY <2>1, <2>2, FrontOf
    <3>2. y \in Seq(S) /\ Len(y) = n /\ \A i \in 1..n : y[i] = r[i]
      BY <2>1, <2>2, FrontOf
    <3>3. \A i \in 1..n : r[i] = t[i]
      BY <2>1, <2>2
    <3> HIDE DEF x, y
    <3>4. x = y
      BY <3>1, <3>2, <3>3, SeqEqual
    <3> QED
      BY <3>4 DEF x, y
  <2>4. Len(s) <= Len(r) /\ SubSeq(s, 1, Len(s)) = SubSeq(r, 1, Len(s))
    BY <2>1, <2>2, <2>3 DEF n
  <2> QED
    BY <2>4 DEF IsPrefix, r
<1> QED
  BY <1>2, <1>3, <1>4, <1>5

(* The first k headers of a message as the callbacks store them. *)
LEMMA StoredFacts ==
  ASSUME NEW m \in Messages, NEW k \in 0..Len(m.headers)
  PROVE  LET L == LoweredFields(m.headers) IN
         /\ L \in Seq(Field) /\ SubSeq(L, 1, k) \in Seq(Field)
         /\ IsPrefix(SubSeq(L, 1, k), L)
         /\ k = 0 => SubSeq(L, 1, k) = <<>>
         /\ k = Len(m.headers) => SubSeq(L, 1, k) = L
         /\ k # 0 => SubSeq(L, 1, k)
                       = Append(SubSeq(L, 1, k - 1),
                                [name |-> Lowered(m.headers[k].name),
                                 value |-> Lowered(m.headers[k].value)])
<1> DEFINE L == LoweredFields(m.headers)
<1>1. /\ m.headers \in Seq(Field) /\ Len(m.headers) \in Nat
      /\ L \in Seq(Field) /\ Len(L) = Len(m.headers)
      /\ \A i \in 1..Len(m.headers) :
           L[i] = [name |-> Lowered(m.headers[i].name), value |-> Lowered(m.headers[i].value)]
  BY MessageFacts, LoweredFacts
<1> HIDE DEF L
<1>2. k \in 0..Len(L)
  BY <1>1
<1>3. /\ SubSeq(L, 1, k) \in Seq(Field)
      /\ k = 0 => SubSeq(L, 1, k) = <<>>
      /\ k = Len(L) => SubSeq(L, 1, k) = L
  BY <1>1, <1>2, FrontOf
<1>4. IsPrefix(SubSeq(L, 1, k), L)
  BY <1>1, <1>2, PrefixFacts
<1>5. ASSUME k # 0 PROVE SubSeq(L, 1, k) = Append(SubSeq(L, 1, k - 1), L[k])
  <2>1. k \in 1..Len(L)
    BY <1>1, <1>2, <1>5
  <2> QED
    BY <1>1, <2>1, FrontGrows
<1>6. k # 0 => L[k] = [name |-> Lowered(m.headers[k].name),
                       value |-> Lowered(m.headers[k].value)]
  BY <1>1
<1> QED
  BY <1>1, <1>3, <1>4, <1>5, <1>6 DEF L

(* get_header finds a value of the request or nothing. *)
LEMMA GetHeaderType ==
  ASSUME headers \in Seq(Field), NEW name
  PROVE  GetHeader(name) \in Text
<1> DEFINE I == {i \in 1..Len(headers) : headers[i].name = Lowered(name)}
           hit == IF I # {} THEN Min(I) ELSE 0
<1>1. GetHeader(name) = IF hit = 0 THEN NoText ELSE headers[hit].value
  BY Zenon DEF GetHeader, SelectInSeq
<1>2. Len(headers) \in Nat /\ I \in SUBSET Nat
  BY LenProperties
<1>3. hit = 0 \/ hit \in 1..Len(headers)
  BY <1>2, LeastExists
<1>4. NoText \in Text
  BY EmptySeq DEF NoText, Text
<1> HIDE DEF hit
<1>5. ASSUME hit \in 1..Len(headers) PROVE headers[hit].value \in Text
  <2>1. headers[hit] \in Field
    BY <1>5, ElementOfSeq
  <2> QED
    BY <2>1 DEF Field
<1> QED
  BY <1>1, <1>3, <1>4, <1>5

---------------------------------------------------------------------------
(* A callback of the parser *)

(* A piece continues what has been reported of its element, and only an    *)
(* empty text has an empty piece.                                          *)
LEMMA PieceFacts ==
  ASSUME sent \in Messages, Position, at # 0, NEW n \in Sizes
  PROVE  /\ at \in 1..Ends(sent) /\ Now \in Element_ /\ Len(Now.text) \in Nat
         /\ off \in 0..Len(Now.text) /\ off + n \in 0..Len(Now.text) /\ n \in Nat
         /\ Piece(n) \in Text /\ Len(Piece(n)) = n
         /\ \A i \in 1..n : Piece(n)[i] = Now.text[off + i]
         /\ SubSeq(Now.text, 1, off) \o Piece(n) = SubSeq(Now.text, 1, off + n)
         /\ Now.text # <<>> => n # 0 /\ off < Len(Now.text)
         /\ off = 0 => SubSeq(Now.text, 1, off) = <<>>
         /\ off + n = Len(Now.text) => SubSeq(Now.text, 1, off + n) = Now.text
         /\ SubSeq(Now.text, 1, off) \in Text /\ SubSeq(Now.text, 1, off + n) \in Text
         /\ Len(SubSeq(Now.text, 1, off + n)) = off + n
<1>1. at \in 1..Ends(sent) /\ Ends(sent) \in Nat
  BY MessageFacts DEF Position
<1>2. Now \in Element_
  <2>1. Elements(sent) \in Seq(Element_) /\ Len(Elements(sent)) = Ends(sent)
    BY ElementsOf
  <2> QED
    BY <1>1, <2>1, ElementOfSeq DEF Now
<1> DEFINE t == Now.text
<1>3. t \in Seq(Chars) /\ Len(t) \in Nat
  <2>1. t \in Seq(Chars)
    BY <1>2 DEF Element_, Text
  <2> QED
    BY <2>1, LenProperties
<1> HIDE DEF t
<1>4. /\ off = 0 \/ off < Len(t)
      /\ off \in Nat
  BY DEF Position, t
<1>5. n \in 0..Len(t) - off /\ (n > 0 \/ t = <<>>)
  BY DEF Sizes, t
<1>6. off \in 0..Len(t) /\ off + n \in 0..Len(t) /\ n \in Nat
  BY <1>3, <1>4, <1>5
<1>7. /\ SubSeq(t, off + 1, off + n) \in Seq(Chars) /\ Len(SubSeq(t, off + 1, off + n)) = n
      /\ \A i \in 1..n : SubSeq(t, off + 1, off + n)[i] = t[off + i]
      /\ SubSeq(t, 1, off) \o SubSeq(t, off + 1, off + n) = SubSeq(t, 1, off + n)
  <2>1. t \in Seq(Chars) /\ off \in 0..Len(t) /\ n \in 0..Len(t) - off
    BY <1>3, <1>5, <1>6
  <2> QED
    BY <2>1, NextPiece
<1>8. Piece(n) = SubSeq(t, off + 1, off + n)
  BY DEF Piece, t
<1>9. t # <<>> => n # 0 /\ off < Len(t)
  BY <1>3, <1>4, <1>5, EmptySeq
<1>10. /\ SubSeq(t, 1, off) \in Seq(Chars)
       /\ off = 0 => SubSeq(t, 1, off) = <<>>
  BY <1>3, <1>6, FrontOf
<1> DEFINE e == off + n
<1>11. e \in 0..Len(t)
  BY <1>6
<1> HIDE DEF e
<1>12. /\ SubSeq(t, 1, e) \in Seq(Chars) /\ Len(SubSeq(t, 1, e)) = e
       /\ e = Len(t) => SubSeq(t, 1, e) = t
  BY <1>3, <1>11, FrontOf
<1> QED
  BY <1>1, <1>2, <1>3, <1>6, <1>7, <1>8, <1>9, <1>10, <1>12 DEF t, e, Text

(* The element that a kind stands for. *)
LEMMA KindFacts ==
  ASSUME NEW m \in Messages, NEW p \in 1..Ends(m)
  PROVE  LET e == Elements(m)[p] IN
         /\ e.kind = "url" => p = 1 /\ e.text = m.url
         /\ e.kind = "field" =>
              \/ \E i \in 1..Len(m.headers) : p = 2 * i /\ e.text = m.headers[i].name
              \/ \E i \in 1..Len(m.trailers) :
                   p = Tails(m) + 2 * i - 1 /\ e.text = m.trailers[i].name
         /\ e.kind = "value" =>
              \/ \E i \in 1..Len(m.headers) : p = 2 * i + 1 /\ e.text = m.headers[i].value
              \/ \E i \in 1..Len(m.trailers) :
                   p = Tails(m) + 2 * i /\ e.text = m.trailers[i].value
         /\ e.kind = "headersComplete" => p = Heads(m) /\ e.text = <<>>
         /\ e.kind = "body" => /\ p = Heads(m) + 1 /\ p = Tails(m)
                               /\ e.text = m.body /\ m.body # <<>>
         /\ e.kind = "complete" => p = Ends(m) /\ e.text = <<>>
<1> DEFINE e == Elements(m)[p]
<1>1. \A kind, text : Element(kind, text).kind = kind /\ Element(kind, text).text = text
  BY DEF Element
<1>2. \/ p = 1 /\ e = Element("url", m.url)
      \/ \E i \in 1..Len(m.headers) :
           p = 2 * i /\ e = Element("field", m.headers[i].name)
      \/ \E i \in 1..Len(m.headers) :
           p = 2 * i + 1 /\ e = Element("value", m.headers[i].value)
      \/ p = Heads(m) /\ e = Element("headersComplete", <<>>)
      \/ p = Heads(m) + 1 /\ p = Tails(m) /\ e = Element("body", m.body) /\ m.body # <<>>
      \/ \E i \in 1..Len(m.trailers) :
           p = Tails(m) + 2 * i - 1 /\ e = Element("field", m.trailers[i].name)
      \/ \E i \in 1..Len(m.trailers) :
           p = Tails(m) + 2 * i /\ e = Element("value", m.trailers[i].value)
      \/ p = Ends(m) /\ e = Element("complete", <<>>)
  BY ElementAt
<1> HIDE DEF e
<1>3. /\ e.kind = "url" => p = 1 /\ e.text = m.url
      /\ e.kind = "field" =>
           \/ \E i \in 1..Len(m.headers) : p = 2 * i /\ e.text = m.headers[i].name
           \/ \E i \in 1..Len(m.trailers) :
                p = Tails(m) + 2 * i - 1 /\ e.text = m.trailers[i].name
      /\ e.kind = "value" =>
           \/ \E i \in 1..Len(m.headers) : p = 2 * i + 1 /\ e.text = m.headers[i].value
           \/ \E i \in 1..Len(m.trailers) :
                p = Tails(m) + 2 * i /\ e.text = m.trailers[i].value
      /\ e.kind = "headersComplete" => p = Heads(m) /\ e.text = <<>>
      /\ e.kind = "body" => /\ p = Heads(m) + 1 /\ p = Tails(m)
                            /\ e.text = m.body /\ m.body # <<>>
      /\ e.kind = "complete" => p = Ends(m) /\ e.text = <<>>
  BY <1>1, <1>2
<1> QED
  BY <1>3 DEF e

(* The parser goes on in the element or to the next, behind which is none. *)
LEMMA AdvanceFacts ==
  ASSUME sent \in Messages, Position, at # 0, NEW n \in Sizes, Advance(n)
  PROVE  /\ sent' = sent /\ at' \in 0..Ends(sent) /\ at' \in Nat /\ off' \in Nat
         /\ off' = 0 \/ (at' # 0 /\ off' < Len(Now'.text))
         /\ \/ /\ off + n < Len(Now.text) /\ at' = at /\ off' = off + n
               /\ Now' = Now
            \/ /\ off + n = Len(Now.text) /\ off' = 0 /\ at = Ends(sent) /\ at' = 0
            \/ /\ off + n = Len(Now.text) /\ off' = 0 /\ at # Ends(sent) /\ at' = at + 1
<1>1. /\ at \in 1..Ends(sent) /\ Ends(sent) \in Nat /\ Len(Elements(sent)) = Ends(sent)
      /\ Len(Now.text) \in Nat /\ off + n \in 0..Len(Now.text)
  BY PieceFacts, MessageFacts, ElementsOf
<1>2. sent' = sent
  BY DEF Advance
<1>3. CASE off + n < Len(Now.text)
  <2>1. at' = at /\ off' = off + n
    BY <1>3 DEF Advance
  <2>2. Now' = Now
    BY <1>2, <2>1 DEF Now
  <2> QED
    BY <1>1, <1>2, <1>3, <2>1, <2>2
<1>4. CASE ~(off + n < Len(Now.text))
  <2>1. off' = 0 /\ at' = IF at = Ends(sent) THEN 0 ELSE at + 1
    BY <1>1, <1>4 DEF Advance
  <2> QED
    BY <1>1, <1>2, <1>4, <2>1
<1> QED
  BY <1>3, <1>4

(* What the buffers hold of one field. *)
LEMMA FieldBuffered ==
  ASSUME sent' = sent, NEW f \in ToSet(sent.headers \o sent.trailers),
         f.name \in Text, f.value \in Text,
         NEW j \in 0..Len(f.name), NEW k \in 0..Len(f.value),
         key' \in {f.name, SubSeq(f.name, 1, j)}, val' \in {<<>>, SubSeq(f.value, 1, k)}
  PROVE  OneHeaderBuffered'
<1>1. f.name \in Seq(Chars) /\ f.value \in Seq(Chars)
  BY DEF Text
<1>2. IsPrefix(key', f.name)
  BY <1>1, PrefixFacts
<1>3. IsPrefix(val', f.value)
  BY <1>1, PrefixFacts
<1> QED
  BY <1>2, <1>3 DEF OneHeaderBuffered

(* What a callback is to keep of the request. *)
Progress ==
  /\ TypeOK /\ OneHeaderBuffered
  /\ at # 0 => HeadersInOrder /\ HeadersSoFar /\ BuffersSoFar /\ RestSoFar

(* on_url *)
LEMMA UrlStep ==
  ASSUME TypeOK, Position, at # 0, HeadersSoFar, RestSoFar, OneHeaderBuffered,
         NEW n \in Sizes, Advance(n), Now.kind = "url", OnUrl(Piece(n))
  PROVE  Progress'
<1> DEFINE N == Len(sent.headers)
<1>1. /\ sent \in Messages /\ N \in Nat /\ Heads(sent) = 2 * N + 2
      /\ sent.url \in Text /\ sent.url # <<>> /\ Ends(sent) > 2
  <2>1. sent \in Messages
    BY DEF TypeOK
  <2> QED
    BY <2>1, MessageFacts
<1>2. at = 1 /\ Now.text = sent.url
  <2>1. at \in 1..Ends(sent)
    BY <1>1, PieceFacts
  <2> QED
    BY <1>1, <2>1, KindFacts DEF Now
<1>3. /\ headers = <<>> /\ key = <<>> /\ val = <<>> /\ ~lastWasValue
      /\ UNCHANGED <<headers, key, val, lastWasValue, body, contentLength, method>>
      /\ UNCHANGED <<requestId, requestUuid, requestComplete, keepAlive>>
  BY <1>2 DEF HeadersSoFar, Heard, OnUrl, current, ids, verdict
<1> DEFINE piece == Piece(n)
<1>4. /\ piece \in Text /\ piece # <<>> /\ n \in Nat
      /\ off \in 0..Len(sent.url)
      /\ SubSeq(sent.url, 1, off) \o piece = SubSeq(sent.url, 1, off + n)
      /\ off + n = Len(sent.url) => SubSeq(sent.url, 1, off + n) = sent.url
      /\ SubSeq(sent.url, 1, off) \in Text
  <2>1. Len(piece) # 0
    BY <1>1, <1>2, PieceFacts
  <2> QED
    BY <1>1, <1>2, <2>1, PieceFacts, EmptySeq
<1> HIDE DEF piece
<1>5. /\ sent' = sent /\ off' \in Nat /\ at' \in Nat
      /\ \/ at' = 1 /\ off' = off + n
         \/ at' = 2 /\ off' = 0 /\ off + n = Len(sent.url)
  BY <1>1, <1>2, AdvanceFacts
<1>6. ASSUME clean'
      PROVE  /\ url' = PathOf(SubSeq(sent.url, 1, off + n))
             /\ query' = QueryOf(SubSeq(sent.url, 1, off + n))
  <2> DEFINE p == SubSeq(sent.url, 1, off)
  <2>1. /\ clean /\ Head(piece) = Slash
        /\ Mark(sent.url) = 0 \/ off < Mark(sent.url)
        /\ url' = url \o PathOf(piece) /\ query' = query \o QueryOf(piece)
    BY <1>6 DEF OnUrl, piece
  <2>2. p \in Text /\ Len(p) = off /\ \A i \in 1..off : p[i] = sent.url[i]
    BY <1>1, <1>4, FrontOf DEF Text
  <2>3. Mark(p) = 0
    <3>1. ASSUME Mark(p) # 0 PROVE FALSE
      <4> HIDE DEF p
      <4>1. Mark(p) \in 1..off /\ p[Mark(p)] = Question
        BY <1>4, <2>2, <3>1, MarkOf
      <4>2. sent.url[Mark(p)] = Question /\ Mark(p) \in 1..Len(sent.url)
        BY <1>4, <2>2, <4>1
      <4>3. /\ Mark(sent.url) \in 0..Len(sent.url)
            /\ Mark(sent.url) = 0 => \A i \in 1..Len(sent.url) : sent.url[i] # Question
            /\ Mark(sent.url) # 0 => \A i \in 1..Mark(sent.url) - 1 : sent.url[i] # Question
        BY <1>1, MarkOf
      <4> QED
        BY <1>4, <2>1, <4>1, <4>2, <4>3
    <3> QED
      BY <3>1
  <2>4. url = PathOf(p) /\ query = QueryOf(p)
    BY <1>2, <2>1 DEF RestSoFar
  <2>5. PathOf(p) = p /\ QueryOf(p) = <<>>
    BY <2>3 DEF PathOf, QueryOf
  <2>6. QueryOf(piece) \in Seq(Chars)
    BY <1>4, PathType DEF Text
  <2>7. query' = QueryOf(piece)
    BY <2>1, <2>4, <2>5, <2>6, ConcatEmptySeq
  <2>8. PathOf(p \o piece) = p \o PathOf(piece) /\ QueryOf(p \o piece) = QueryOf(piece)
    BY <1>4, <2>2, <2>3, PathJoins
  <2> QED
    BY <1>4, <2>1, <2>4, <2>5, <2>7, <2>8
<1>7. TypeOK'
  <2>1. url' \in Text /\ query' \in Text
    <3>1. url \in Seq(Chars) /\ query \in Seq(Chars)
      BY DEF TypeOK, Text
    <3>2. PathOf(piece) \in Seq(Chars) /\ QueryOf(piece) \in Seq(Chars)
      BY <1>4, PathType DEF Text
    <3>3. url \o PathOf(piece) \in Seq(Chars) /\ query \o QueryOf(piece) \in Seq(Chars)
      BY <3>1, <3>2, ConcatProperties
    <3> QED
      BY <3>1, <3>3 DEF OnUrl, Text, piece
  <2>2. refused' \in BOOLEAN /\ clean' \in BOOLEAN
    BY DEF OnUrl, TypeOK
  <2> QED
    BY <1>1, <1>3, <1>5, <2>1, <2>2 DEF TypeOK
<1>8. HeadersSoFar'
  <2>1. headers' = <<>> /\ key' = <<>> /\ val' = <<>> /\ ~lastWasValue'
    BY <1>3
  <2>2. \A i \in 1..N : (at' = 2 * i => i = 1 /\ off' = 0) /\ at' # 2 * i + 1
    BY <1>1, <1>5
  <2>3. /\ at' = Heads(sent) => N = 0
        /\ ~(at' > Heads(sent))
    BY <1>1, <1>5
  <2>4. Heard(0)'
    BY <2>1 DEF Heard
  <2>5. at' = Heads(sent') => Heard(Len(sent.headers))'
    <3>1. at' = Heads(sent') => Len(sent'.headers) = 0
      BY <1>5, <2>3
    <3> QED
      BY <2>1, <3>1 DEF Heard
  <2>6. ~(at' > Heads(sent'))
    BY <1>5, <2>3
  <2>7. ASSUME NEW i \in 1..Len(sent'.headers)
        PROVE  (at' = 2 * i => off' = 0 /\ Heard(i - 1)') /\ at' # 2 * i + 1
    <3>1. (at' = 2 * i => i = 1 /\ off' = 0) /\ at' # 2 * i + 1
      BY <1>5, <2>2
    <3>2. i = 1 => Heard(i - 1)'
      BY <2>1 DEF Heard
    <3> QED
      BY <3>1, <3>2
  <2> QED
    BY <2>4, <2>5, <2>6, <2>7 DEF HeadersSoFar
<1>9. HeadersInOrder'
  <2>1. LoweredFields(sent.headers) \in Seq(Field)
    BY <1>1, MessageFacts, LoweredFacts
  <2> QED
    BY <1>3, <1>5, <2>1, PrefixFacts DEF HeadersInOrder
<1>10. BuffersSoFar'
  BY <1>1, <1>5 DEF BuffersSoFar
<1>11. RestSoFar'
  <2>1. at <= Heads(sent) /\ at' <= Heads(sent) /\ ~(at' > Heads(sent))
    BY <1>1, <1>2, <1>5
  <2>2. body' = <<>>
    BY <1>3, <2>1 DEF RestSoFar
  <2>3. ASSUME clean'
        PROVE  LET u == IF at' = 1 THEN SubSeq(sent'.url, 1, off') ELSE sent'.url
               IN  url' = PathOf(u) /\ query' = QueryOf(u)
    <3>1. CASE at' = 1 /\ off' = off + n
      BY <1>5, <1>6, <2>3, <3>1
    <3>2. CASE at' = 2 /\ off + n = Len(sent.url)
      <4>1. SubSeq(sent.url, 1, off + n) = sent'.url /\ at' # 1
        BY <1>4, <1>5, <3>2
      <4> QED
        BY <1>6, <2>3, <4>1
    <3> QED
      BY <1>5, <3>1, <3>2
  <2>4. at' <= Heads(sent') /\ ~(at' > Heads(sent'))
    BY <1>5, <2>1
  <2> QED
    BY <2>2, <2>3, <2>4 DEF RestSoFar
<1>12. OneHeaderBuffered'
  BY <1>3, <1>5 DEF OneHeaderBuffered
<1> QED
  BY <1>7, <1>8, <1>9, <1>10, <1>11, <1>12 DEF Progress

(* on_header_field in the headers *)
LEMMA HeaderFieldStep ==
  ASSUME TypeOK, Position, at # 0, HeadersSoFar, RestSoFar,
         NEW n \in Sizes, Advance(n), NEW i \in 1..Len(sent.headers),
         at = 2 * i, Now.text = sent.headers[i].name, OnHeaderField(Piece(n))
  PROVE  Progress'
<1> DEFINE N == Len(sent.headers)
           name == sent.headers[i].name
<1>1. /\ sent \in Messages /\ N \in Nat /\ Heads(sent) = 2 * N + 2 /\ Ends(sent) > 2 * N + 2
      /\ name \in Text /\ name # <<>> /\ Len(name) \in Nat
  <2>1. sent \in Messages
    BY DEF TypeOK
  <2>2. name \in Text /\ name # <<>>
    BY <2>1, FieldFacts
  <2> QED
    <3>1. Len(name) \in Nat
      BY <2>2, LenProperties DEF Text
    <3>2. /\ N \in Nat /\ Len(sent.trailers) \in Nat /\ Heads(sent) = 2 * N + 2
          /\ Bodies(sent) \in {0, 1} /\ Tails(sent) = Heads(sent) + Bodies(sent)
          /\ Ends(sent) = Tails(sent) + 2 * Len(sent.trailers) + 1
      BY <2>1, MessageFacts
    <3>3. Ends(sent) > 2 * N + 2
      BY <3>2
    <3> QED
      BY <2>1, <2>2, <3>1, <3>2, <3>3
<1> DEFINE piece == Piece(n)
           sofar == SubSeq(name, 1, off)
           now == SubSeq(name, 1, off + n)
<1>2. /\ piece \in Seq(Chars) /\ n # 0 /\ n \in Nat /\ off \in Nat /\ sofar \o piece = now
      /\ off = 0 => sofar = <<>>
      /\ off + n = Len(name) => now = name
      /\ now \in Text /\ Len(now) = off + n /\ off + n <= Len(name)
  <2>1. piece \in Text /\ n \in Nat /\ off \in Nat /\ sofar \o piece = now
    BY <1>1, PieceFacts
  <2>2. /\ off = 0 => sofar = <<>>
        /\ off + n = Len(name) => now = name
        /\ now \in Text /\ Len(now) = off + n /\ off + n <= Len(name)
    BY <1>1, PieceFacts
  <2>3. n # 0
    BY <1>1, PieceFacts
  <2> QED
    BY <2>1, <2>2, <2>3 DEF Text
<1>3. /\ sent' = sent /\ off' \in Nat /\ at' \in Nat
      /\ \/ at' = 2 * i /\ off' = off + n
         \/ at' = 2 * i + 1 /\ off' = 0 /\ off + n = Len(name)
  BY <1>1, AdvanceFacts
<1> HIDE DEF name, piece, sofar, now
<1>4. i - 1 \in 0..N
  BY <1>1
<1>5. /\ Stored(i - 1) \in Seq(Field)
      /\ IsPrefix(Stored(i - 1), LoweredFields(sent.headers))
      /\ i - 1 = 0 => Stored(i - 1) = <<>>
      /\ i - 1 # 0 => Stored(i - 1)
           = Append(Stored((i - 1) - 1), [name |-> Lowered(sent.headers[i - 1].name),
                                          value |-> Lowered(sent.headers[i - 1].value)])
  BY <1>1, <1>4, StoredFacts DEF Stored
<1>6. headers' = Stored(i - 1) /\ key' = now /\ val' = <<>> /\ ~lastWasValue'
  <2>1. CASE off # 0
    <3>1. headers = Stored(i - 1) /\ key = sofar /\ val = <<>> /\ ~lastWasValue
      BY <2>1 DEF HeadersSoFar, sofar, name
    <3> QED
      BY <1>2, <3>1 DEF OnHeaderField, piece
  <2>2. CASE off = 0 /\ i = 1
    <3>1. headers = <<>> /\ key = <<>> /\ val = <<>> /\ ~lastWasValue
      BY <2>2 DEF HeadersSoFar, Heard
    <3>2. key' = key \o piece /\ UNCHANGED <<headers, val>> /\ ~lastWasValue'
      BY <3>1 DEF OnHeaderField, piece
    <3>3. Stored(i - 1) = <<>>
      BY <1>5, <2>2
    <3> QED
      BY <1>2, <2>2, <3>1, <3>2, <3>3
  <2>3. CASE off = 0 /\ i # 1
    <3>1. /\ lastWasValue /\ headers = Stored((i - 1) - 1)
          /\ key = sent.headers[i - 1].name /\ val = sent.headers[i - 1].value
      <4>1. Heard(i - 1)
        BY <2>3 DEF HeadersSoFar
      <4>2. i - 1 # 0
        BY <2>3
      <4> QED
        BY <4>1, <4>2 DEF Heard
    <3>2. /\ headers' = Append(headers, [name |-> Lowered(key), value |-> Lowered(val)])
          /\ key' = piece /\ val' = <<>> /\ ~lastWasValue'
      BY <3>1 DEF OnHeaderField, Push, piece
    <3>3. headers' = Stored(i - 1)
      BY <1>5, <2>3, <3>1, <3>2
    <3>4. now = piece
      BY <1>2, <2>3, ConcatEmptySeq
    <3> QED
      BY <3>2, <3>3, <3>4
  <2> QED
    BY <2>1, <2>2, <2>3
<1>7. UNCHANGED <<url, query, body, contentLength, method, requestId, requestUuid,
                  requestComplete, keepAlive, refused, clean>>
  BY DEF OnHeaderField, target, ids, verdict
<1>8. TypeOK'
  <2>1. headers' \in Seq(Field) /\ lastWasValue' \in BOOLEAN
    BY <1>5, <1>6 DEF OnHeaderField
  <2>2. key' \in Text
    BY <1>2, <1>6
  <2>3. val' \in Text
    BY <1>6, EmptySeq DEF Text
  <2> QED
    BY <1>1, <1>3, <1>7, <2>1, <2>2, <2>3 DEF TypeOK
<1>9. HeadersSoFar'
  <2>1. /\ at' # 1 /\ at' # Heads(sent') /\ ~(at' > Heads(sent'))
        /\ \A k \in 1..Len(sent'.headers) :
             /\ at' = 2 * k => k = i /\ off' = off + n
             /\ at' = 2 * k + 1 => k = i /\ off' = 0 /\ off + n = Len(name)
    BY <1>1, <1>3
  <2>2. Stored(i - 1)' = Stored(i - 1)
    BY <1>3 DEF Stored
  <2>3. ASSUME NEW k \in 1..Len(sent'.headers), at' = 2 * k
        PROVE  /\ off' # 0
               /\ headers' = Stored(k - 1)' /\ val' = <<>> /\ ~lastWasValue'
               /\ key' = SubSeq(sent'.headers[k].name, 1, off')
    <3>1. k = i /\ off' = off + n
      BY <2>1, <2>3
    <3> QED
      BY <1>2, <1>3, <1>6, <2>2, <3>1 DEF now, name
  <2>4. ASSUME NEW k \in 1..Len(sent'.headers), at' = 2 * k + 1
        PROVE  /\ headers' = Stored(k - 1)' /\ key' = sent'.headers[k].name
               /\ val' = SubSeq(sent'.headers[k].value, 1, off')
               /\ lastWasValue' <=> off' # 0
    <3>1. k = i /\ off' = 0 /\ off + n = Len(name)
      BY <2>1, <2>4
    <3>2. SubSeq(sent'.headers[k].value, 1, 0) = <<>>
      BY SubSeqEmpty
    <3>3. key' = sent'.headers[k].name
      BY <1>2, <1>3, <1>6, <3>1 DEF name
    <3> QED
      BY <1>6, <2>2, <3>1, <3>2, <3>3
  <2> QED
    BY <2>1, <2>3, <2>4 DEF HeadersSoFar
<1>10. HeadersInOrder'
  BY <1>3, <1>5, <1>6 DEF HeadersInOrder
<1>11. BuffersSoFar'
  BY <1>1, <1>3 DEF BuffersSoFar
<1>12. RestSoFar'
  <2>1. /\ at # 1 /\ at' # 1 /\ at <= Heads(sent) /\ at' <= Heads(sent)
        /\ ~(at' > Heads(sent))
    BY <1>1, <1>3
  <2> QED
    BY <1>3, <1>7, <2>1 DEF RestSoFar
<1>13. OneHeaderBuffered'
  <2>1. /\ sent.headers[i] \in ToSet(sent.headers \o sent.trailers)
        /\ sent.headers[i].name \in Text /\ sent.headers[i].value \in Text
    BY <1>1, FieldFacts
  <2>2. off + n \in 0..Len(name) /\ 0 \in 0..Len(sent.headers[i].value)
    BY <1>1, <1>2, <2>1, LenProperties DEF Text
  <2> QED
    BY <1>3, <1>6, <2>1, <2>2, FieldBuffered DEF now, name
<1> QED
  BY <1>8, <1>9, <1>10, <1>11, <1>12, <1>13 DEF Progress

(* on_header_value in the headers *)
LEMMA HeaderValueStep ==
  ASSUME TypeOK, Position, at # 0, HeadersSoFar, RestSoFar,
         NEW n \in Sizes, Advance(n), NEW i \in 1..Len(sent.headers),
         at = 2 * i + 1, Now.text = sent.headers[i].value, OnHeaderValue(Piece(n))
  PROVE  Progress'
<1> DEFINE N == Len(sent.headers)
           value == sent.headers[i].value
<1>1. /\ sent \in Messages /\ N \in Nat /\ Heads(sent) = 2 * N + 2 /\ Ends(sent) > 2 * N + 2
      /\ value \in Text /\ Len(value) \in Nat
  <2>1. sent \in Messages
    BY DEF TypeOK
  <2>2. value \in Text
    BY <2>1, FieldFacts
  <2> QED
    <3>1. Len(value) \in Nat
      BY <2>2, LenProperties DEF Text
    <3> QED
      BY <2>1, <2>2, <3>1, MessageFacts
<1> DEFINE piece == Piece(n)
           sofar == SubSeq(value, 1, off)
           now == SubSeq(value, 1, off + n)
<1>2. /\ n \in Nat /\ off \in Nat /\ sofar \o piece = now
      /\ value # <<>> => n # 0
      /\ off + n = Len(value) => now = value
      /\ now \in Text /\ Len(now) = off + n /\ off + n <= Len(value)
  <2>1. n \in Nat /\ off \in Nat /\ sofar \o piece = now
    BY <1>1, PieceFacts
  <2>2. value # <<>> => n # 0
    BY <1>1, PieceFacts
  <2>3. /\ off + n = Len(value) => now = value
        /\ now \in Text /\ Len(now) = off + n /\ off + n <= Len(value)
    BY <1>1, PieceFacts
  <2> QED
    BY <2>1, <2>2, <2>3
<1>3. /\ sent' = sent /\ off' \in Nat /\ at' \in Nat
      /\ \/ at' = 2 * i + 1 /\ off' = off + n /\ off + n < Len(value)
         \/ at' = 2 * i + 2 /\ off' = 0 /\ off + n = Len(value)
  BY <1>1, AdvanceFacts
<1>4. Len(value) # 0 => value # <<>>
  BY EmptySeq
<1> HIDE DEF value, piece, sofar, now
<1>5. /\ headers' = Stored(i - 1) /\ key' = sent.headers[i].name /\ val' = now
      /\ lastWasValue'
  <2>1. headers = Stored(i - 1) /\ key = sent.headers[i].name /\ val = sofar
    BY DEF HeadersSoFar, sofar, value
  <2> QED
    BY <1>2, <2>1 DEF OnHeaderValue, request, piece
<1>6. UNCHANGED <<url, query, headers, body, contentLength, method, requestId, requestUuid,
                  key, requestComplete, keepAlive, refused, clean>>
  BY DEF OnHeaderValue, request, target, ids, verdict
<1>7. TypeOK'
  <2>1. val' \in Text
    BY <1>2, <1>5
  <2>2. lastWasValue' \in BOOLEAN
    BY DEF OnHeaderValue
  <2> QED
    BY <1>1, <1>3, <1>6, <2>1, <2>2 DEF TypeOK
<1>8. HeadersSoFar'
  <2>1. /\ at' # 1 /\ ~(at' > Heads(sent'))
        /\ at' = Heads(sent') => i = N /\ off' = 0 /\ off + n = Len(value)
        /\ \A k \in 1..Len(sent'.headers) :
             /\ at' = 2 * k => k - 1 = i /\ off' = 0 /\ off + n = Len(value)
             /\ at' = 2 * k + 1 => k = i /\ off' = off + n /\ off + n < Len(value)
    <3>1. /\ at' # 1 /\ ~(at' > Heads(sent'))
          /\ at' = Heads(sent') => i = N /\ off' = 0 /\ off + n = Len(value)
      BY <1>1, <1>3
    <3>2. ASSUME NEW k \in 1..N, at' = 2 * k
          PROVE  k - 1 = i /\ off' = 0 /\ off + n = Len(value)
      BY <1>1, <1>3, <3>2
    <3>3. ASSUME NEW k \in 1..N, at' = 2 * k + 1
          PROVE  k = i /\ off' = off + n /\ off + n < Len(value)
      BY <1>1, <1>3, <3>3
    <3> QED
      BY <1>3, <3>1, <3>2, <3>3
  <2>2. Stored(i - 1)' = Stored(i - 1)
    BY <1>3 DEF Stored
  <2>3. off + n = Len(value) => Heard(i)'
    <3>1. SUFFICES ASSUME off + n = Len(value)
                   PROVE  /\ i # 0 /\ lastWasValue' /\ headers' = Stored(i - 1)'
                          /\ key' = sent'.headers[i].name /\ val' = sent'.headers[i].value
      BY DEF Heard
    <3> QED
      BY <1>2, <1>3, <1>5, <2>2, <3>1 DEF value
  <2>4. ASSUME NEW k \in 1..Len(sent'.headers), at' = 2 * k
        PROVE  off' = 0 /\ Heard(k - 1)'
    <3>1. k - 1 = i /\ off' = 0 /\ off + n = Len(value)
      BY <2>1, <2>4
    <3> QED
      BY <2>3, <3>1 DEF Heard
  <2>5. ASSUME NEW k \in 1..Len(sent'.headers), at' = 2 * k + 1
        PROVE  /\ headers' = Stored(k - 1)' /\ key' = sent'.headers[k].name
               /\ val' = SubSeq(sent'.headers[k].value, 1, off')
               /\ lastWasValue' <=> off' # 0
    <3>1. k = i /\ off' = off + n /\ off + n < Len(value)
      BY <2>1, <2>5
    <3>2. off' # 0
      BY <1>1, <1>2, <1>4, <3>1
    <3> QED
      BY <1>3, <1>5, <2>2, <3>1, <3>2 DEF now, value
  <2>6. at' = Heads(sent') => Heard(Len(sent.headers))'
    BY <1>3, <2>1, <2>3 DEF Heard
  <2> QED
    BY <2>1, <2>4, <2>5, <2>6 DEF HeadersSoFar
<1>9. HeadersInOrder'
  <2>1. i - 1 \in 0..N
    BY <1>1
  <2>2. IsPrefix(Stored(i - 1), LoweredFields(sent.headers))
    BY <1>1, <2>1, StoredFacts DEF Stored
  <2> QED
    BY <1>3, <1>5, <2>2 DEF HeadersInOrder
<1>10. BuffersSoFar'
  BY <1>1, <1>3 DEF BuffersSoFar
<1>11. RestSoFar'
  <2>1. /\ at # 1 /\ at' # 1 /\ at <= Heads(sent) /\ at' <= Heads(sent)
        /\ ~(at' > Heads(sent))
    BY <1>1, <1>3
  <2> QED
    BY <1>3, <1>6, <2>1 DEF RestSoFar
<1>12. OneHeaderBuffered'
  <2>1. /\ sent.headers[i] \in ToSet(sent.headers \o sent.trailers)
        /\ sent.headers[i].name \in Text /\ sent.headers[i].value \in Text
    BY <1>1, FieldFacts
  <2>2. off + n \in 0..Len(value) /\ 0 \in 0..Len(sent.headers[i].name)
    BY <1>1, <1>2, <2>1, LenProperties DEF Text
  <2> QED
    BY <1>3, <1>5, <2>1, <2>2, FieldBuffered DEF now, value
<1> QED
  BY <1>7, <1>8, <1>9, <1>10, <1>11, <1>12 DEF Progress

(* Behind the headers come the body, if there is one, and the trailers,    *)
(* each a name and a value.                                                *)
LEMMA TailFacts ==
  ASSUME NEW m \in Messages, NEW p \in Heads(m) + 1..Ends(m)
  PROVE  LET e == Elements(m)[p] IN
         /\ p = Heads(m) + 1 /\ m.body # <<>> => e.kind = "body"
         /\ e.kind = "body" => p = Heads(m) + 1 /\ p = Tails(m) /\ m.body # <<>>
         /\ e.kind = "field" => \E i \in 1..Len(m.trailers) : p = Tails(m) + 2 * i - 1
         /\ e.kind = "value" => \E i \in 1..Len(m.trailers) : p = Tails(m) + 2 * i
<1> DEFINE e == Elements(m)[p]
           n == Len(m.headers)
           k == Len(m.trailers)
<1>1. /\ n \in Nat /\ k \in Nat /\ Heads(m) = 2 * n + 2 /\ Ends(m) \in Nat /\ Tails(m) \in Nat
      /\ p \in 1..Ends(m) /\ p > 2 * n + 2
  <2>1. /\ n \in Nat /\ k \in Nat /\ Heads(m) = 2 * n + 2 /\ Bodies(m) \in {0, 1}
        /\ Tails(m) = Heads(m) + Bodies(m) /\ Ends(m) = Tails(m) + 2 * k + 1
    BY MessageFacts
  <2> HIDE DEF n, k
  <2> QED
    BY <2>1
<1>2. /\ e.kind = "body" => p = Heads(m) + 1 /\ p = Tails(m) /\ m.body # <<>>
      /\ e.kind = "field" => \/ \E i \in 1..n : p = 2 * i
                             \/ \E i \in 1..k : p = Tails(m) + 2 * i - 1
      /\ e.kind = "value" => \/ \E i \in 1..n : p = 2 * i + 1
                             \/ \E i \in 1..k : p = Tails(m) + 2 * i
  BY <1>1, KindFacts
<1>3. m.body # <<>> => Elements(m)[Heads(m) + 1].kind = "body"
  <2>1. m.body # <<>> => Elements(m)[Heads(m) + 1] = Element("body", m.body)
    BY ElementsOf
  <2> QED
    BY <2>1 DEF Element
<1> HIDE DEF e, n, k
<1>4. \A i \in 1..n : p # 2 * i /\ p # 2 * i + 1
  BY <1>1
<1>5. p = Heads(m) + 1 /\ m.body # <<>> => e.kind = "body"
  BY <1>3 DEF e
<1> QED
  BY <1>2, <1>4, <1>5 DEF e, k

(* Where the parser goes on behind the headers. *)
LEMMA BehindHeaders ==
  ASSUME sent \in Messages, sent' = sent, at' \in Nat, at' > Heads(sent),
         IsPrefix(LoweredFields(sent.headers), headers'),
         sent.trailers = <<>> => headers' = LoweredFields(sent.headers)
  PROVE  HeadersSoFar' /\ HeadersInOrder'
<1>1. Len(sent.headers) \in Nat /\ Heads(sent) = 2 * Len(sent.headers) + 2
  BY MessageFacts
<1>2. /\ at' # 1 /\ at' # Heads(sent')
      /\ \A i \in 1..Len(sent'.headers) : at' # 2 * i /\ at' # 2 * i + 1
  BY <1>1
<1> QED
  BY <1>2 DEF HeadersSoFar, HeadersInOrder

(* on_headers_complete *)
LEMMA HeadersCompleteStep ==
  ASSUME TypeOK, Position, at # 0, HeadersSoFar, RestSoFar,
         NEW n \in Sizes, Advance(n), Now.kind = "headersComplete", OnHeadersComplete
  PROVE  Progress'
<1> DEFINE N == Len(sent.headers)
           L == LoweredFields(sent.headers)
<1>1. /\ sent \in Messages /\ N \in Nat /\ Heads(sent) = 2 * N + 2 /\ Ends(sent) \in Nat
      /\ Ends(sent) > Heads(sent) /\ Len(sent.body) \in Nat /\ sent.method \in Methods
      /\ sent.body \in Text
  <2>1. sent \in Messages
    BY DEF TypeOK
  <2> QED
    BY <2>1, MessageFacts
<1>2. at = Heads(sent) /\ off = 0 /\ n = 0 /\ Len(Now.text) = 0
  <2>1. /\ at \in 1..Ends(sent) /\ off \in 0..Len(Now.text) /\ off + n \in 0..Len(Now.text)
        /\ n \in Nat
    BY <1>1, PieceFacts
  <2>2. at = Heads(sent) /\ Now.text = <<>>
    BY <1>1, <2>1, KindFacts DEF Now
  <2>3. Len(Now.text) = 0
    BY <2>2
  <2> QED
    BY <2>1, <2>2, <2>3
<1>3. sent' = sent /\ at' = Heads(sent) + 1 /\ off' = 0 /\ at' \in Nat
  BY <1>1, <1>2, AdvanceFacts
<1> HIDE DEF L
<1>4. headers' = L /\ key' = <<>> /\ val' = <<>> /\ L \in Seq(Field)
  <2>1. N \in 0..N
    BY <1>1
  <2>2. /\ L \in Seq(Field) /\ Stored(N) = L
        /\ N = 0 => Stored(N) = <<>>
        /\ N # 0 => Stored(N) = Append(Stored(N - 1),
                                       [name |-> Lowered(sent.headers[N].name),
                                        value |-> Lowered(sent.headers[N].value)])
    BY <1>1, <2>1, StoredFacts DEF Stored, L
  <2>3. Heard(N)
    BY <1>2 DEF HeadersSoFar
  <2>4. CASE N = 0
    BY <2>2, <2>3, <2>4 DEF Heard, OnHeadersComplete
  <2>5. CASE N # 0
    <3>1. /\ lastWasValue /\ headers = Stored(N - 1)
          /\ key = sent.headers[N].name /\ val = sent.headers[N].value
      BY <2>3, <2>5 DEF Heard
    <3>2. /\ headers' = Append(headers, [name |-> Lowered(key), value |-> Lowered(val)])
          /\ key' = <<>> /\ val' = <<>>
      BY <3>1 DEF OnHeadersComplete, Push
    <3> QED
      BY <2>2, <2>5, <3>1, <3>2
  <2> QED
    BY <2>4, <2>5
<1>5. /\ UNCHANGED <<url, query, body, requestId, requestUuid, lastWasValue,
                     requestComplete, keepAlive, refused, clean>>
      /\ contentLength' = IF sent.sized THEN Len(sent.body) ELSE Unknown
      /\ method' = sent.method
  BY DEF OnHeadersComplete, target, ids, verdict
<1>6. TypeOK'
  <2>1. key' \in Text /\ val' \in Text
    BY <1>4, EmptySeq DEF Text
  <2>2. contentLength' \in Nat \union {Unknown}
    BY <1>1, <1>5
  <2> QED
    BY <1>1, <1>3, <1>4, <1>5, <2>1, <2>2 DEF TypeOK
<1>7. HeadersSoFar' /\ HeadersInOrder'
  <2>1. IsPrefix(L, L)
    BY <1>4, PrefixFacts
  <2> QED
    BY <1>1, <1>3, <1>4, <2>1, BehindHeaders DEF L
<1>8. /\ Now'.kind # "value"
      /\ Now'.kind = "body" <=> sent.body # <<>>
  <2>1. /\ at' \in Heads(sent) + 1..Ends(sent)
        /\ Tails(sent) \in Nat /\ Tails(sent) >= Heads(sent) /\ Heads(sent) \in Nat
    BY <1>1, <1>3, MessageFacts
  <2>2. Now' = Elements(sent)[at']
    BY <1>3 DEF Now
  <2> QED
    BY <1>1, <1>3, <2>1, <2>2, TailFacts
<1>9. BuffersSoFar'
  BY <1>3, <1>4, <1>8 DEF BuffersSoFar
<1>10. RestSoFar'
  <2>1. at # 1 /\ at' # 1 /\ at <= Heads(sent) /\ ~(at' <= Heads(sent))
    BY <1>1, <1>2, <1>3
  <2>2. body = <<>> /\ SubSeq(sent.body, 1, 0) = <<>>
    BY <2>1, SubSeqEmpty DEF RestSoFar
  <2> QED
    BY <1>3, <1>5, <1>8, <2>1, <2>2 DEF RestSoFar
<1>11. OneHeaderBuffered'
  BY <1>4 DEF OneHeaderBuffered
<1> QED
  BY <1>6, <1>7, <1>9, <1>10, <1>11 DEF Progress

(* on_body *)
LEMMA BodyStep ==
  ASSUME TypeOK, Position, at # 0, HeadersSoFar, BuffersSoFar, RestSoFar,
         OneHeaderBuffered,
         NEW n \in Sizes, Advance(n), Now.kind = "body", OnBody(Piece(n))
  PROVE  Progress'
<1>1. /\ sent \in Messages /\ Heads(sent) \in Nat /\ Heads(sent) > 1
      /\ Ends(sent) \in Nat /\ Ends(sent) > Tails(sent) /\ sent.body \in Text
      /\ Len(sent.trailers) \in Nat
  <2>1. sent \in Messages
    BY DEF TypeOK
  <2>2. /\ Len(sent.headers) \in Nat /\ Len(sent.trailers) \in Nat /\ sent.body \in Text
        /\ Heads(sent) = 2 * Len(sent.headers) + 2 /\ Bodies(sent) \in {0, 1}
        /\ Tails(sent) = Heads(sent) + Bodies(sent)
        /\ Ends(sent) = Tails(sent) + 2 * Len(sent.trailers) + 1
    BY <2>1, MessageFacts
  <2> QED
    BY <2>1, <2>2
<1>2. at = Heads(sent) + 1 /\ at = Tails(sent) /\ Now.text = sent.body
  <2>1. at \in 1..Ends(sent)
    BY <1>1, PieceFacts
  <2> QED
    BY <1>1, <2>1, KindFacts DEF Now
<1>3. /\ body' = SubSeq(sent.body, 1, off + n) /\ body' \in Text
      /\ off + n = Len(sent.body) => body' = sent.body
  <2>1. body = SubSeq(sent.body, 1, off)
    BY <1>1, <1>2 DEF RestSoFar
  <2>2. body' = body \o Piece(n)
    BY DEF OnBody
  <2>3. /\ SubSeq(sent.body, 1, off) \o Piece(n) = SubSeq(sent.body, 1, off + n)
        /\ SubSeq(sent.body, 1, off + n) \in Text
        /\ off + n = Len(sent.body) => SubSeq(sent.body, 1, off + n) = sent.body
    BY <1>1, <1>2, PieceFacts
  <2> QED
    BY <2>1, <2>2, <2>3
<1>4. /\ sent' = sent /\ at' \in Nat /\ off' \in Nat
      /\ \/ off + n < Len(sent.body) /\ at' = at /\ off' = off + n /\ Now' = Now
         \/ off + n = Len(sent.body) /\ at' = at + 1 /\ off' = 0
  BY <1>1, <1>2, AdvanceFacts
<1>5. UNCHANGED <<url, query, headers, contentLength, method, requestId, requestUuid,
                  key, val, lastWasValue, requestComplete, keepAlive, refused, clean>>
  BY DEF OnBody, target, ids, current, verdict
<1>6. TypeOK'
  BY <1>1, <1>3, <1>4, <1>5 DEF TypeOK
<1>7. at' > Heads(sent) /\ at > Heads(sent)
  BY <1>1, <1>2, <1>4
<1>8. HeadersSoFar' /\ HeadersInOrder'
  <2>1. /\ IsPrefix(LoweredFields(sent.headers), headers)
        /\ sent.trailers = <<>> => headers = LoweredFields(sent.headers)
    BY <1>7 DEF HeadersSoFar
  <2> QED
    BY <1>1, <1>4, <1>5, <1>7, <2>1, BehindHeaders
<1>9. lastWasValue \/ (val = <<>> /\ key = <<>>)
  BY <1>7 DEF BuffersSoFar
<1>10. at' = at + 1 => Now'.kind # "value" /\ Now'.kind # "body"
  <2>1. ASSUME at' = at + 1 PROVE Now'.kind # "value" /\ Now'.kind # "body"
    <3>1. at' \in Heads(sent) + 1..Ends(sent) /\ at' = Tails(sent) + 1 /\ Tails(sent) \in Nat
      BY <1>1, <1>2, <2>1
    <3>2. Now' = Elements(sent)[at']
      BY <1>4 DEF Now
    <3>3. /\ Now'.kind = "value" => \E i \in 1..Len(sent.trailers) : at' = Tails(sent) + 2 * i
          /\ Now'.kind = "body" => at' = Tails(sent)
      BY <1>1, <3>1, <3>2, TailFacts
    <3> QED
      BY <1>1, <3>1, <3>3
  <2> QED
    BY <2>1
<1>11. BuffersSoFar'
  BY <1>4, <1>5, <1>9, <1>10 DEF BuffersSoFar
<1>12. RestSoFar'
  <2>1. at # 1 /\ at' # 1 /\ ~(at' <= Heads(sent))
    BY <1>1, <1>4, <1>7
  <2>2. /\ contentLength = IF sent.sized THEN Len(sent.body) ELSE Unknown
        /\ method = sent.method
        /\ clean => url = PathOf(sent.url) /\ query = QueryOf(sent.url)
    BY <1>7, <2>1 DEF RestSoFar
  <2>3. body' = IF Now'.kind = "body" THEN SubSeq(sent.body, 1, off') ELSE sent.body
    <3>1. CASE at' = at /\ off' = off + n /\ Now' = Now
      BY <1>3, <3>1
    <3>2. CASE off + n = Len(sent.body) /\ at' = at + 1
      BY <1>3, <1>10, <3>2
    <3> QED
      BY <1>4, <3>1, <3>2
  <2> QED
    BY <1>4, <1>5, <2>1, <2>2, <2>3 DEF RestSoFar
<1>13. OneHeaderBuffered'
  BY <1>4, <1>5 DEF OneHeaderBuffered
<1> QED
  BY <1>6, <1>8, <1>11, <1>12, <1>13 DEF Progress

(* on_header_field in the trailers *)
LEMMA TrailerFieldStep ==
  ASSUME TypeOK, Position, at # 0, HeadersSoFar, BuffersSoFar, RestSoFar,
         NEW n \in Sizes, Advance(n), NEW i \in 1..Len(sent.trailers),
         at = Tails(sent) + 2 * i - 1, Now.kind = "field",
         Now.text = sent.trailers[i].name, OnHeaderField(Piece(n))
  PROVE  Progress'
<1> DEFINE name == sent.trailers[i].name
<1>1. /\ sent \in Messages /\ Heads(sent) \in Nat /\ Heads(sent) > 1
      /\ Tails(sent) \in Nat /\ Tails(sent) >= Heads(sent)
      /\ Ends(sent) = Tails(sent) + 2 * Len(sent.trailers) + 1
      /\ Len(sent.trailers) \in Nat /\ sent.trailers # <<>>
  <2>1. sent \in Messages
    BY DEF TypeOK
  <2>2. /\ Len(sent.headers) \in Nat /\ Len(sent.trailers) \in Nat
        /\ Heads(sent) = 2 * Len(sent.headers) + 2 /\ Bodies(sent) \in {0, 1}
        /\ Tails(sent) = Heads(sent) + Bodies(sent)
        /\ Ends(sent) = Tails(sent) + 2 * Len(sent.trailers) + 1
    BY <2>1, MessageFacts
  <2>3. sent.trailers # <<>>
    BY <2>2
  <2> QED
    BY <2>1, <2>2, <2>3
<1>2. name \in Text /\ name # <<>> /\ Len(name) \in Nat
  <2>1. name \in Text /\ name # <<>>
    BY <1>1, FieldFacts
  <2> QED
    BY <2>1, LenProperties DEF Text
<1> DEFINE piece == Piece(n)
           sofar == SubSeq(name, 1, off)
           now == SubSeq(name, 1, off + n)
<1>3. /\ piece \in Text /\ n # 0 /\ n \in Nat /\ off \in Nat /\ sofar \o piece = now
      /\ off = 0 => sofar = <<>>
      /\ off + n = Len(name) => now = name
      /\ now \in Text /\ Len(now) = off + n /\ off + n <= Len(name)
  <2>1. piece \in Text /\ n \in Nat /\ off \in Nat /\ sofar \o piece = now
    <3>1. piece \in Text /\ n \in Nat /\ off \in 0..Len(Now.text)
      BY <1>1, PieceFacts
    <3>2. sofar \o piece = now
      BY <1>1, PieceFacts
    <3> QED
      BY <3>1, <3>2
  <2>2. /\ off = 0 => sofar = <<>>
        /\ off + n = Len(name) => now = name
        /\ now \in Text /\ Len(now) = off + n /\ off + n <= Len(name)
    BY <1>1, PieceFacts
  <2>3. n # 0
    BY <1>1, <1>2, PieceFacts
  <2> QED
    BY <2>1, <2>2, <2>3
<1>4. /\ sent' = sent /\ off' \in Nat /\ at' \in Nat
      /\ \/ at' = at /\ off' = off + n /\ Now' = Now
         \/ at' = at + 1 /\ off' = 0 /\ off + n = Len(name)
  <2>1. at # Ends(sent)
    BY <1>1
  <2> QED
    BY <1>1, <2>1, AdvanceFacts
<1> HIDE DEF name, piece, sofar, now
<1>5. at > Heads(sent) /\ at' > Heads(sent)
  BY <1>1, <1>4
<1>6. at' = at + 1 => Now'.kind = "value"
  <2>1. ASSUME at' = at + 1 PROVE Now'.kind = "value"
    <3>1. at' = Tails(sent) + 2 * i
      BY <1>1, <2>1
    <3>2. Now' = Elements(sent)[Tails(sent) + 2 * i]
      BY <1>4, <3>1 DEF Now
    <3>3. Elements(sent)[Tails(sent) + 2 * i] = Element("value", sent.trailers[i].value)
      BY <1>1, ElementsOf
    <3> QED
      BY <3>2, <3>3 DEF Element
  <2> QED
    BY <2>1
<1>7. /\ UNCHANGED <<url, query, body, contentLength, method, requestId, requestUuid,
                     requestComplete, keepAlive, refused, clean>>
      /\ ~lastWasValue' /\ lastWasValue' \in BOOLEAN
  BY DEF OnHeaderField, target, ids, verdict
<1>8. key' = now /\ val' = <<>>
  <2>1. CASE off # 0
    <3>1. key = sofar /\ val = <<>> /\ ~lastWasValue
      BY <1>5, <2>1 DEF BuffersSoFar, sofar, name
    <3> QED
      BY <1>3, <3>1 DEF OnHeaderField, piece
  <2>2. CASE off = 0
    <3>1. now = piece
      BY <1>3, <2>2, ConcatEmptySeq DEF Text
    <3>2. lastWasValue \/ (val = <<>> /\ key = <<>>)
      BY <1>5, <2>2 DEF BuffersSoFar
    <3>3. CASE lastWasValue
      BY <3>1, <3>3 DEF OnHeaderField, piece
    <3>4. CASE ~lastWasValue
      <4>1. key' = <<>> \o piece /\ val' = <<>>
        BY <3>2, <3>4 DEF OnHeaderField, piece
      <4> QED
        BY <1>3, <2>2, <4>1
    <3> QED
      BY <3>3, <3>4
  <2> QED
    BY <2>1, <2>2
<1>9. headers' \in Seq(Field) /\ IsPrefix(LoweredFields(sent.headers), headers')
  <2> DEFINE L == LoweredFields(sent.headers)
             pushed == [name |-> Lowered(key), value |-> Lowered(val)]
  <2>1. headers \in Seq(Field) /\ key \in Text /\ val \in Text
    BY DEF TypeOK
  <2>2. pushed \in Field
    <3>1. Lowered(key) \in Text /\ Lowered(val) \in Text
      BY <2>1, LoweredType
    <3> QED
      BY <3>1 DEF Field
  <2>3. L \in Seq(Field)
    BY <1>1, MessageFacts, LoweredFacts
  <2>4. headers' = headers \/ headers' = Append(headers, pushed)
    BY DEF OnHeaderField, Push
  <2>5. IsPrefix(L, headers)
    BY <1>5 DEF HeadersSoFar
  <2> HIDE DEF L, pushed
  <2>6. IsPrefix(L, Append(headers, pushed))
    BY <2>1, <2>2, <2>3, <2>5, PrefixFacts
  <2>7. Append(headers, pushed) \in Seq(Field)
    BY <2>1, <2>2, AppendProperties
  <2> QED
    BY <2>1, <2>4, <2>5, <2>6, <2>7 DEF L
<1>10. TypeOK'
  <2>1. key' \in Text
    BY <1>3, <1>8
  <2>2. val' \in Text
    BY <1>8, EmptySeq DEF Text
  <2> QED
    BY <1>1, <1>4, <1>7, <1>9, <2>1, <2>2 DEF TypeOK
<1>11. HeadersSoFar' /\ HeadersInOrder'
  BY <1>1, <1>4, <1>5, <1>9, BehindHeaders
<1>12. BuffersSoFar'
  <2>1. CASE at' = at /\ off' = off + n /\ Now' = Now
    <3>1. off' # 0 /\ Now'.kind = "field" /\ Now'.text = name
      BY <1>3, <2>1 DEF name
    <3> QED
      BY <1>7, <1>8, <2>1, <3>1 DEF BuffersSoFar, now
  <2>2. CASE at' = at + 1 /\ off' = 0 /\ off + n = Len(name)
    <3>1. Now'.kind = "value" /\ SubSeq(Now'.text, 1, off') = <<>>
      BY <1>6, <2>2, SubSeqEmpty
    <3>2. key' = Now.text
      BY <1>3, <1>8, <2>2 DEF name
    <3>3. Elements(sent)'[at' - 1] = Now
      <4>1. at' - 1 = at
        BY <1>1, <1>4, <2>2
      <4>2. Elements(sent)' = Elements(sent)
        BY <1>4
      <4> QED
        BY <4>1, <4>2 DEF Now
    <3> QED
      BY <1>8, <3>1, <3>2, <3>3 DEF BuffersSoFar
  <2> QED
    BY <1>4, <2>1, <2>2
<1>13. RestSoFar'
  <2>1. at # 1 /\ at' # 1 /\ ~(at' <= Heads(sent)) /\ Now'.kind # "body"
    BY <1>1, <1>4, <1>5, <1>6
  <2> QED
    BY <1>4, <1>5, <1>7, <2>1 DEF RestSoFar
<1>14. OneHeaderBuffered'
  <2>1. /\ sent.trailers[i] \in ToSet(sent.headers \o sent.trailers)
        /\ sent.trailers[i].name \in Text /\ sent.trailers[i].value \in Text
    BY <1>1, FieldFacts
  <2>2. off + n \in 0..Len(name) /\ 0 \in 0..Len(sent.trailers[i].value)
    BY <1>2, <1>3, <2>1, LenProperties DEF Text
  <2> QED
    BY <1>4, <1>8, <2>1, <2>2, FieldBuffered DEF now, name
<1> QED
  BY <1>10, <1>11, <1>12, <1>13, <1>14 DEF Progress

(* on_header_value in the trailers *)
LEMMA TrailerValueStep ==
  ASSUME TypeOK, Position, at # 0, HeadersSoFar, BuffersSoFar, RestSoFar,
         NEW n \in Sizes, Advance(n), NEW i \in 1..Len(sent.trailers),
         at = Tails(sent) + 2 * i, Now.kind = "value",
         Now.text = sent.trailers[i].value, OnHeaderValue(Piece(n))
  PROVE  Progress'
<1> DEFINE value == sent.trailers[i].value
           N == Len(sent.trailers)
<1>1. /\ sent \in Messages /\ Heads(sent) \in Nat /\ Heads(sent) > 1
      /\ Tails(sent) \in Nat /\ Tails(sent) >= Heads(sent)
      /\ Ends(sent) = Tails(sent) + 2 * N + 1
      /\ N \in Nat /\ sent.trailers # <<>>
  <2>1. sent \in Messages
    BY DEF TypeOK
  <2>2. /\ Len(sent.headers) \in Nat /\ N \in Nat
        /\ Heads(sent) = 2 * Len(sent.headers) + 2 /\ Bodies(sent) \in {0, 1}
        /\ Tails(sent) = Heads(sent) + Bodies(sent)
        /\ Ends(sent) = Tails(sent) + 2 * N + 1
    BY <2>1, MessageFacts
  <2>3. sent.trailers # <<>>
    BY <2>2
  <2> QED
    BY <2>1, <2>2, <2>3
<1>2. value \in Text /\ Len(value) \in Nat
  <2>1. value \in Text
    BY <1>1, FieldFacts
  <2> QED
    BY <2>1, LenProperties DEF Text
<1>3. /\ SubSeq(value, 1, off) \o Piece(n) = SubSeq(value, 1, off + n)
      /\ SubSeq(value, 1, off + n) \in Text /\ Len(SubSeq(value, 1, off + n)) = off + n
      /\ off + n \in 0..Len(value)
  BY <1>1, PieceFacts
<1>4. /\ sent' = sent /\ off' \in Nat /\ at' \in Nat
      /\ \/ at' = at /\ off' = off + n /\ Now' = Now
         \/ at' = at + 1 /\ off' = 0
  <2>1. at # Ends(sent)
    BY <1>1
  <2> QED
    BY <1>1, <2>1, AdvanceFacts
<1>5. at > Heads(sent) /\ at' > Heads(sent) /\ at' \in Heads(sent) + 1..Ends(sent)
  BY <1>1, <1>4
<1>6. at' = at + 1 => Now'.kind # "value" /\ Now'.kind # "body"
  <2>1. ASSUME at' = at + 1 PROVE Now'.kind # "value" /\ Now'.kind # "body"
    <3>1. Now' = Elements(sent)[at']
      BY <1>4 DEF Now
    <3>2. /\ Now'.kind = "value" => \E j \in 1..N : at' = Tails(sent) + 2 * j
          /\ Now'.kind = "body" => at' = Tails(sent)
      BY <1>1, <1>5, <3>1, TailFacts
    <3>3. at' = Tails(sent) + 2 * i + 1
      BY <1>1, <2>1
    <3> QED
      BY <1>1, <3>2, <3>3
  <2> QED
    BY <2>1
<1>7. /\ UNCHANGED <<url, query, headers, body, contentLength, method, requestId, requestUuid,
                     key, requestComplete, keepAlive, refused, clean>>
      /\ lastWasValue' /\ lastWasValue' \in BOOLEAN
  BY DEF OnHeaderValue, request, target, ids, verdict
<1>8. val' = SubSeq(value, 1, off + n) /\ key' = key /\ key = sent.trailers[i].name
      /\ key = Elements(sent)[at - 1].text
  <2>1. val = SubSeq(value, 1, off) /\ key = Elements(sent)[at - 1].text
    BY <1>5 DEF BuffersSoFar
  <2>2. Elements(sent)[Tails(sent) + 2 * i - 1] = Element("field", sent.trailers[i].name)
    BY <1>1, ElementsOf
  <2>3. at - 1 = Tails(sent) + 2 * i - 1
    BY <1>1
  <2>4. val' = val \o Piece(n)
    BY DEF OnHeaderValue
  <2>5. Elements(sent)[at - 1].text = sent.trailers[i].name
    BY <2>2, <2>3 DEF Element
  <2>6. val' = SubSeq(value, 1, off + n)
    BY <1>3, <2>1, <2>4
  <2> QED
    BY <1>7, <2>1, <2>5, <2>6
<1> HIDE DEF value
<1>9. TypeOK'
  <2>1. val' \in Text
    BY <1>3, <1>8 DEF value
  <2> QED
    BY <1>1, <1>4, <1>7, <2>1 DEF TypeOK
<1>10. HeadersSoFar' /\ HeadersInOrder'
  <2>1. IsPrefix(LoweredFields(sent.headers), headers')
    BY <1>5, <1>7 DEF HeadersSoFar
  <2> QED
    BY <1>1, <1>4, <1>5, <2>1, BehindHeaders
<1>11. BuffersSoFar'
  <2>1. CASE at' = at /\ off' = off + n /\ Now' = Now
    <3>1. Now'.kind = "value" /\ Now'.text = value
      BY <2>1 DEF value
    <3>2. key' = Elements(sent)'[at' - 1].text
      BY <1>4, <1>8, <2>1
    <3> QED
      BY <1>8, <2>1, <3>1, <3>2 DEF BuffersSoFar, value
  <2>2. CASE at' = at + 1 /\ off' = 0
    BY <1>6, <1>7, <2>2 DEF BuffersSoFar
  <2> QED
    BY <1>4, <2>1, <2>2
<1>12. RestSoFar'
  <2>1. at # 1 /\ at' # 1 /\ ~(at' <= Heads(sent)) /\ Now'.kind # "body"
    BY <1>1, <1>4, <1>5, <1>6
  <2> QED
    BY <1>4, <1>5, <1>7, <2>1 DEF RestSoFar
<1>13. OneHeaderBuffered'
  <2>1. /\ sent.trailers[i] \in ToSet(sent.headers \o sent.trailers)
        /\ sent.trailers[i].name \in Text /\ sent.trailers[i].value \in Text
    BY <1>1, FieldFacts
  <2>2. off + n \in 0..Len(value) /\ 0 \in 0..Len(sent.trailers[i].name)
    BY <1>3, <2>1, LenProperties DEF Text, value
  <2> QED
    BY <1>4, <1>8, <2>1, <2>2, FieldBuffered DEF value
<1> QED
  BY <1>9, <1>10, <1>11, <1>12, <1>13 DEF Progress

(* on_message_complete: what the callbacks have filled is what was sent. *)
LEMMA CompleteStep ==
  ASSUME TypeOK, Position, at # 0, HeadersSoFar, RestSoFar, OneHeaderBuffered,
         NEW n \in Sizes, Advance(n), Now.kind = "complete", OnMessageComplete
  PROVE  at' = 0 /\ Progress' /\ AsSent'
<1>1. /\ sent \in Messages /\ Heads(sent) \in Nat /\ Heads(sent) > 1
      /\ Ends(sent) \in Nat /\ Ends(sent) > Heads(sent)
      /\ sent.headers \in Seq(Field) /\ sent.keep \in BOOLEAN
  <2>1. sent \in Messages
    BY DEF TypeOK
  <2>2. /\ Len(sent.headers) \in Nat /\ Len(sent.trailers) \in Nat
        /\ Heads(sent) = 2 * Len(sent.headers) + 2 /\ Bodies(sent) \in {0, 1}
        /\ Tails(sent) = Heads(sent) + Bodies(sent)
        /\ Ends(sent) = Tails(sent) + 2 * Len(sent.trailers) + 1
        /\ sent.headers \in Seq(Field) /\ sent.keep \in BOOLEAN
    BY <2>1, MessageFacts
  <2> QED
    BY <2>1, <2>2
<1>2. at = Ends(sent) /\ Now.text = <<>>
  <2>1. at \in 1..Ends(sent)
    BY <1>1, PieceFacts
  <2> QED
    BY <1>1, <2>1, KindFacts DEF Now
<1>3. sent' = sent /\ at' = 0 /\ off' = 0
  <2>1. off + n = 0 /\ Len(Now.text) = 0
    <3>1. Len(Now.text) = 0 /\ off + n \in 0..Len(Now.text)
      BY <1>1, <1>2, PieceFacts
    <3> QED
      BY <3>1
  <2> QED
    BY <1>1, <1>2, <2>1, AdvanceFacts
<1>4. /\ UNCHANGED <<url, query, headers, body, contentLength, method, requestId, requestUuid,
                     key, val, lastWasValue, refused, clean>>
      /\ requestComplete' = TRUE /\ keepAlive' = sent.keep
  BY DEF OnMessageComplete, request, target, ids, current
<1>5. TypeOK'
  BY <1>1, <1>3, <1>4 DEF TypeOK
<1>6. at > Heads(sent) /\ at # 1 /\ Now.kind # "body"
  BY <1>1, <1>2
<1>7. UrlAsSent'
  BY <1>3, <1>4, <1>6 DEF RestSoFar, UrlAsSent
<1>8. HeadersAsSent'
  <2>1. /\ IsPrefix(LoweredFields(sent.headers), headers)
        /\ sent.trailers = <<>> => headers = LoweredFields(sent.headers)
    BY <1>6 DEF HeadersSoFar
  <2>2. Len(LoweredFields(sent.headers)) = Len(sent.headers)
    BY <1>1, LoweredFacts
  <2> QED
    BY <1>3, <1>4, <2>1, <2>2 DEF HeadersAsSent
<1>9. BodyAsSent' /\ MethodAsSent'
  <2>1. /\ body = sent.body /\ method = sent.method
        /\ contentLength = IF sent.sized THEN Len(sent.body) ELSE Unknown
    BY <1>6 DEF RestSoFar
  <2> QED
    BY <1>3, <1>4, <2>1 DEF BodyAsSent, MethodAsSent
<1>10. OneHeaderBuffered'
  BY <1>3, <1>4 DEF OneHeaderBuffered
<1> QED
  BY <1>3, <1>4, <1>5, <1>7, <1>8, <1>9, <1>10 DEF Progress, AsSent

(* Any callback keeps the request that far, and the last one completes it. *)
LEMMA CallbackStep ==
  ASSUME TypeOK, ParserInv, Callback
  PROVE  /\ Progress' /\ UNCHANGED ids
         /\ requestComplete' => at' = 0 /\ AsSent'
         /\ sent' = sent /\ at' \in 0..Ends(sent)
         /\ off' \in Nat /\ (off' = 0 \/ (at' # 0 /\ off' < Len(Now'.text)))
<1>1. /\ at # 0 /\ ~refused /\ Position /\ HeadersSoFar /\ BuffersSoFar /\ RestSoFar
      /\ OneHeaderBuffered
      /\ sent \in Messages /\ ~requestComplete
  BY DEF Callback, ParserInv, Position, TypeOK
<1>2. PICK n \in Sizes :
        /\ \/ Now.kind = "url" /\ OnUrl(Piece(n))
           \/ Now.kind = "field" /\ OnHeaderField(Piece(n))
           \/ Now.kind = "value" /\ OnHeaderValue(Piece(n))
           \/ Now.kind = "headersComplete" /\ OnHeadersComplete
           \/ Now.kind = "body" /\ OnBody(Piece(n))
           \/ Now.kind = "complete" /\ OnMessageComplete
        /\ Advance(n)
  BY DEF Callback
<1>3. /\ sent' = sent /\ at' \in 0..Ends(sent)
      /\ off' \in Nat /\ (off' = 0 \/ (at' # 0 /\ off' < Len(Now'.text)))
  BY <1>1, <1>2, AdvanceFacts
<1>4. at \in 1..Ends(sent)
  BY <1>1, <1>2, PieceFacts
<1>5. CASE Now.kind = "url" /\ OnUrl(Piece(n))
  <2>1. UNCHANGED ids /\ ~requestComplete'
    BY <1>1, <1>5 DEF OnUrl, verdict
  <2>2. Progress'
    BY <1>1, <1>2, <1>5, UrlStep
  <2> QED
    BY <1>3, <2>1, <2>2
<1>6. CASE Now.kind = "field" /\ OnHeaderField(Piece(n))
  <2>1. UNCHANGED ids /\ ~requestComplete'
    BY <1>1, <1>6 DEF OnHeaderField, verdict
  <2>2. \/ \E i \in 1..Len(sent.headers) : at = 2 * i /\ Now.text = sent.headers[i].name
        \/ \E i \in 1..Len(sent.trailers) :
             at = Tails(sent) + 2 * i - 1 /\ Now.text = sent.trailers[i].name
    BY <1>1, <1>4, <1>6, KindFacts DEF Now
  <2>3. ASSUME NEW i \in 1..Len(sent.headers), at = 2 * i, Now.text = sent.headers[i].name
        PROVE  Progress'
    BY <1>1, <1>2, <1>6, <2>3, HeaderFieldStep
  <2>4. ASSUME NEW i \in 1..Len(sent.trailers), at = Tails(sent) + 2 * i - 1,
               Now.text = sent.trailers[i].name
        PROVE  Progress'
    BY <1>1, <1>2, <1>6, <2>4, TrailerFieldStep
  <2> QED
    BY <1>3, <2>1, <2>2, <2>3, <2>4
<1>7. CASE Now.kind = "value" /\ OnHeaderValue(Piece(n))
  <2>1. UNCHANGED ids /\ ~requestComplete'
    BY <1>1, <1>7 DEF OnHeaderValue, request, verdict
  <2>2. \/ \E i \in 1..Len(sent.headers) :
             at = 2 * i + 1 /\ Now.text = sent.headers[i].value
        \/ \E i \in 1..Len(sent.trailers) :
             at = Tails(sent) + 2 * i /\ Now.text = sent.trailers[i].value
    BY <1>1, <1>4, <1>7, KindFacts DEF Now
  <2>3. ASSUME NEW i \in 1..Len(sent.headers), at = 2 * i + 1,
               Now.text = sent.headers[i].value
        PROVE  Progress'
    BY <1>1, <1>2, <1>7, <2>3, HeaderValueStep
  <2>4. ASSUME NEW i \in 1..Len(sent.trailers), at = Tails(sent) + 2 * i,
               Now.text = sent.trailers[i].value
        PROVE  Progress'
    BY <1>1, <1>2, <1>7, <2>4, TrailerValueStep
  <2> QED
    BY <1>3, <2>1, <2>2, <2>3, <2>4
<1>8. CASE Now.kind = "headersComplete" /\ OnHeadersComplete
  <2>1. UNCHANGED ids /\ ~requestComplete'
    BY <1>1, <1>8 DEF OnHeadersComplete, verdict
  <2>2. Progress'
    BY <1>1, <1>2, <1>8, HeadersCompleteStep
  <2> QED
    BY <1>3, <2>1, <2>2
<1>9. CASE Now.kind = "body" /\ OnBody(Piece(n))
  <2>1. UNCHANGED ids /\ ~requestComplete'
    BY <1>1, <1>9 DEF OnBody, verdict
  <2>2. Progress'
    BY <1>1, <1>2, <1>9, BodyStep
  <2> QED
    BY <1>3, <2>1, <2>2
<1>10. CASE Now.kind = "complete" /\ OnMessageComplete
  <2>1. UNCHANGED ids
    BY <1>10 DEF OnMessageComplete, request
  <2>2. at' = 0 /\ Progress' /\ AsSent'
    BY <1>1, <1>2, <1>10, CompleteStep
  <2> QED
    BY <1>3, <2>1, <2>2
<1> QED
  BY <1>2, <1>5, <1>6, <1>7, <1>8, <1>9, <1>10

(* What the parser knows, when no callback runs, but it may be refused.    *)
LEMMA ParserRests ==
  ASSUME ParserInv, UNCHANGED <<url, query, headers, body, contentLength, method>>,
         UNCHANGED <<key, val, lastWasValue, requestComplete, keepAlive>>,
         UNCHANGED <<sent, at, off, clean>>, refused' = TRUE \/ refused' = refused,
         phase' # "reading" => at = 0 \/ refused',
         asked' # "no" => asked # "no",
         asked' = "complete" => phase' = "reading"
  PROVE  ParserInv'
<1>1. Now' = Now
  BY DEF Now
<1>2. Position'
  BY <1>1 DEF ParserInv, Position
<1>3. /\ HeadersInOrder' <=> HeadersInOrder
      /\ HeadersSoFar' <=> HeadersSoFar
      /\ BuffersSoFar' <=> BuffersSoFar
      /\ RestSoFar' <=> RestSoFar
  <2>1. HeadersInOrder' <=> HeadersInOrder
    BY DEF HeadersInOrder
  <2>2. HeadersSoFar' <=> HeadersSoFar
    BY DEF HeadersSoFar, Heard, Stored
  <2>3. BuffersSoFar' <=> BuffersSoFar
    BY <1>1 DEF BuffersSoFar
  <2>4. RestSoFar' <=> RestSoFar
    BY <1>1 DEF RestSoFar
  <2> QED
    BY <2>1, <2>2, <2>3, <2>4
<1>4. AsSent' <=> AsSent
  BY DEF AsSent, MethodAsSent, UrlAsSent, HeadersAsSent, BodyAsSent
<1>5. refused => refused'
  OBVIOUS
<1>6. OneHeaderBuffered' <=> OneHeaderBuffered
  BY DEF OneHeaderBuffered
<1> QED
  BY <1>2, <1>3, <1>4, <1>5, <1>6 DEF ParserInv

---------------------------------------------------------------------------
(* Replies *)

(* The headers create makes of a content of which it knows the length. *)
LEMMA OwnType ==
  ASSUME NEW content \in Text
  PROVE  OwnHeaders(content) \in Seq(Headers_)
<1>1. Len(content) \in Nat
  BY LenProperties DEF Text
<1>2. Header("Content-Length", Len(content)) \in Headers_
  BY <1>1 DEF Header, Headers_
<1>3. Header("Content-Type", "text/html") \in Headers_
  BY DEF Header, Headers_
<1> QED
  BY <1>2, <1>3 DEF OwnHeaders

(* create, with no header of the application *)
LEMMA CreatedFacts ==
  ASSUME NEW r \in Reply_, r.content \in Text, NEW status \in Statuses
  PROVE  LET c == Created(r, status, "text/html", 0) IN
         /\ c \in Reply_ /\ c.status = status /\ c.content = r.content
         /\ c.headers = OwnHeaders(r.content)
<1> DEFINE own == OwnHeaders(r.content)
<1>1. own \in Seq(Headers_)
  BY OwnType
<1>2. Resized(r.headers, 0) = <<>>
  BY DEF Resized
<1> HIDE DEF own
<1>3. Resized(r.headers, 0) \o own = own
  BY <1>1, <1>2, ConcatEmptySeq
<1>4. Created(r, status, "text/html", 0)
        = [r EXCEPT !.status = status, !.headers = Resized(@, 0) \o own]
  BY DEF Created, own, OwnHeaders
<1>5. Created(r, status, "text/html", 0) = [r EXCEPT !.status = status, !.headers = own]
  BY <1>3, <1>4 DEF Reply_
<1>6. DEFINE c == Created(r, status, "text/html", 0)
<1>7. c.status = status /\ c.content = r.content /\ c.headers = own
  BY <1>5 DEF Reply_
<1>8. c \in Reply_
  BY <1>1, <1>5 DEF Reply_
<1> QED
  BY <1>7, <1>8 DEF own

(* send_reply of a created reply *)
LEMMA SentFacts ==
  ASSUME NEW r \in Reply_, r.status \in Statuses, r.content \in Text,
         r.headers = OwnHeaders(r.content), SendReply(r)
  PROVE  /\ phase' = "writing" /\ reply' \in Reply_
         /\ wire'.status = r.status /\ wire'.content = r.content
         /\ wire'.headers = IF keepAlive THEN OwnHeaders(r.content)
                            ELSE Append(OwnHeaders(r.content), Header("Connection", "close"))
<1> DEFINE own == OwnHeaders(r.content)
           close == Header("Connection", "close")
           whole == IF keepAlive THEN r ELSE Added(r, close)
<1>1. own \in Seq(Headers_) /\ close \in Headers_
  BY OwnType DEF Header, Headers_
<1>2. reply' = whole /\ wire' = ToBuffers(whole) /\ phase' = "writing"
  BY DEF SendReply
<1> HIDE DEF own, close
<1>3. Append(own, close) \in Seq(Headers_)
  BY <1>1, AppendProperties
<1>4. /\ whole \in Reply_ /\ whole.status = r.status /\ whole.content = r.content
      /\ whole.headers = IF keepAlive THEN own ELSE Append(own, close)
  BY <1>3 DEF Reply_, Added, own
<1> HIDE DEF whole
<1>5. /\ wire'.status = r.status /\ wire'.content = r.content
      /\ wire'.headers = whole.headers
  BY <1>2, <1>4 DEF ToBuffers, StatusLine
<1> QED
  BY <1>2, <1>4, <1>5 DEF own, close

(* request_id *)
LEMMA RequestIdFacts ==
  ASSUME TypeOK, RequestIdentified, RequestId, UNCHANGED headers
  PROVE  /\ requestId' \in Text /\ requestUuid' \in Uuids \union {NoText}
         /\ requestUuid' \in {NoText, requestId'}
         /\ requestId = NoText =>
              LET id == GetHeader(IdHeader)' IN
              \/ requestId' = id /\ id # NoText
              \/ requestId' = Random /\ id \notin Uuids
<1> DEFINE id == GetHeader(IdHeader)
<1>1. /\ id \in Text /\ id' = id
      /\ requestId \in Text /\ requestUuid \in Uuids \union {NoText}
      /\ Random \in Uuids /\ Uuids \subseteq Text /\ NoText \notin Uuids
      /\ requestUuid \in {NoText, requestId}
  <2>1. id \in Text
    BY GetHeaderType DEF TypeOK
  <2>2. id' = id
    BY Zenon DEF GetHeader, SelectInSeq
  <2> QED
    BY <2>1, <2>2, MessagesAssumption DEF TypeOK, RequestIdentified
<1>2. \/ requestId # NoText /\ requestId' = requestId /\ requestUuid' = requestUuid
      \/ requestId = NoText /\ id = NoText /\ requestId' = Random /\ requestUuid' = Random
      \/ /\ requestId = NoText /\ id # NoText /\ requestId' = id
         /\ requestUuid' = IF id \in Uuids THEN id ELSE NoText
  BY DEF RequestId, ids
<1> HIDE DEF id
<1>3. /\ requestId' \in Text /\ requestUuid' \in Uuids \union {NoText}
      /\ requestUuid' \in {NoText, requestId'}
      /\ requestId = NoText => \/ requestId' = id /\ id # NoText
                               \/ requestId' = Random /\ id \notin Uuids
  BY <1>1, <1>2
<1> QED
  BY <1>1, <1>3 DEF id

(* request_uuid *)
LEMMA RequestUuidFacts ==
  ASSUME TypeOK, RequestIdentified, RequestUuid, UNCHANGED <<headers, asked>>
  PROVE  /\ requestId' \in Text /\ requestUuid' \in Uuids \union {NoText}
         /\ RequestIdentified'
<1> DEFINE id == GetHeader(IdHeader)
<1>1. /\ id' = id
      /\ requestId \in Text /\ requestUuid \in Uuids \union {NoText}
      /\ Random \in Uuids /\ Uuids \subseteq Text /\ NoText \notin Uuids
  <2>1. id' = id
    BY DEF GetHeader, SelectInSeq
  <2> QED
    BY <2>1, MessagesAssumption DEF TypeOK
<1>2. \/ requestUuid # NoText /\ requestId' = requestId /\ requestUuid' = requestUuid
      \/ /\ requestId' = (IF id \in Uuids THEN id ELSE Random)
         /\ requestUuid' = requestId'
  BY DEF RequestUuid, ids
<1>3. /\ requestUuid \in {NoText, requestId}
      /\ asked = "taken" => \/ requestId = id /\ id # NoText
                            \/ requestId = Random /\ id \notin Uuids
  BY DEF RequestIdentified
<1> HIDE DEF id
<1>4. /\ requestId' \in Text /\ requestUuid' \in Uuids \union {NoText}
      /\ requestUuid' \in {NoText, requestId'}
      /\ asked' = "taken" => \/ requestId' = id /\ id # NoText
                             \/ requestId' = Random /\ id \notin Uuids
  BY <1>1, <1>2, <1>3
<1> QED
  BY <1>1, <1>4 DEF RequestIdentified, id

---------------------------------------------------------------------------
(* The steps of the connection *)

(* Without a step of the parser or the application, the answer is the same.*)
LEMMA SameExpected ==
  ASSUME UNCHANGED <<sent, sample>>
  PROVE  /\ ExpectedStatus(sent)' = ExpectedStatus(sent)
         /\ ExpectedContent(sent)' = ExpectedContent(sent)
BY DEF ExpectedStatus, ExpectedContent, Accepted

(* For a request that is as it was sent, the fields of the code decide it. *)
LEMMA ExpectedOf ==
  ASSUME AsSent, clean
  PROVE  /\ url # Rest => ExpectedStatus(sent) = "not_found"
         /\ url = Rest /\ (method # "POST" \/ body \notin IF sample = "avro" THEN DOMAIN Decoded
                                                          ELSE Objects)
              => ExpectedStatus(sent) = "bad_request"
         /\ url = Rest /\ method = "POST" /\ (body \in IF sample = "avro" THEN DOMAIN Decoded
                                                       ELSE Objects)
              => ExpectedStatus(sent) = "ok"
         /\ ExpectedContent(sent)
              = IF ExpectedStatus(sent) # "ok" \/ sample = "json" THEN <<>>
                ELSE IF Decoded[body].delay = "some" THEN Greeting ELSE Decoded[body].message
<1>1. url = PathOf(sent.url) /\ method = sent.method /\ body = sent.body
  BY DEF AsSent, MethodAsSent, UrlAsSent, BodyAsSent
<1> QED
  BY <1>1 DEF ExpectedStatus, ExpectedContent, Accepted

(* The request goes to the application whole, and as it was sent.          *)
LEMMA DispatchFacts ==
  ASSUME IInv, Dispatch
  PROVE  /\ at = 0 /\ phase = "reading" /\ wire = Nothing
         /\ reply \in Reply_ /\ reply.content = <<>>
         /\ TypeOK' /\ sample' \in {"avro", "json"} /\ asked' \in {"no", "taken"}
         /\ RequestIdentified' /\ ParserInv'
         /\ asked' = "taken" => AsSent
         /\ UNCHANGED <<url, query, headers, body, method, keepAlive, sent, clean, refused,
                        sample>>
<1>1. /\ phase = "reading" /\ requestComplete /\ ~refused /\ RequestId
      /\ asked' = (IF asked = "complete" THEN "taken" ELSE "no")
      /\ UNCHANGED <<url, query, headers, body, contentLength, method>>
      /\ UNCHANGED <<key, val, lastWasValue, requestComplete, keepAlive>>
      /\ UNCHANGED <<sent, at, off, refused, clean, sample>>
  BY DEF Dispatch, target, current, verdict, parser
<1>2. /\ TypeOK /\ ParserInv /\ RequestIdentified /\ requestId = NoText
      /\ sample \in {"avro", "json"}
  BY <1>1 DEF IInv, ExchangeTypeOK, IdInv
<1>3. at = 0
  BY <1>1, <1>2 DEF ParserInv, Position
<1>4. wire = Nothing /\ reply \in Reply_ /\ reply.content = <<>>
  BY <1>1 DEF IInv, ReplyInv
<1>5. asked' \in {"no", "taken"} /\ (asked' = "taken" => asked = "complete")
  BY <1>1
<1>6. /\ requestId' \in Text /\ requestUuid' \in Uuids \union {NoText}
      /\ requestUuid' \in {NoText, requestId'}
      /\ requestId = NoText =>
           LET id == GetHeader(IdHeader)' IN
           \/ requestId' = id /\ id # NoText
           \/ requestId' = Random /\ id \notin Uuids
  BY <1>1, <1>2, RequestIdFacts
<1>7. TypeOK'
  BY <1>1, <1>2, <1>6 DEF TypeOK
<1>8. RequestIdentified'
  BY <1>2, <1>6 DEF RequestIdentified
<1>9. ParserInv'
  BY <1>1, <1>2, <1>3, <1>5, ParserRests
<1>10. asked' = "taken" => AsSent
  BY <1>2, <1>5 DEF ParserInv
<1> QED
  BY <1>1, <1>2, <1>3, <1>4, <1>5, <1>7, <1>8, <1>9, <1>10

(* The request is answered at once. *)
LEMMA DispatchReplies ==
  ASSUME IInv, Dispatch,
         NEW r \in Reply_, r.status \in Statuses, r.content \in Text,
         r.headers = OwnHeaders(r.content), SendReply(r),
         AsSent /\ clean => /\ r.status = ExpectedStatus(sent)
                            /\ r.content = ExpectedContent(sent)
  PROVE  IInv'
<1>1. /\ wire = Nothing /\ TypeOK' /\ sample' \in {"avro", "json"}
      /\ asked' \in {"no", "taken"} /\ RequestIdentified' /\ ParserInv'
      /\ asked' = "taken" => AsSent
      /\ UNCHANGED <<keepAlive, sent, clean, refused, sample>>
  BY DispatchFacts
<1>2. /\ phase' = "writing" /\ reply' \in Reply_
      /\ wire'.status = r.status /\ wire'.content = r.content
      /\ wire'.headers = IF keepAlive THEN OwnHeaders(r.content)
                         ELSE Append(OwnHeaders(r.content), Header("Connection", "close"))
  BY SentFacts
<1>3. ReplyInv'
  BY <1>1, <1>2 DEF ReplyInv
<1>4. IdInv'
  BY <1>1, <1>2 DEF IdInv
<1>5. AnswerInv'
  <2>1. /\ ExpectedStatus(sent)' = ExpectedStatus(sent)
        /\ ExpectedContent(sent)' = ExpectedContent(sent)
    BY <1>1, SameExpected
  <2>2. asked' = "taken" /\ clean' => /\ wire'.status = ExpectedStatus(sent)'
                                      /\ wire'.content = ExpectedContent(sent)'
    BY <1>1, <1>2, <2>1
  <2> QED
    BY <1>2, <2>2 DEF AnswerInv
<1>6. ExchangeTypeOK'
  BY <1>1, <1>2 DEF ExchangeTypeOK, Reply_
<1> QED
  BY <1>1, <1>3, <1>4, <1>5, <1>6 DEF IInv

(* The application keeps the request, or its exception ends everything.    *)
LEMMA DispatchWaits ==
  ASSUME IInv, Dispatch, UNCHANGED <<reply, wire>>,
         \/ phase' = "thrown"
         \/ /\ phase' = "working" /\ url = Rest /\ method = "POST"
            /\ sample = "avro" => body \in DOMAIN Decoded /\ Decoded[body].delay = "some"
            /\ sample = "json" => body \in Objects
  PROVE  IInv'
<1>1. /\ wire = Nothing /\ reply \in Reply_ /\ reply.content = <<>>
      /\ TypeOK' /\ sample' \in {"avro", "json"}
      /\ asked' \in {"no", "taken"} /\ RequestIdentified' /\ ParserInv'
      /\ UNCHANGED <<url, body, method, sample>>
  BY DispatchFacts
<1>2. ReplyInv'
  BY <1>1 DEF ReplyInv
<1>3. IdInv'
  BY <1>1 DEF IdInv
<1>4. AnswerInv'
  BY <1>1 DEF AnswerInv
<1>5. ExchangeTypeOK'
  BY <1>1 DEF ExchangeTypeOK, Reply_
<1> QED
  BY <1>1, <1>2, <1>3, <1>4, <1>5 DEF IInv

(* NotFound *)
LEMMA NotFoundStep ==
  ASSUME IInv, NotFound
  PROVE  IInv'
<1> DEFINE r == Created(reply, "not_found", "text/html", 0)
<1>1. Dispatch /\ url # Rest /\ SendReply(r)
  BY DEF NotFound
<1>2. reply \in Reply_ /\ reply.content = <<>> /\ <<>> \in Text
  BY <1>1, DispatchFacts, EmptySeq DEF Text
<1>3. r \in Reply_ /\ r.status = "not_found" /\ r.content = <<>> /\ r.headers = OwnHeaders(<<>>)
  BY <1>2, CreatedFacts DEF Statuses
<1> HIDE DEF r
<1>4. AsSent /\ clean => r.status = ExpectedStatus(sent) /\ r.content = ExpectedContent(sent)
  BY <1>1, <1>3, ExpectedOf
<1> QED
  BY <1>1, <1>2, <1>3, <1>4, DispatchReplies DEF Statuses

(* AvroHandleRequest *)
LEMMA AvroRequestStep ==
  ASSUME IInv, AvroHandleRequest
  PROVE  IInv'
<1>1. /\ Dispatch /\ sample = "avro" /\ url = Rest
      /\ \/ /\ method # "POST"
            /\ SendReply(Created(reply, "bad_request", "text/html", 0))
         \/ /\ method = "POST" /\ ~AvroDecodes
            /\ phase' = "thrown" /\ UNCHANGED <<reply, wire>>
         \/ /\ method = "POST" /\ AvroDecodes /\ Decoded[body].delay = "none"
            /\ SendReply(Created(Written(reply, Decoded[body].message), "ok", "text/html", 0))
         \/ /\ method = "POST" /\ AvroDecodes /\ Decoded[body].delay = "some"
            /\ phase' = "working" /\ UNCHANGED <<reply, wire>>
  BY DEF AvroHandleRequest
<1>2. reply \in Reply_ /\ reply.content = <<>> /\ <<>> \in Text
  BY <1>1, DispatchFacts, EmptySeq DEF Text
<1>3. CASE method # "POST" /\ SendReply(Created(reply, "bad_request", "text/html", 0))
  <2> DEFINE r == Created(reply, "bad_request", "text/html", 0)
  <2>1. r \in Reply_ /\ r.status = "bad_request" /\ r.content = <<>>
        /\ r.headers = OwnHeaders(<<>>)
    BY <1>2, CreatedFacts DEF Statuses
  <2>2. SendReply(r)
    BY <1>3
  <2> HIDE DEF r
  <2>3. AsSent /\ clean => r.status = ExpectedStatus(sent) /\ r.content = ExpectedContent(sent)
    BY <1>1, <1>3, <2>1, ExpectedOf
  <2> QED
    BY <1>1, <1>2, <2>1, <2>2, <2>3, DispatchReplies DEF Statuses
<1>4. CASE phase' = "thrown" /\ UNCHANGED <<reply, wire>>
  BY <1>1, <1>4, DispatchWaits
<1>5. CASE /\ method = "POST" /\ AvroDecodes /\ Decoded[body].delay = "none"
           /\ SendReply(Created(Written(reply, Decoded[body].message), "ok", "text/html", 0))
  <2> DEFINE message == Decoded[body].message
             w == Written(reply, message)
             r == Created(w, "ok", "text/html", 0)
  <2>1. body \in DOMAIN Decoded /\ message \in Text
    BY <1>5, ExchangeAssumption DEF AvroDecodes
  <2>2. SendReply(r)
    BY <1>5
  <2>3. <<>> \o message = message
    BY <2>1, ConcatEmptySeq DEF Text
  <2>4. w \in Reply_ /\ w.content = message
    BY <1>2, <2>1, <2>3 DEF Written, Reply_
  <2> HIDE DEF w
  <2>5. r \in Reply_ /\ r.status = "ok" /\ r.content = message /\ r.headers = OwnHeaders(message)
    BY <2>1, <2>4, CreatedFacts DEF Statuses
  <2> HIDE DEF r
  <2>6. AsSent /\ clean => r.status = ExpectedStatus(sent) /\ r.content = ExpectedContent(sent)
    BY <1>1, <1>5, <2>1, <2>5, ExpectedOf
  <2> QED
    BY <1>1, <2>1, <2>2, <2>5, <2>6, DispatchReplies DEF Statuses
<1>6. CASE /\ method = "POST" /\ AvroDecodes /\ Decoded[body].delay = "some"
           /\ phase' = "working" /\ UNCHANGED <<reply, wire>>
  BY <1>1, <1>6, DispatchWaits DEF AvroDecodes
<1> QED
  BY <1>1, <1>3, <1>4, <1>5, <1>6

(* JsonHandleRequest *)
LEMMA JsonRequestStep ==
  ASSUME IInv, JsonHandleRequest
  PROVE  IInv'
<1>1. /\ Dispatch /\ sample = "json" /\ url = Rest
      /\ \/ /\ method # "POST" \/ ~JsonDecodes
            /\ SendReply(Created(reply, "bad_request", "text/html", 0))
         \/ /\ method = "POST" /\ JsonDecodes
            /\ phase' = "working" /\ UNCHANGED <<reply, wire>>
  BY DEF JsonHandleRequest
<1>2. reply \in Reply_ /\ reply.content = <<>> /\ <<>> \in Text
  BY <1>1, DispatchFacts, EmptySeq DEF Text
<1>3. CASE /\ method # "POST" \/ ~JsonDecodes
           /\ SendReply(Created(reply, "bad_request", "text/html", 0))
  <2> DEFINE r == Created(reply, "bad_request", "text/html", 0)
  <2>1. r \in Reply_ /\ r.status = "bad_request" /\ r.content = <<>>
        /\ r.headers = OwnHeaders(<<>>)
    BY <1>2, CreatedFacts DEF Statuses
  <2>2. SendReply(r)
    BY <1>3
  <2> HIDE DEF r
  <2>3. AsSent /\ clean => r.status = ExpectedStatus(sent) /\ r.content = ExpectedContent(sent)
    BY <1>1, <1>3, <2>1, ExpectedOf DEF JsonDecodes
  <2> QED
    BY <1>1, <1>2, <2>1, <2>2, <2>3, DispatchReplies DEF Statuses
<1>4. CASE /\ method = "POST" /\ JsonDecodes
           /\ phase' = "working" /\ UNCHANGED <<reply, wire>>
  BY <1>1, <1>4, DispatchWaits DEF JsonDecodes
<1> QED
  BY <1>1, <1>3, <1>4

(* MessageBegins *)
LEMMA BeginsStep ==
  ASSUME IInv, MessageBegins
  PROVE  IInv'
<1>1. /\ phase = "reading" /\ phase' = "reading" /\ at' = 1 /\ off' = 0
      /\ url' = <<>> /\ query' = <<>> /\ headers' = <<>> /\ body' = <<>> /\ contentLength' = 0
      /\ requestId' = NoText /\ requestUuid' = NoText
      /\ key' = <<>> /\ val' = <<>> /\ lastWasValue' = FALSE
      /\ requestComplete' = FALSE /\ clean' = TRUE /\ sent' \in Messages
      /\ asked' = "no" /\ reply' = Reset(reply)
      /\ UNCHANGED <<keepAlive, method, refused, sample, wire>>
  BY DEF MessageBegins, OnMessageBegin, ResetRequest
<1>2. /\ TypeOK /\ sample \in {"avro", "json"} /\ wire = Nothing /\ reply \in Reply_
  BY <1>1 DEF IInv, ExchangeTypeOK, ReplyInv
<1>3. <<>> \in Text /\ Len(<<>>) = 0 /\ SubSeq(sent'.url, 1, 0) = <<>>
  BY EmptySeq, SubSeqEmpty DEF Text
<1>4. /\ Len(sent'.headers) \in Nat /\ Heads(sent') = 2 * Len(sent'.headers) + 2
      /\ sent'.headers \in Seq(Field) /\ Ends(sent') \in Nat /\ Ends(sent') > 1
  <2>1. /\ Len(sent'.headers) \in Nat /\ Len(sent'.trailers) \in Nat
        /\ sent'.headers \in Seq(Field)
        /\ Heads(sent') = 2 * Len(sent'.headers) + 2 /\ Bodies(sent') \in {0, 1}
        /\ Tails(sent') = Heads(sent') + Bodies(sent')
        /\ Ends(sent') = Tails(sent') + 2 * Len(sent'.trailers) + 1
    BY <1>1, MessageFacts
  <2> QED
    BY <2>1
<1>5. TypeOK'
  <2>1. headers' \in Seq(Field)
    BY <1>1, EmptySeq
  <2>2. /\ url' \in Text /\ query' \in Text /\ body' \in Text
        /\ key' \in Text /\ val' \in Text
        /\ requestId' \in Text /\ requestUuid' \in Uuids \union {NoText}
    BY <1>1, <1>3 DEF NoText
  <2>3. /\ contentLength' \in Nat \union {Unknown} /\ method' \in Methods
        /\ lastWasValue' \in BOOLEAN /\ requestComplete' \in BOOLEAN
        /\ keepAlive' \in BOOLEAN /\ refused' \in BOOLEAN /\ clean' \in BOOLEAN
        /\ sent' \in Messages /\ at' \in Nat /\ off' \in Nat
    BY <1>1, <1>2 DEF TypeOK
  <2> QED
    BY <2>1, <2>2, <2>3 DEF TypeOK
<1>6. Position'
  BY <1>1, <1>4 DEF Position
<1>7. HeadersInOrder'
  <2>1. LoweredFields(sent'.headers) \in Seq(Field)
    BY <1>4, LoweredFacts
  <2> QED
    BY <1>1, <2>1, PrefixFacts DEF HeadersInOrder
<1>8. HeadersSoFar'
  <2>1. Heard(0)'
    BY <1>1 DEF Heard
  <2>2. \A i \in 1..Len(sent'.headers) : at' # 2 * i /\ at' # 2 * i + 1
    BY <1>1, <1>4
  <2>3. at' # Heads(sent') /\ ~(at' > Heads(sent'))
    BY <1>1, <1>4
  <2> QED
    BY <2>1, <2>2, <2>3 DEF HeadersSoFar
<1>9. BuffersSoFar'
  BY <1>1, <1>4 DEF BuffersSoFar
<1>10. RestSoFar'
  <2>1. at' = 1 /\ at' <= Heads(sent') /\ ~(at' > Heads(sent'))
    BY <1>1, <1>4
  <2>2. PathOf(<<>>) = <<>> /\ QueryOf(<<>>) = <<>>
    <3>1. Mark(<<>>) = 0
      <4>1. Mark(<<>>) \in 0..0
        BY <1>3, MarkOf
      <4> QED
        BY <4>1
    <3> QED
      BY <3>1 DEF PathOf, QueryOf
  <2> QED
    BY <1>1, <1>3, <2>1, <2>2 DEF RestSoFar
<1>11. ParserInv'
  BY <1>1, <1>6, <1>7, <1>8, <1>9, <1>10 DEF ParserInv, OneHeaderBuffered
<1>12. IdInv'
  BY <1>1 DEF IdInv, RequestIdentified
<1>13. reply' \in Reply_ /\ reply'.content = <<>>
  <2>1. <<>> \in Seq(Headers_)
    BY EmptySeq
  <2> QED
    BY <1>1, <1>2, <1>3, <2>1 DEF Reset, Reply_
<1>14. ReplyInv'
  BY <1>1, <1>2, <1>13 DEF ReplyInv
<1>15. AnswerInv'
  BY <1>1, <1>2 DEF AnswerInv
<1>16. ExchangeTypeOK'
  BY <1>1, <1>2, <1>5, <1>13 DEF ExchangeTypeOK, Reply_
<1> QED
  BY <1>11, <1>12, <1>14, <1>15, <1>16 DEF IInv

(* ParserReports *)
LEMMA ReportsStep ==
  ASSUME IInv, ParserReports
  PROVE  IInv'
<1>1. /\ phase = "reading" /\ Callback /\ at # 0 /\ ~refused
      /\ asked' = (IF requestComplete' THEN "complete" ELSE asked)
      /\ UNCHANGED <<sample, phase, reply, wire>>
  BY DEF ParserReports, Callback
<1>2. /\ TypeOK /\ ParserInv /\ RequestIdentified /\ wire = Nothing
      /\ requestId = NoText /\ requestUuid = NoText
      /\ sample \in {"avro", "json"} /\ reply \in Reply_ /\ reply.content = <<>>
  BY <1>1 DEF IInv, ExchangeTypeOK, IdInv, ReplyInv
<1>3. asked = "no"
  <2>1. asked # "no" => at = 0
    BY <1>2 DEF ParserInv
  <2> QED
    BY <1>1, <2>1
<1>4. /\ Progress' /\ UNCHANGED <<requestId, requestUuid>>
      /\ requestComplete' => at' = 0 /\ AsSent'
      /\ sent' = sent /\ at' \in 0..Ends(sent)
      /\ off' \in Nat /\ (off' = 0 \/ (at' # 0 /\ off' < Len(Now'.text)))
  BY <1>1, <1>2, CallbackStep DEF ids
<1>5. TypeOK' /\ OneHeaderBuffered' /\ (at' # 0 => HeadersInOrder' /\ HeadersSoFar' /\ BuffersSoFar' /\ RestSoFar')
  BY <1>4 DEF Progress
<1>6. Position'
  BY <1>1, <1>4 DEF Position
<1>7. ParserInv'
  BY <1>1, <1>3, <1>4, <1>5, <1>6 DEF ParserInv
<1>8. IdInv'
  BY <1>1, <1>2, <1>3, <1>4 DEF IdInv, RequestIdentified
<1>9. ReplyInv'
  BY <1>1, <1>2 DEF ReplyInv
<1>10. AnswerInv'
  BY <1>1, <1>2 DEF AnswerInv
<1>11. ExchangeTypeOK'
  BY <1>1, <1>2, <1>3, <1>5 DEF ExchangeTypeOK, Reply_
<1> QED
  BY <1>7, <1>8, <1>9, <1>10, <1>11 DEF IInv

(* RejectBytes *)
LEMMA RejectStep ==
  ASSUME IInv, RejectBytes
  PROVE  IInv'
<1> DEFINE r == Created(reply, "bad_request", "text/html", 0)
<1>1. /\ phase = "reading" /\ reply.content # NoBuffer /\ refused' = TRUE /\ asked' = "no"
      /\ SendReply(r) /\ RequestId
      /\ UNCHANGED <<url, query, headers, body, contentLength, method>>
      /\ UNCHANGED <<key, val, lastWasValue, requestComplete, keepAlive>>
      /\ UNCHANGED <<sent, at, off, clean, sample>>
  BY DEF RejectBytes, target, current, verdict
<1>2. /\ TypeOK /\ ParserInv /\ RequestIdentified /\ sample \in {"avro", "json"}
      /\ reply \in Reply_ /\ reply.content = <<>> /\ <<>> \in Text
  BY <1>1, EmptySeq DEF IInv, ExchangeTypeOK, IdInv, ReplyInv, Text
<1>3. r \in Reply_ /\ r.status = "bad_request" /\ r.content = <<>> /\ r.headers = OwnHeaders(<<>>)
  BY <1>2, CreatedFacts DEF Statuses
<1> HIDE DEF r
<1>4. /\ phase' = "writing" /\ reply' \in Reply_
      /\ wire'.status = "bad_request" /\ wire'.content = <<>>
      /\ wire'.headers = IF keepAlive THEN OwnHeaders(<<>>)
                         ELSE Append(OwnHeaders(<<>>), Header("Connection", "close"))
  <2>1. r.status \in Statuses
    BY <1>3 DEF Statuses
  <2> QED
    BY <1>1, <1>2, <1>3, <2>1, SentFacts
<1>5. /\ requestId' \in Text /\ requestUuid' \in Uuids \union {NoText}
      /\ requestUuid' \in {NoText, requestId'}
  BY <1>1, <1>2, RequestIdFacts
<1>6. TypeOK'
  BY <1>1, <1>2, <1>5 DEF TypeOK
<1>7. ParserInv'
  BY <1>1, <1>2, ParserRests
<1>8. IdInv'
  BY <1>1, <1>4, <1>5 DEF IdInv, RequestIdentified
<1>9. ReplyInv'
  BY <1>1, <1>2, <1>4 DEF ReplyInv, Statuses
<1>10. AnswerInv'
  BY <1>1, <1>4 DEF AnswerInv
<1>11. ExchangeTypeOK'
  BY <1>1, <1>2, <1>4, <1>6 DEF ExchangeTypeOK, Reply_, Statuses
<1> QED
  BY <1>7, <1>8, <1>9, <1>10, <1>11 DEF IInv

(* The later answer is created. *)
LEMMA PostStep ==
  ASSUME IInv, phase = "working", phase' = "notified",
         UNCHANGED <<vars, sample, wire, asked>>,
         \/ /\ sample = "avro"
            /\ reply' = Created(Written(reply, Greeting), "ok", "text/html", 0)
         \/ sample = "json" /\ reply' = Created(reply, "ok", "text/html", 0)
  PROVE  IInv'
<1>1. /\ UNCHANGED <<url, query, headers, body, contentLength, method, requestId, requestUuid>>
      /\ UNCHANGED <<key, val, lastWasValue, requestComplete, keepAlive>>
      /\ UNCHANGED <<sent, at, off, refused, clean, sample, wire, asked>>
  BY DEF vars, request, target, ids, current, verdict, parser
<1>2. /\ TypeOK /\ ParserInv /\ IdInv /\ AnswerInv /\ ReplyInv /\ wire = Nothing
      /\ sample \in {"avro", "json"} /\ asked \in {"no", "complete", "taken"}
      /\ reply \in Reply_ /\ reply.content = <<>> /\ <<>> \in Text
  BY EmptySeq DEF IInv, ExchangeTypeOK, ReplyInv, Text
<1>3. /\ reply' \in Reply_ /\ reply'.status = "ok"
      /\ reply'.content = (IF sample = "avro" THEN Greeting ELSE <<>>)
      /\ reply'.content \in Text /\ reply'.headers = OwnHeaders(reply'.content)
  <2>1. CASE /\ sample = "avro"
             /\ reply' = Created(Written(reply, Greeting), "ok", "text/html", 0)
    <3> DEFINE w == Written(reply, Greeting)
    <3>1. Greeting \in Text /\ <<>> \o Greeting = Greeting
      BY ExchangeAssumption, ConcatEmptySeq DEF Text
    <3>2. w \in Reply_ /\ w.content = Greeting
      BY <1>2, <3>1 DEF Written, Reply_
    <3>3. reply' = Created(w, "ok", "text/html", 0) /\ "ok" \in Statuses
      BY <2>1 DEF Statuses
    <3> HIDE DEF w
    <3>4. /\ reply' \in Reply_ /\ reply'.status = "ok" /\ reply'.content = Greeting
          /\ reply'.headers = OwnHeaders(Greeting)
      BY <3>1, <3>2, <3>3, CreatedFacts
    <3> QED
      BY <2>1, <3>1, <3>4
  <2>2. CASE sample = "json" /\ reply' = Created(reply, "ok", "text/html", 0)
    <3>1. /\ reply' \in Reply_ /\ reply'.status = "ok" /\ reply'.content = <<>>
          /\ reply'.headers = OwnHeaders(<<>>)
      BY <1>2, <2>2, CreatedFacts DEF Statuses
    <3> QED
      BY <1>2, <2>2, <3>1
  <2> QED
    BY <2>1, <2>2
<1>4. TypeOK'
  BY <1>1, <1>2 DEF TypeOK
<1>5. ParserInv'
  <2>1. (at = 0 \/ refused) /\ asked # "complete"
    BY <1>2 DEF ParserInv, Position
  <2> QED
    BY <1>1, <1>2, <2>1, ParserRests
<1>6. IdInv'
  BY <1>1, <1>2 DEF IdInv, RequestIdentified, GetHeader, SelectInSeq
<1>7. ReplyInv'
  BY <1>1, <1>2, <1>3 DEF ReplyInv
<1>8. AnswerInv'
  BY <1>1, <1>2, <1>3 DEF AnswerInv
<1>9. ExchangeTypeOK'
  BY <1>1, <1>2, <1>3, <1>4 DEF ExchangeTypeOK, Reply_
<1> QED
  BY <1>5, <1>6, <1>7, <1>8, <1>9 DEF IInv

(* AskUuid *)
LEMMA AskUuidStep ==
  ASSUME IInv, AskUuid
  PROVE  IInv'
<1>1. /\ phase \in {"working", "notified"} /\ RequestUuid
      /\ UNCHANGED <<url, query, headers, body, contentLength, method>>
      /\ UNCHANGED <<key, val, lastWasValue, requestComplete, keepAlive>>
      /\ UNCHANGED <<sent, at, off, refused, clean>>
      /\ UNCHANGED <<sample, phase, reply, wire, asked>>
  BY DEF AskUuid, target, current, verdict, parser, exchange
<1>2. /\ ExchangeTypeOK /\ TypeOK /\ ParserInv /\ RequestIdentified /\ ReplyInv /\ AnswerInv
      /\ wire = Nothing
  BY <1>1 DEF IInv, ExchangeTypeOK, IdInv, ReplyInv
<1>3. requestId' \in Text /\ requestUuid' \in Uuids \union {NoText} /\ RequestIdentified'
  BY <1>1, <1>2, RequestUuidFacts
<1>4. TypeOK'
  BY <1>1, <1>2, <1>3 DEF TypeOK
<1>5. ParserInv'
  <2>1. (phase # "reading" => at = 0 \/ refused) /\ (asked = "complete" => phase = "reading")
    BY <1>2 DEF ParserInv, Position
  <2> QED
    BY <1>1, <1>2, <2>1, ParserRests
<1>6. IdInv'
  BY <1>1, <1>3 DEF IdInv
<1>7. ReplyInv'
  BY <1>1, <1>2 DEF ReplyInv
<1>8. AnswerInv'
  BY <1>1, <1>2 DEF AnswerInv
<1>9. ExchangeTypeOK'
  BY <1>1, <1>2, <1>4 DEF ExchangeTypeOK
<1> QED
  BY <1>5, <1>6, <1>7, <1>8, <1>9 DEF IInv

(* HandleAsyncReplyDone *)
LEMMA AsyncStep ==
  ASSUME IInv, HandleAsyncReplyDone
  PROVE  IInv'
<1>1. /\ phase = "notified" /\ SendReply(reply)
      /\ UNCHANGED <<url, query, headers, body, contentLength, method, requestId, requestUuid>>
      /\ UNCHANGED <<key, val, lastWasValue, requestComplete, keepAlive>>
      /\ UNCHANGED <<sent, at, off, refused, clean, sample, asked>>
  BY DEF HandleAsyncReplyDone, vars, request, target, ids, current, verdict, parser
<1>2. /\ TypeOK /\ ParserInv /\ RequestIdentified
      /\ sample \in {"avro", "json"} /\ asked \in {"no", "complete", "taken"}
      /\ reply \in Reply_ /\ reply.content \in Text /\ reply.headers = OwnHeaders(reply.content)
      /\ reply.status = "ok" /\ reply.status \in Statuses
      /\ url = Rest /\ method = "POST"
      /\ sample = "avro" => body \in DOMAIN Decoded /\ Decoded[body].delay = "some"
      /\ sample = "json" => body \in Objects
      /\ reply.content = IF sample = "avro" THEN Greeting ELSE <<>>
  BY <1>1 DEF IInv, ExchangeTypeOK, IdInv, ReplyInv, AnswerInv, Statuses
<1>3. /\ phase' = "writing" /\ reply' \in Reply_
      /\ wire'.status = "ok" /\ wire'.content = reply.content /\ wire'.status \in Statuses
      /\ wire'.headers = IF keepAlive THEN OwnHeaders(reply.content)
                         ELSE Append(OwnHeaders(reply.content), Header("Connection", "close"))
  BY <1>1, <1>2, SentFacts
<1>4. TypeOK'
  BY <1>1, <1>2 DEF TypeOK
<1>5. (at = 0 \/ refused) /\ asked # "complete" /\ (asked = "taken" => AsSent)
  BY <1>1, <1>2 DEF ParserInv, Position
<1>6. ParserInv'
  BY <1>1, <1>2, <1>5, ParserRests
<1>7. IdInv'
  BY <1>1, <1>2, <1>3 DEF IdInv, RequestIdentified, GetHeader, SelectInSeq
<1>8. ReplyInv'
  BY <1>1, <1>2, <1>3 DEF ReplyInv
<1>9. AnswerInv'
  <2>1. /\ ExpectedStatus(sent)' = ExpectedStatus(sent)
        /\ ExpectedContent(sent)' = ExpectedContent(sent)
    BY <1>1, SameExpected
  <2>2. AsSent /\ clean => /\ ExpectedStatus(sent) = "ok"
                           /\ ExpectedContent(sent) = reply.content
    BY <1>2, ExpectedOf
  <2>3. asked' = "taken" /\ clean' => /\ wire'.status = ExpectedStatus(sent)'
                                      /\ wire'.content = ExpectedContent(sent)'
    BY <1>1, <1>3, <1>5, <2>1, <2>2
  <2> QED
    BY <1>3, <2>3 DEF AnswerInv
<1>10. ExchangeTypeOK'
  BY <1>1, <1>2, <1>3, <1>4 DEF ExchangeTypeOK, Reply_
<1> QED
  BY <1>6, <1>7, <1>8, <1>9, <1>10 DEF IInv

(* HandleWrite *)
LEMMA WriteStep ==
  ASSUME IInv, HandleWrite
  PROVE  IInv'
<1>1. /\ phase = "writing" /\ wire' = Nothing /\ asked' = "no"
      /\ UNCHANGED <<key, val, lastWasValue, requestComplete, keepAlive>>
      /\ UNCHANGED <<sent, at, off, refused, clean, sample>>
  BY DEF HandleWrite, current, verdict, parser
<1>2. /\ TypeOK /\ ParserInv /\ RequestIdentified /\ sample \in {"avro", "json"}
      /\ reply \in Reply_
  BY DEF IInv, ExchangeTypeOK, IdInv, ReplyInv
<1>3. CASE keepAlive
  <2>1. /\ phase' = "reading" /\ reply' = Reset(reply)
        /\ url' = <<>> /\ query' = <<>> /\ headers' = <<>> /\ body' = <<>> /\ contentLength' = 0
        /\ requestId' = NoText /\ requestUuid' = NoText /\ method' = method
    BY <1>3 DEF HandleWrite, ResetRequest
  <2>2. <<>> \in Text /\ <<>> \in Seq(Field) /\ <<>> \in Seq(Headers_)
    BY EmptySeq DEF Text
  <2>3. reply' \in Reply_ /\ reply'.content = <<>>
    BY <1>2, <2>1, <2>2 DEF Reset, Reply_
  <2>4. TypeOK'
    BY <1>1, <1>2, <2>1, <2>2 DEF TypeOK, NoText
  <2>5. at = 0 \/ refused
    BY <1>1, <1>2 DEF ParserInv, Position
  <2>6. Position'
    <3>1. Now' = Now
      BY <1>1 DEF Now
    <3> QED
      BY <1>1, <1>2, <2>1, <3>1 DEF ParserInv, Position
  <2>7. HeadersInOrder'
    <3>1. sent.headers \in Seq(Field)
      BY <1>2, MessageFacts DEF TypeOK
    <3>2. LoweredFields(sent.headers) \in Seq(Field)
      BY <3>1, LoweredFacts
    <3> QED
      BY <1>1, <2>1, <3>2, PrefixFacts DEF HeadersInOrder
  <2>8. ParserInv'
    <3>1. OneHeaderBuffered'
      BY <1>1, <1>2 DEF ParserInv, OneHeaderBuffered
    <3> QED
      BY <1>1, <2>5, <2>6, <2>7, <3>1 DEF ParserInv
  <2>9. IdInv'
    BY <1>1, <2>1 DEF IdInv, RequestIdentified
  <2>10. ReplyInv'
    BY <1>1, <2>1, <2>3 DEF ReplyInv
  <2>11. AnswerInv'
    BY <1>1, <2>1 DEF AnswerInv
  <2>12. ExchangeTypeOK'
    BY <1>1, <1>2, <2>1, <2>3, <2>4 DEF ExchangeTypeOK, Reply_
  <2> QED
    BY <2>8, <2>9, <2>10, <2>11, <2>12 DEF IInv
<1>4. CASE ~keepAlive
  <2>1. /\ phase' = "over" /\ reply' = reply
        /\ UNCHANGED <<url, query, headers, body, contentLength, method, requestId, requestUuid>>
    BY <1>4 DEF HandleWrite, request, target, ids
  <2>2. TypeOK'
    BY <1>1, <1>2, <2>1 DEF TypeOK
  <2>3. at = 0 \/ refused
    BY <1>1, <1>2 DEF ParserInv, Position
  <2>4. ParserInv'
    BY <1>1, <1>2, <2>1, <2>3, ParserRests
  <2>5. IdInv'
    BY <1>1, <1>2, <2>1 DEF IdInv, RequestIdentified
  <2>6. ReplyInv'
    BY <1>1, <1>2, <2>1 DEF ReplyInv
  <2>7. AnswerInv'
    BY <1>1, <2>1 DEF AnswerInv
  <2>8. ExchangeTypeOK'
    BY <1>1, <1>2, <2>1, <2>2 DEF ExchangeTypeOK, Reply_
  <2> QED
    BY <2>4, <2>5, <2>6, <2>7, <2>8 DEF IInv
<1> QED
  BY <1>3, <1>4

(* A connection that has received nothing. *)
LEMMA InitStep ==
  ASSUME ExchangeInit
  PROVE  IInv
<1>1. /\ url = <<>> /\ query = <<>> /\ headers = <<>> /\ body = <<>> /\ contentLength = 0
      /\ method \in Methods /\ requestId = NoText /\ requestUuid = NoText
      /\ key = <<>> /\ val = <<>> /\ lastWasValue = FALSE
      /\ requestComplete = FALSE /\ keepAlive = FALSE
      /\ sent \in Messages /\ at = 0 /\ off = 0 /\ refused = FALSE /\ clean = TRUE
      /\ sample \in {"avro", "json"} /\ phase = "reading" /\ reply = NewReply
      /\ wire = Nothing /\ asked = "no"
  BY DEF ExchangeInit, Init
<1>2. <<>> \in Text /\ <<>> \in Seq(Field) /\ <<>> \in Seq(Headers_)
  BY EmptySeq DEF Text
<1>3. reply \in Reply_ /\ reply.content = NoBuffer
  BY <1>1, <1>2 DEF NewReply, Reply_
<1>4. TypeOK
  BY <1>1, <1>2 DEF TypeOK, NoText
<1>5. ParserInv
  <2>1. 0 \in 0..Ends(sent)
    BY <1>1, MessageFacts
  <2> QED
    BY <1>1, <2>1 DEF ParserInv, Position, OneHeaderBuffered
<1>6. IdInv
  BY <1>1 DEF IdInv, RequestIdentified
<1>7. ReplyInv
  BY <1>1, <1>3 DEF ReplyInv
<1>8. AnswerInv
  BY <1>1 DEF AnswerInv
<1>9. ExchangeTypeOK
  BY <1>1, <1>3, <1>4 DEF ExchangeTypeOK, Reply_
<1> QED
  BY <1>5, <1>6, <1>7, <1>8, <1>9 DEF IInv

(* Every step of the connection keeps the invariant. *)
LEMMA NextStep ==
  ASSUME IInv, [ExchangeNext]_evars
  PROVE  IInv'
<1>1. CASE MessageBegins
  BY <1>1, BeginsStep
<1>2. CASE ParserReports
  BY <1>2, ReportsStep
<1>3. CASE RejectBytes
  BY <1>3, RejectStep
<1>4. CASE NotFound
  BY <1>4, NotFoundStep
<1>5. CASE AvroHandleRequest
  BY <1>5, AvroRequestStep
<1>6. CASE JsonHandleRequest
  BY <1>6, JsonRequestStep
<1>7. CASE AvroHandlePost
  BY <1>7, PostStep DEF AvroHandlePost
<1>8. CASE JsonHandlePost
  BY <1>8, PostStep DEF JsonHandlePost
<1>9. CASE AskUuid
  BY <1>9, AskUuidStep
<1>10. CASE HandleAsyncReplyDone
  BY <1>10, AsyncStep
<1>11. CASE HandleWrite
  BY <1>11, WriteStep
<1>12. CASE UNCHANGED evars
  <2>1. /\ UNCHANGED <<url, query, headers, body, contentLength, method, requestId, requestUuid>>
        /\ UNCHANGED <<key, val, lastWasValue, requestComplete, keepAlive>>
        /\ UNCHANGED <<sent, at, off, refused, clean>>
        /\ UNCHANGED <<sample, phase, reply, wire, asked>>
    BY <1>12 DEF evars, vars, exchange, request, target, ids, current, verdict, parser
  <2>2. ExchangeTypeOK /\ TypeOK /\ ParserInv /\ IdInv /\ ReplyInv /\ AnswerInv
    BY DEF IInv, ExchangeTypeOK
  <2>3. ExchangeTypeOK'
    <3>1. TypeOK'
      BY <2>1, <2>2 DEF TypeOK
    <3> QED
      BY <2>1, <2>2, <3>1 DEF ExchangeTypeOK
  <2>4. ParserInv'
    <3>1. (phase # "reading" => at = 0 \/ refused) /\ (asked = "complete" => phase = "reading")
      BY <2>2 DEF ParserInv, Position
    <3> QED
      BY <2>1, <2>2, <3>1, ParserRests
  <2>5. IdInv'
    BY <2>1, <2>2 DEF IdInv, RequestIdentified, GetHeader, SelectInSeq
  <2>6. ReplyInv'
    BY <2>1, <2>2 DEF ReplyInv
  <2>7. AnswerInv'
    <3>1. /\ ExpectedStatus(sent)' = ExpectedStatus(sent)
          /\ ExpectedContent(sent)' = ExpectedContent(sent)
      BY <2>1, SameExpected
    <3> QED
      BY <2>1, <2>2, <3>1 DEF AnswerInv
  <2> QED
    BY <2>3, <2>4, <2>5, <2>6, <2>7 DEF IInv
<1> QED
  BY <1>1, <1>2, <1>3, <1>4, <1>5, <1>6, <1>7, <1>8, <1>9, <1>10, <1>11, <1>12
     DEF ExchangeNext

(* What the client reads of the headers of a reply that has none of the    *)
(* application.                                                            *)
LEMMA FramedFacts ==
  ASSUME NEW content \in Text, NEW keep \in BOOLEAN, NEW r,
         r.headers = IF keep THEN OwnHeaders(content)
                     ELSE Append(OwnHeaders(content), Header("Connection", "close"))
  PROVE  /\ HeaderCount(r, "Content-Length") = 1
         /\ HeaderValues(r, "Content-Length") = {Len(content)}
         /\ HeaderCount(r, "Content-Type") = IF content = <<>> THEN 0 ELSE 1
         /\ HeaderValues(r, "Connection") = IF keep THEN {} ELSE {"close"}
<1> DEFINE h == r.headers
<1>1. \/ /\ content = <<>> /\ keep
         /\ h = <<[name |-> "Content-Length", value |-> Len(content)]>>
      \/ /\ content # <<>> /\ keep
         /\ h = <<[name |-> "Content-Length", value |-> Len(content)],
                  [name |-> "Content-Type", value |-> "text/html"]>>
      \/ /\ content = <<>> /\ ~keep
         /\ h = <<[name |-> "Content-Length", value |-> Len(content)],
                  [name |-> "Connection", value |-> "close"]>>
      \/ /\ content # <<>> /\ ~keep
         /\ h = <<[name |-> "Content-Length", value |-> Len(content)],
                  [name |-> "Content-Type", value |-> "text/html"],
                  [name |-> "Connection", value |-> "close"]>>
  <2>1. \A x, y, z \in Headers_ :
          Append(<<x>>, y) = <<x, y>> /\ Append(<<x, y>>, z) = <<x, y, z>>
    <3> SUFFICES ASSUME NEW x \in Headers_, NEW y \in Headers_, NEW z \in Headers_
                 PROVE  Append(<<x>>, y) = <<x, y>> /\ Append(<<x, y>>, z) = <<x, y, z>>
      OBVIOUS
    <3>1. Append(<<x>>, y) = <<x, y>>
      <4> DEFINE s == <<x>>
                 t == Append(s, y)
                 u == <<x, y>>
      <4>1. s \in Seq(Headers_) /\ Len(s) = 1 /\ s[1] = x
        OBVIOUS
      <4>2. u \in Seq(Headers_) /\ Len(u) = 2 /\ u[1] = x /\ u[2] = y
        OBVIOUS
      <4> HIDE DEF s, u
      <4>3. t \in Seq(Headers_) /\ Len(t) = 2 /\ t[1] = x /\ t[2] = y
        <5>1. /\ t \in Seq(Headers_) /\ Len(t) = Len(s) + 1 /\ t[Len(s) + 1] = y
              /\ \A i \in 1..Len(s) : t[i] = s[i]
          <6>1. s \in Seq(Headers_) /\ y \in Headers_
            BY <4>1
          <6> QED
            BY <6>1, AppendProperties
        <5> HIDE DEF t
        <5> QED
          BY <4>1, <5>1
      <4> HIDE DEF t
      <4>4. \A i \in 1..Len(t) : t[i] = u[i]
        BY <4>2, <4>3
      <4>5. t = u
        BY <4>2, <4>3, <4>4, SeqEqual
      <4> QED
        BY <4>5 DEF s, t, u
    <3>2. Append(<<x, y>>, z) = <<x, y, z>>
      <4> DEFINE s == <<x, y>>
                 t == Append(s, z)
                 u == <<x, y, z>>
      <4>1. s \in Seq(Headers_) /\ Len(s) = 2 /\ s[1] = x /\ s[2] = y
        OBVIOUS
      <4>2. u \in Seq(Headers_) /\ Len(u) = 3 /\ u[1] = x /\ u[2] = y /\ u[3] = z
        OBVIOUS
      <4> HIDE DEF s, u
      <4>3. t \in Seq(Headers_) /\ Len(t) = 3 /\ t[1] = x /\ t[2] = y /\ t[3] = z
        <5>1. /\ t \in Seq(Headers_) /\ Len(t) = Len(s) + 1 /\ t[Len(s) + 1] = z
              /\ \A i \in 1..Len(s) : t[i] = s[i]
          <6>1. s \in Seq(Headers_) /\ z \in Headers_
            BY <4>1
          <6> QED
            BY <6>1, AppendProperties
        <5> HIDE DEF t
        <5> QED
          BY <4>1, <5>1
      <4> HIDE DEF t
      <4>4. \A i \in 1..Len(t) : t[i] = u[i]
        BY <4>2, <4>3
      <4>5. t = u
        BY <4>2, <4>3, <4>4, SeqEqual
      <4> QED
        BY <4>5 DEF s, t, u
    <3> QED
      BY <3>1, <3>2
  <2>2. /\ [name |-> "Content-Length", value |-> Len(content)] \in Headers_
        /\ [name |-> "Content-Type", value |-> "text/html"] \in Headers_
        /\ [name |-> "Connection", value |-> "close"] \in Headers_
    BY LenProperties DEF Headers_, Text
  <2>3. CASE content = <<>>
    BY <2>1, <2>2, <2>3 DEF OwnHeaders, Header
  <2>4. CASE content # <<>>
    BY <2>1, <2>2, <2>4 DEF OwnHeaders, Header
  <2> QED
    BY <2>3, <2>4
<1> HIDE DEF h
<1>2. /\ DOMAIN h = IF content = <<>> THEN IF keep THEN {1} ELSE {1, 2}
                    ELSE IF keep THEN {1, 2} ELSE {1, 2, 3}
      /\ h[1] = [name |-> "Content-Length", value |-> Len(content)]
      /\ content # <<>> => h[2] = [name |-> "Content-Type", value |-> "text/html"]
      /\ ~keep => h[IF content = <<>> THEN 2 ELSE 3] = [name |-> "Connection", value |-> "close"]
  BY <1>1
<1>3. /\ {j \in DOMAIN h : h[j].name = "Content-Length"} = {1}
      /\ {j \in DOMAIN h : h[j].name = "Content-Type"} = IF content = <<>> THEN {} ELSE {2}
      /\ {j \in DOMAIN h : h[j].name = "Connection"}
           = IF keep THEN {} ELSE {IF content = <<>> THEN 2 ELSE 3}
  BY <1>2
<1>4. /\ {h[i].value : i \in {1}} = {Len(content)}
      /\ {h[i].value : i \in IF keep THEN {} ELSE {IF content = <<>> THEN 2 ELSE 3}}
           = IF keep THEN {} ELSE {"close"}
  BY <1>2
<1>5. Cardinality({1}) = 1 /\ Cardinality({2}) = 1 /\ Cardinality({}) = 0
  BY FS_Singleton, FS_EmptySet
<1> QED
  BY <1>3, <1>4, <1>5 DEF HeaderCount, HeaderValues, h

---------------------------------------------------------------------------
(* The theorems *)

(* However a request is cut into pieces, whatever the connection received  *)
(* before, and whichever way each request ends: what the callbacks have    *)
(* stored is what has been reported of the message that was sent.          *)
THEOREM Inductive == Spec => []IInv
<1>1. ExchangeInit => IInv
  BY InitStep
<1>2. IInv /\ [ExchangeNext]_evars => IInv'
  BY NextStep
<1> QED
  BY <1>1, <1>2, PTL DEF Spec

(* All the fields of connection, request_t and reply_t have their types,   *)
(* and the wire only holds replies that have been created.                 *)
THEOREM TypeCorrect == Spec => []ExchangeTypeOK
<1>1. IInv => ExchangeTypeOK
  BY DEF IInv
<1> QED
  BY <1>1, Inductive, PTL

(* A complete request has the method and the body that were sent, and the  *)
(* assertion of content_length holds; the url that was sent, if it was cut *)
(* only in front of a "/" of its path; and the headers that were sent, each*)
(* once and in order, behind which trailers may follow.  The header buffers*)
(* never hold more than one header.                                        *)
THEOREM RequestsAsSent == Spec => []RequestAsSent
<1>1. IInv => RequestAsSent
  BY DEF IInv, ParserInv, AsSent, RequestAsSent
<1> QED
  BY <1>1, Inductive, PTL

(* request_id and request_uuid never give a request the id of another.     *)
THEOREM RequestsIdentified == Spec => []RequestIdentified
<1>1. IInv => RequestIdentified
  BY DEF IInv, IdInv
<1> QED
  BY <1>1, Inductive, PTL

(* What send_reply puts on the wire has one Content-Length, and it is the  *)
(* number of bytes that follow; a Content-Type iff bytes follow.           *)
THEOREM RepliesFramed == Spec => []ReplyFramed
<1>1. IInv => ReplyFramed
  <2> SUFFICES ASSUME IInv, wire # Nothing
               PROVE  /\ HeaderCount(wire, "Content-Length") = 1
                      /\ HeaderValues(wire, "Content-Length") = {Len(wire.content)}
                      /\ HeaderCount(wire, "Content-Type")
                           = IF wire.content = <<>> THEN 0 ELSE 1
    BY DEF ReplyFramed
  <2>1. /\ wire.content \in Text /\ keepAlive \in BOOLEAN
        /\ wire.headers = IF keepAlive THEN OwnHeaders(wire.content)
                          ELSE Append(OwnHeaders(wire.content), Header("Connection", "close"))
    BY DEF IInv, ReplyInv, ExchangeTypeOK, TypeOK
  <2> QED
    BY <2>1, FramedFacts
<1> QED
  BY <1>1, Inductive, PTL

(* The reply to a request has the status and the content that this request *)
(* calls for, and says "close" iff its client did not ask to go on: nothing*)
(* of an earlier request or reply gets into it.                            *)
THEOREM AnswersRequest == Spec => []AnswersThisRequest
<1>1. IInv => AnswersThisRequest
  <2> SUFFICES ASSUME IInv, wire # Nothing, asked = "taken", clean
               PROVE  /\ wire.status = ExpectedStatus(sent)
                      /\ wire.content = ExpectedContent(sent)
                      /\ HeaderValues(wire, "Connection")
                           = IF sent.keep THEN {} ELSE {"close"}
    BY DEF AnswersThisRequest
  <2>1. /\ wire.content \in Text /\ keepAlive \in BOOLEAN
        /\ wire.headers = IF keepAlive THEN OwnHeaders(wire.content)
                          ELSE Append(OwnHeaders(wire.content), Header("Connection", "close"))
    BY DEF IInv, ReplyInv, ExchangeTypeOK, TypeOK
  <2>2. HeaderValues(wire, "Connection") = IF keepAlive THEN {} ELSE {"close"}
    BY <2>1, FramedFacts
  <2>3. keepAlive = sent.keep
    BY DEF IInv, ParserInv, AsSent, MethodAsSent
  <2>4. wire.status = ExpectedStatus(sent) /\ wire.content = ExpectedContent(sent)
    BY DEF IInv, AnswerInv
  <2> QED
    BY <2>2, <2>3, <2>4
<1> QED
  BY <1>1, Inductive, PTL
===========================================================================
