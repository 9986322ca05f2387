--------------------------- MODULE RouterProofs ---------------------------
(***************************************************************************)
(* Theorems about Router and UriPattern, for all patterns, urls, threads   *)
(* and bounds.                                                             *)
(***************************************************************************)
EXTENDS Router, SequenceTheorems, FiniteSetTheorems, WellFoundedInduction, TLAPS

(* The first k levels of a path. *)
LEMMA PrefixOfPath ==
  ASSUME NEW path \in Seq(Levels), NEW k \in 0..Len(path)
  PROVE  /\ SubSeq(path, 1, k) \in Seq(Levels)
         /\ Len(SubSeq(path, 1, k)) = k
         /\ \A i \in 1..k : SubSeq(path, 1, k)[i] = path[i]
<1>1. Len(path) \in Nat /\ k \in Int /\ 1 \in Int
  OBVIOUS
<1>2. \A i \in 1..k : path[i] \in Levels
  OBVIOUS
<1>3. /\ SubSeq(path, 1, k) \in Seq(Levels)
      /\ Len(SubSeq(path, 1, k)) = IF 1 <= k THEN k - 1 + 1 ELSE 0
      /\ \A i \in 1..k - 1 + 1 : SubSeq(path, 1, k)[i] = path[1 + i - 1]
  BY <1>1, <1>2, SubSeqProperties
<1> QED BY <1>1, <1>3

(* uri_pattern::match, with its tests of lengths, is the rule of the       *)
(* comments: every "+" stands for one level, a final "#" for one or more.  *)
THEOREM MatchIsCovers ==
  ASSUME NEW pattern \in Paths, NEW url \in Paths
  PROVE  Match(pattern, url) <=> Covers(pattern, url)
<1>1. /\ pattern \in Seq(Levels) /\ Len(pattern) \in Nat /\ Len(pattern) > 0
      /\ url \in Seq(Levels) /\ Len(url) \in Nat /\ Len(url) > 0
  BY DEF Paths
<1>2. CASE Last(pattern) # Hash
  BY <1>1, <1>2 DEF Match, Covers, Parts, CatchAll, Replaces, Fits
<1>3. CASE Last(pattern) = Hash
  <2> DEFINE front == SubSeq(pattern, 1, Len(pattern) - 1)
  <2>1. front \in Seq(Levels) /\ Len(front) = Len(pattern) - 1
    <3>1. Len(pattern) - 1 \in 0..Len(pattern)
      BY <1>1
    <3> QED BY <1>1, <3>1, PrefixOfPath
  <2>2. ASSUME Match(pattern, url) PROVE Covers(pattern, url)
    <3> DEFINE n == Len(front)
    <3>1. n \in 0..Len(url) - 1 /\ \A i \in 1..n : front[i] \in {Plus, url[i]}
      BY <1>1, <1>3, <2>1, <2>2 DEF Match, Parts, CatchAll, Front
    <3>2. Replaces(front, SubSeq(url, 1, n))
      BY <1>1, <2>1, <3>1 DEF Replaces, Fits
    <3> QED BY <1>3, <3>1, <3>2 DEF Covers, Front
  <2>3. ASSUME Covers(pattern, url) PROVE Match(pattern, url)
    <3>1. PICK n \in 0..Len(url) - 1 : Replaces(front, SubSeq(url, 1, n))
      BY <1>3, <2>3 DEF Covers, Front
    <3> DEFINE head == SubSeq(url, 1, n)
    <3>2. head \in Seq(Levels) /\ Len(head) = n /\ \A i \in 1..n : head[i] = url[i]
      BY <1>1, PrefixOfPath
    <3>3. DOMAIN front = 1..Len(front) /\ DOMAIN head = 1..n
      BY <2>1, <3>2
    <3>4. n = Len(front)
      <4>1. DOMAIN front = DOMAIN head
        BY <3>1 DEF Replaces
      <4> QED BY <1>1, <2>1, <3>2, <3>3, <4>1
    <3>5. \A i \in 1..n : front[i] \in {Plus, url[i]}
      BY <3>1, <3>2, <3>3, <3>4 DEF Replaces, Fits
    <3> QED BY <1>1, <1>3, <2>1, <3>4, <3>5 DEF Match, Parts, CatchAll, Front
  <2> QED BY <2>2, <2>3
<1> QED BY <1>2, <1>3

---------------------------------------------------------------------------
(* Sums *)

(* Induction on the natural numbers, from the order that is well-founded:  *)
(* 0 is in A, and with each number its successor.                          *)
LEMMA AllNumbers ==
  ASSUME NEW A \in SUBSET Nat, 0 \in A, \A n \in A : n + 1 \in A
  PROVE  A = Nat
<1> SUFFICES ASSUME Nat \ A # {} PROVE FALSE
  OBVIOUS
<1>1. PICK m \in Nat \ A : \A i \in Nat \ A : ~(<<i, m>> \in OpToRel(<, Nat))
  BY NatLessThanWellFounded, WFMin
<1>2. \A i, k \in Nat : i < k => <<i, k>> \in OpToRel(<, Nat)
  BY Zenon DEF OpToRel
<1>3. \A i \in Nat \ A : ~(i < m)
  BY <1>1, <1>2, Zenon
<1>4. m # 0 /\ m \in Nat
  BY <1>1
<1>6. m - 1 \in Nat /\ m - 1 < m /\ m = (m - 1) + 1
  BY <1>4
<1>5. m - 1 \in A
  BY <1>3, <1>6
<1> QED
  BY <1>1, <1>5, <1>6

(* The element a fold takes first. *)
Some(s) == CHOOSE x \in s : TRUE

(* g is the fold that adds f over the subsets of S. *)
Adds(g, f, S) ==
  g = [s \in SUBSET S |-> IF s = {} THEN 0 ELSE f[Some(s)] + g[s \ {Some(s)}]]

(* Sets with at most n elements *)
UpTo(S, n) == {s \in SUBSET S : Cardinality(s) <= n}

(* A subset of a finite set, and what is left of it without an element.    *)
LEMMA Smaller ==
  ASSUME NEW S, IsFiniteSet(S), NEW s \in SUBSET S
  PROVE  /\ IsFiniteSet(s) /\ Cardinality(s) \in Nat
         /\ Cardinality(s) = 0 <=> s = {}
         /\ s # {} => Some(s) \in s
         /\ \A x \in s : s \ {x} \in SUBSET S /\ Cardinality(s \ {x}) = Cardinality(s) - 1
<1>1. IsFiniteSet(s) /\ Cardinality(s) \in Nat
  BY FS_Subset, FS_CardinalityType
<1>2. Cardinality(s) = 0 <=> s = {}
  BY <1>1, FS_EmptySet
<1>3. s # {} => Some(s) \in s
  BY DEF Some
<1>4. \A x \in s : s \ {x} \in SUBSET S /\ Cardinality(s \ {x}) = Cardinality(s) - 1
  BY <1>1, FS_RemoveElement
<1> QED
  BY <1>1, <1>2, <1>3, <1>4

(* The fold is defined: on the sets of 0, 1, 2 ... elements, in turn.      *)
LEMMA AddsExists ==
  ASSUME NEW S, IsFiniteSet(S), NEW f, \A x \in S : f[x] \in Nat
  PROVE  \E g \in [SUBSET S -> Nat] : Adds(g, f, S)
<1> DEFINE Eq(g, s) == g[s] = IF s = {} THEN 0 ELSE f[Some(s)] + g[s \ {Some(s)}]
           Good(n) == \E g \in [UpTo(S, n) -> Nat] : \A s \in UpTo(S, n) : Eq(g, s)
           A == {n \in Nat : Good(n)}
<1>1. Good(0)
  <2> DEFINE g == [s \in UpTo(S, 0) |-> 0]
  <2>1. \A s \in UpTo(S, 0) : s = {}
    BY Smaller DEF UpTo
  <2>2. g \in [UpTo(S, 0) -> Nat] /\ \A s \in UpTo(S, 0) : Eq(g, s)
    BY <2>1
  <2> QED
    BY <2>2
<1>2. ASSUME NEW n \in Nat, Good(n) PROVE Good(n + 1)
  <2>1. PICK g \in [UpTo(S, n) -> Nat] : \A s \in UpTo(S, n) : Eq(g, s)
    BY <1>2
  <2> DEFINE h == [s \in UpTo(S, n + 1) |-> IF s = {} THEN 0 ELSE f[Some(s)] + g[s \ {Some(s)}]]
  <2>2. \A s \in UpTo(S, n + 1) : s # {} => Some(s) \in S /\ s \ {Some(s)} \in UpTo(S, n)
    BY Smaller DEF UpTo
  <2>3. \A s \in UpTo(S, n) : s \in UpTo(S, n + 1)
    BY Smaller DEF UpTo
  <2>4. h \in [UpTo(S, n + 1) -> Nat]
    <3>1. ASSUME NEW s \in UpTo(S, n + 1), s # {} PROVE f[Some(s)] + g[s \ {Some(s)}] \in Nat
      <4>1. f[Some(s)] \in Nat /\ g[s \ {Some(s)}] \in Nat
        BY <2>2, <3>1
      <4> QED
        BY <4>1
    <3> QED
      BY <3>1
  <2>5. \A s \in UpTo(S, n) : h[s] = g[s]
    BY <2>1, <2>3
  <2>6. \A s \in UpTo(S, n + 1) : Eq(h, s)
    BY <2>2, <2>5
  <2> HIDE DEF h
  <2> QED
    BY <2>4, <2>6
<1> HIDE DEF Good
<1>3. A = Nat
  <2>1. A \in SUBSET Nat /\ 0 \in A /\ \A n \in A : n + 1 \in A
    BY <1>1, <1>2
  <2> HIDE DEF A
  <2> QED
    BY <2>1, AllNumbers
<1>4. UpTo(S, Cardinality(S)) = SUBSET S /\ Cardinality(S) \in Nat
  <2>1. \A s \in SUBSET S : Cardinality(s) <= Cardinality(S)
    BY FS_Subset
  <2> QED
    BY <2>1, FS_CardinalityType DEF UpTo
<1>5. PICK g \in [SUBSET S -> Nat] : \A s \in SUBSET S : Eq(g, s)
  <2>1. Good(Cardinality(S))
    BY <1>3, <1>4
  <2> QED
    BY <1>4, <2>1 DEF Good
<1>6. g = [s \in SUBSET S |-> g[s]]
  OBVIOUS
<1> QED
  BY <1>5, <1>6 DEF Adds

(* Every subset is in A if each is whose smaller subsets are. *)
LEMMA AllSubsets ==
  ASSUME NEW S, IsFiniteSet(S), NEW A \in SUBSET SUBSET S,
         \A s \in SUBSET S : (\A x \in s : s \ {x} \in A) => s \in A
  PROVE  A = SUBSET S
<1> DEFINE B == {n \in Nat : UpTo(S, n) \subseteq A}
<1>1. 0 \in B
  BY Smaller DEF UpTo
<1>2. ASSUME NEW n \in B PROVE n + 1 \in B
  <2>1. ASSUME NEW s \in UpTo(S, n + 1) PROVE s \in A
    <3>1. s \in SUBSET S /\ \A x \in s : s \ {x} \in UpTo(S, n)
      BY <2>1, Smaller DEF UpTo
    <3> QED
      BY <1>2, <3>1
  <2> QED
    BY <2>1
<1>3. B = Nat
  <2>1. B \in SUBSET Nat
    OBVIOUS
  <2> HIDE DEF B
  <2> QED
    BY <1>1, <1>2, <2>1, AllNumbers
<1>4. \A s \in SUBSET S : s \in UpTo(S, Cardinality(s)) /\ Cardinality(s) \in Nat
  BY Smaller DEF UpTo
<1> QED
  BY <1>3, <1>4

(* It adds up natural numbers.                                             *)
LEMMA AddsType ==
  ASSUME NEW S, IsFiniteSet(S), NEW f, \A x \in S : f[x] \in Nat, NEW g, Adds(g, f, S)
  PROVE  g \in [SUBSET S -> Nat]
<1> DEFINE A == {s \in SUBSET S : g[s] \in Nat}
<1>1. \A s \in SUBSET S : g[s] = IF s = {} THEN 0 ELSE f[Some(s)] + g[s \ {Some(s)}]
  BY DEF Adds
<1>2. ASSUME NEW s \in SUBSET S, \A x \in s : s \ {x} \in A PROVE s \in A
  <2>1. CASE s # {}
    <3>1. f[Some(s)] \in Nat /\ g[s \ {Some(s)}] \in Nat
      BY <1>2, <2>1, Smaller
    <3>2. g[s] = f[Some(s)] + g[s \ {Some(s)}]
      BY <1>1, <2>1
    <3>3. \A a, b \in Nat : a + b \in Nat
      OBVIOUS
    <3>4. g[s] \in Nat
      BY <3>1, <3>2, <3>3
    <3> QED
      BY <3>4
  <2> QED
    BY <1>1, <2>1
<1>3. A = SUBSET S
  <2>1. A \in SUBSET SUBSET S
    OBVIOUS
  <2> HIDE DEF A
  <2> QED
    BY <1>2, <2>1, AllSubsets
<1>4. \A s \in SUBSET S : g[s] \in Nat
  BY <1>3
<1> QED
  BY <1>4 DEF Adds

(* It does not matter in which set the fold starts. *)
LEMMA AddsSame ==
  ASSUME NEW S, IsFiniteSet(S), NEW T \in SUBSET S, NEW f,
         NEW g, Adds(g, f, S), NEW h, Adds(h, f, T)
  PROVE  h[T] = g[T]
<1> DEFINE A == {s \in SUBSET T : g[s] = h[s]}
<1>1. /\ \A s \in SUBSET T : g[s] = IF s = {} THEN 0 ELSE f[Some(s)] + g[s \ {Some(s)}]
      /\ \A s \in SUBSET T : h[s] = IF s = {} THEN 0 ELSE f[Some(s)] + h[s \ {Some(s)}]
  BY DEF Adds
<1>2. IsFiniteSet(T)
  BY Smaller
<1>3. ASSUME NEW s \in SUBSET T, \A x \in s : s \ {x} \in A PROVE s \in A
  <2>1. CASE s # {}
    <3>1. g[s \ {Some(s)}] = h[s \ {Some(s)}]
      BY <1>2, <1>3, <2>1, Smaller
    <3> QED
      BY <1>1, <2>1, <3>1
  <2> QED
    BY <1>1, <2>1
<1>4. A = SUBSET T
  <2>1. A \in SUBSET SUBSET T
    OBVIOUS
  <2> HIDE DEF A
  <2> QED
    BY <1>2, <1>3, <2>1, AllSubsets
<1> QED
  BY <1>4

(* Nor which element comes first. *)
LEMMA AddsAny ==
  ASSUME NEW S, IsFiniteSet(S), NEW f \in [S -> Nat], NEW g, Adds(g, f, S)
  PROVE  \A s \in SUBSET S : \A x \in s : g[s] = f[x] + g[s \ {x}]
<1> DEFINE A == {s \in SUBSET S : \A x \in s : g[s] = f[x] + g[s \ {x}]}
<1>1. \A s \in SUBSET S : g[s] = IF s = {} THEN 0 ELSE f[Some(s)] + g[s \ {Some(s)}]
  BY DEF Adds
<1>2. g \in [SUBSET S -> Nat]
  BY AddsType
<1>3. ASSUME NEW s \in SUBSET S, \A x \in s : s \ {x} \in A,
             NEW x \in s
      PROVE  g[s] = f[x] + g[s \ {x}]
  <2> DEFINE c == Some(s)
  <2>1. c \in s /\ g[s] = f[c] + g[s \ {c}]
    BY <1>1, <1>3, Smaller
  <2> HIDE DEF c
  <2>2. CASE x # c
    <3>1. /\ g[s \ {c}] = f[x] + g[(s \ {c}) \ {x}]
          /\ g[s \ {x}] = f[c] + g[(s \ {x}) \ {c}]
      BY <1>3, <2>1, <2>2
    <3>2. (s \ {c}) \ {x} = (s \ {x}) \ {c} /\ (s \ {c}) \ {x} \in SUBSET S
      BY <2>1, <2>2
    <3>3. f[x] \in Nat /\ f[c] \in Nat /\ g[(s \ {c}) \ {x}] \in Nat
      BY <1>2, <1>3, <2>1, <3>2
    <3> DEFINE r == g[(s \ {c}) \ {x}]
    <3>4. g[s] = f[c] + (f[x] + r) /\ g[s \ {x}] = f[c] + r
      BY <2>1, <3>1, <3>2
    <3>5. r \in Nat
      BY <3>3
    <3> HIDE DEF r
    <3>6. \A a, b, d \in Nat : a + (b + d) = b + (a + d)
      OBVIOUS
    <3> QED
      BY <3>3, <3>4, <3>5, <3>6
  <2> QED
    BY <2>1, <2>2
<1>4. A = SUBSET S
  <2>1. A \in SUBSET SUBSET S /\ \A s \in SUBSET S : (\A x \in s : s \ {x} \in A) => s \in A
    BY <1>3
  <2> HIDE DEF A
  <2> QED
    BY <2>1, AllSubsets
<1> QED
  BY <1>4

(* What SumFunctionOnSet is: nothing for the empty set, and for others the *)
(* value of any element and the sum over the rest.                         *)
LEMMA SumOf ==
  ASSUME NEW S, IsFiniteSet(S), NEW f \in [S -> Nat], NEW s \in SUBSET S
  PROVE  /\ SumFunctionOnSet(f, {}) = 0 /\ SumFunctionOnSet(f, s) \in Nat
         /\ \A x \in s : SumFunctionOnSet(f, s) = f[x] + SumFunctionOnSet(f, s \ {x})
<1>1. PICK g \in [SUBSET S -> Nat] : Adds(g, f, S)
  BY AddsExists
<1>2. ASSUME NEW t \in SUBSET S PROVE SumFunctionOnSet(f, t) = g[t]
  <2> DEFINE h == CHOOSE i : Adds(i, f, t)
  <2>1. IsFiniteSet(t) /\ \A x \in t : f[x] \in Nat
    BY Smaller
  <2>2. \E i : Adds(i, f, t)
    BY <2>1, AddsExists
  <2>3. Adds(h, f, t)
    BY <2>2
  <2>4. SumFunctionOnSet(f, t) = h[t]
    BY DEF SumFunctionOnSet, FoldFunctionOnSet, MapThenFoldSet, Adds, Some
  <2> HIDE DEF h
  <2>5. h[t] = g[t]
    BY <1>1, <2>3, AddsSame
  <2> QED
    BY <2>4, <2>5
<1>3. ASSUME NEW x \in s PROVE g[s] = f[x] + g[s \ {x}]
  BY <1>1, AddsAny
<1>4. g[{}] = 0
  BY <1>1 DEF Adds
<1>5. {} \in SUBSET S /\ g[s] \in Nat /\ \A x \in s : s \ {x} \in SUBSET S
  BY <1>1
<1> QED
  BY <1>2, <1>3, <1>4, <1>5

(* The sum over the first k indices *)
LEMMA SumTo ==
  ASSUME NEW n \in Nat, NEW I, I = 1..n, NEW f \in [I -> Nat]
  PROVE  /\ SumFunctionOnSet(f, 1..0) = 0
         /\ \A k \in 0..n : SumFunctionOnSet(f, 1..k) \in Nat
         /\ \A k \in 1..n : SumFunctionOnSet(f, 1..k) = f[k] + SumFunctionOnSet(f, 1..k - 1)
<1>1. IsFiniteSet(I)
  <2>1. 1 \in Int /\ n \in Int
    OBVIOUS
  <2> QED
    BY <2>1, FS_Interval
<1>2. SumFunctionOnSet(f, 1..0) = 0
  <2>1. 1..0 = {}
    OBVIOUS
  <2> QED
    BY ONLY f \in [I -> Nat], <1>1, <2>1, SumOf
<1>3. ASSUME NEW s \in SUBSET I PROVE SumFunctionOnSet(f, s) \in Nat
  BY ONLY f \in [I -> Nat], <1>1, <1>3, SumOf
<1>4. ASSUME NEW s \in SUBSET I, NEW x \in s
      PROVE  SumFunctionOnSet(f, s) = f[x] + SumFunctionOnSet(f, s \ {x})
  BY ONLY f \in [I -> Nat], <1>1, <1>4, SumOf
<1>5. ASSUME NEW k \in 0..n PROVE SumFunctionOnSet(f, 1..k) \in Nat
  <2>1. 1..k \in SUBSET I
    OBVIOUS
  <2> QED
    BY <1>3, <2>1
<1>6. ASSUME NEW k \in 1..n
      PROVE  SumFunctionOnSet(f, 1..k) = f[k] + SumFunctionOnSet(f, 1..k - 1)
  <2>1. 1..k \in SUBSET I /\ k \in 1..k /\ (1..k) \ {k} = 1..k - 1
    OBVIOUS
  <2>2. SumFunctionOnSet(f, 1..k) = f[k] + SumFunctionOnSet(f, (1..k) \ {k})
    BY <1>4, <2>1
  <2> QED
    BY <2>1, <2>2
<1> QED
  BY <1>2, <1>5, <1>6

(* The next value is added. *)
LEMMA SumNext ==
  ASSUME NEW n \in Nat, NEW I, I = 1..n, NEW f \in [I -> Nat], NEW k \in 1..n
  PROVE  /\ SumFunctionOnSet(f, 1..k) = f[k] + SumFunctionOnSet(f, 1..k - 1)
         /\ f[k] \in Nat /\ SumFunctionOnSet(f, 1..k - 1) \in Nat
<1>1. /\ \A i \in 0..n : SumFunctionOnSet(f, 1..i) \in Nat
      /\ \A i \in 1..n : SumFunctionOnSet(f, 1..i) = f[i] + SumFunctionOnSet(f, 1..i - 1)
  BY SumTo
<1>2. SumFunctionOnSet(f, 1..k) = f[k] + SumFunctionOnSet(f, 1..k - 1)
  BY <1>1
<1>3. SumFunctionOnSet(f, 1..k - 1) \in Nat
  <2>1. k - 1 \in 0..n
    OBVIOUS
  <2> QED
    BY <1>1, <2>1
<1>4. f[k] \in Nat
  OBVIOUS
<1> QED
  BY <1>2, <1>3, <1>4

(* A sum grows with its values ... *)
LEMMA SumGrows ==
  ASSUME NEW n \in Nat, NEW I, I = 1..n, NEW f \in [I -> Nat], NEW g \in [I -> Nat],
         \A i \in I : f[i] <= g[i]
  PROVE  \A k \in 0..n : SumFunctionOnSet(f, 1..k) <= SumFunctionOnSet(g, 1..k)
<1> DEFINE F(k) == SumFunctionOnSet(f, 1..k)
           G(k) == SumFunctionOnSet(g, 1..k)
           A == {k \in Nat : k <= n => F(k) <= G(k)}
<1>1. /\ F(0) = 0 /\ \A k \in 0..n : F(k) \in Nat
      /\ \A k \in 1..n : F(k) = f[k] + F(k - 1)
  BY SumTo
<1>2. /\ G(0) = 0 /\ \A k \in 0..n : G(k) \in Nat
      /\ \A k \in 1..n : G(k) = g[k] + G(k - 1)
  BY SumTo
<1> HIDE DEF F, G
<1>3. ASSUME NEW k \in Nat, k <= n => F(k) <= G(k), k + 1 <= n PROVE F(k + 1) <= G(k + 1)
  <2>1. k \in 0..n /\ k + 1 \in 1..n /\ (k + 1) - 1 = k
    BY <1>3
  <2>2. F(k + 1) = f[k + 1] + F(k) /\ G(k + 1) = g[k + 1] + G(k) /\ F(k) <= G(k)
    BY <1>1, <1>2, <1>3, <2>1
  <2>3. /\ f[k + 1] \in Nat /\ g[k + 1] \in Nat /\ f[k + 1] <= g[k + 1]
        /\ F(k) \in Nat /\ G(k) \in Nat
    BY <1>1, <1>2, <2>1
  <2> QED
    BY ONLY <2>2, <2>3
<1>4. A = Nat
  <2>1. A \in SUBSET Nat /\ 0 \in A /\ \A k \in A : k + 1 \in A
    BY <1>1, <1>2, <1>3
  <2> HIDE DEF A
  <2> QED
    BY <2>1, AllNumbers
<1>5. \A k \in 0..n : F(k) <= G(k)
  BY <1>4
<1> QED
  BY <1>5 DEF F, G

(* ... as does what is still to come of it ... *)
LEMMA RestGrows ==
  ASSUME NEW n \in Nat, NEW I, I = 1..n, NEW f \in [I -> Nat], NEW g \in [I -> Nat],
         \A i \in I : f[i] <= g[i], NEW k \in 0..n
  PROVE  SumFunctionOnSet(f, 1..n) - SumFunctionOnSet(f, 1..k)
           <= SumFunctionOnSet(g, 1..n) - SumFunctionOnSet(g, 1..k)
<1> DEFINE F(m) == SumFunctionOnSet(f, 1..m)
           G(m) == SumFunctionOnSet(g, 1..m)
           A == {i \in Nat : k + i <= n => F(k + i) - F(k) <= G(k + i) - G(k)}
<1>1. /\ \A m \in 0..n : F(m) \in Nat
      /\ \A m \in 1..n : F(m) = f[m] + F(m - 1)
  BY SumTo
<1>2. /\ \A m \in 0..n : G(m) \in Nat
      /\ \A m \in 1..n : G(m) = g[m] + G(m - 1)
  BY SumTo
<1> HIDE DEF F, G
<1>3. ASSUME NEW i \in Nat, k + i <= n => F(k + i) - F(k) <= G(k + i) - G(k), k + (i + 1) <= n
      PROVE  F(k + (i + 1)) - F(k) <= G(k + (i + 1)) - G(k)
  <2> DEFINE m == k + i
             next == k + (i + 1)
  <2>1. m \in 0..n /\ next \in 1..n /\ next - 1 = m
    BY <1>3
  <2>2. F(m) - F(k) <= G(m) - G(k)
    BY <1>3, <2>1
  <2> HIDE DEF m, next
  <2>3. F(next) = f[next] + F(m) /\ G(next) = g[next] + G(m)
    BY <1>1, <1>2, <2>1
  <2>4. /\ f[next] \in Nat /\ g[next] \in Nat /\ f[next] <= g[next]
        /\ F(m) \in Nat /\ G(m) \in Nat /\ F(k) \in Nat /\ G(k) \in Nat
    BY <1>1, <1>2, <2>1
  <2>5. F(next) - F(k) <= G(next) - G(k)
    BY ONLY <2>2, <2>3, <2>4
  <2> QED
    BY <2>5 DEF next
<1>4. A = Nat
  <2>1. F(k + 0) - F(k) <= G(k + 0) - G(k)
    <3>1. k + 0 = k /\ F(k) \in Nat /\ G(k) \in Nat
      BY <1>1, <1>2
    <3> QED
      BY <3>1
  <2>2. 0 \in A
    BY <2>1
  <2>3. ASSUME NEW i \in A PROVE i + 1 \in A
    <3>1. i \in Nat /\ (k + i <= n => F(k + i) - F(k) <= G(k + i) - G(k))
      OBVIOUS
    <3>2. k + (i + 1) <= n => F(k + (i + 1)) - F(k) <= G(k + (i + 1)) - G(k)
      BY <1>3, <3>1
    <3> QED
      BY <3>1, <3>2
  <2>4. A \in SUBSET Nat
    OBVIOUS
  <2> HIDE DEF A
  <2> QED
    BY <2>2, <2>3, <2>4, AllNumbers
<1>5. F(n) - F(k) <= G(n) - G(k)
  <2> DEFINE i == n - k
  <2>1. i \in Nat /\ k + i = n
    OBVIOUS
  <2> HIDE DEF i
  <2>2. k + i <= n => F(k + i) - F(k) <= G(k + i) - G(k)
    BY <1>4, <2>1
  <2> QED
    BY <2>1, <2>2
<1> QED
  BY <1>5 DEF F, G


(* ... and is bounded if they are. *)
LEMMA SumBounded ==
  ASSUME NEW n \in Nat, NEW I, I = 1..n, NEW m \in Nat, NEW f \in [I -> 0..m]
  PROVE  \A k \in 0..n : SumFunctionOnSet(f, 1..k) <= k * m
<1> DEFINE F(k) == SumFunctionOnSet(f, 1..k)
           A == {k \in Nat : k <= n => F(k) <= k * m}
<1>1. f \in [I -> Nat] /\ \A i \in I : f[i] \in Nat /\ f[i] <= m
  OBVIOUS
<1>2. /\ F(0) = 0 /\ \A k \in 0..n : F(k) \in Nat
      /\ \A k \in 1..n : F(k) = f[k] + F(k - 1)
  <2> HIDE DEF F
  <2>1. F(0) = 0
    BY <1>1, SumTo DEF F
  <2>2. \A k \in 0..n : F(k) \in Nat
    BY <1>1, SumTo DEF F
  <2>3. ASSUME NEW k \in 1..n PROVE F(k) = f[k] + F(k - 1)
    BY <1>1, SumNext, Zenon DEF F
  <2> QED
    BY <2>1, <2>2, <2>3
<1> HIDE DEF F
<1>3. ASSUME NEW k \in Nat, k <= n => F(k) <= k * m, k + 1 <= n PROVE F(k + 1) <= (k + 1) * m
  <2>1. k \in 0..n /\ k + 1 \in 1..n /\ (k + 1) - 1 = k
    BY <1>3
  <2>2. F(k + 1) = f[k + 1] + F(k) /\ F(k) <= k * m
    BY <1>2, <1>3, <2>1
  <2>3. f[k + 1] \in Nat /\ f[k + 1] <= m /\ F(k) \in Nat
    BY <1>1, <1>2, <2>1
  <2>4. (k + 1) * m = k * m + m /\ k * m \in Nat
    OBVIOUS
  <2> QED
    BY ONLY <2>2, <2>3, <2>4, m \in Nat
<1>4. A = Nat
  <2>1. A \in SUBSET Nat /\ 0 \in A /\ \A k \in A : k + 1 \in A
    BY <1>2, <1>3
  <2> HIDE DEF A
  <2> QED
    BY <2>1, AllNumbers
<1>5. \A k \in 0..n : F(k) <= k * m
  BY <1>4
<1> QED
  BY <1>5 DEF F

---------------------------------------------------------------------------
(* Counters stay within their width. *)
LEMMA CountWraps == ASSUME NEW n \in Nat PROVE n % Wrap \in 0..Wrap - 1
  BY RouterAssumption

LEMMA StartsWell == Init => TypeOK /\ HandlersExclusive
<1> SUFFICES ASSUME Init PROVE TypeOK /\ HandlersExclusive
  OBVIOUS
<1>1. Free \in Tasks
  BY LevelsAssumption DEF Tasks, Free, Paths
<1>2. TypeOK
  BY <1>1, RouterAssumption DEF Init, TypeOK, Fetched, Index, Tasks
<1>3. HandlersExclusive
  BY DEF Init, HandlersExclusive, Inside, Free, Index
<1> QED BY <1>2, <1>3

(* What get_no_of_requests finds: a counter and a number of calls of each  *)
(* handler, and so a number of calls of all it counts.                     *)
LEMMA StatTypes ==
  ASSUME TypeOK
  PROVE  /\ MaxHandlers \in Nat /\ MaxCalls \in Nat /\ Wrap \in Nat \ {0}
         /\ Index = 1..MaxHandlers /\ Fetched = MaxHandlers + 1
         /\ handlers \in Seq(Handler) /\ Known = 1..Len(handlers)
         /\ Len(handlers) \in 0..MaxHandlers
         /\ Known \subseteq Index /\ Counted \subseteq Known
         /\ \A h \in Known : /\ handlers[h] \in Handler
                             /\ handlers[h].count \in 0..Wrap - 1
                             /\ handlers[h].calls \in 0..MaxCalls
         /\ Calls \in [Index -> 0..MaxCalls] /\ Calls \in [Index -> Nat]
         /\ SumFunction(Calls) = SumFunctionOnSet(Calls, 1..MaxHandlers)
         /\ SumFunction(Calls) \in Nat
<1>1. /\ MaxHandlers \in Nat /\ MaxCalls \in Nat /\ Wrap \in Nat \ {0}
      /\ Index = 1..MaxHandlers /\ Fetched = MaxHandlers + 1
  BY RouterAssumption DEF Index, Fetched
<1>2. /\ handlers \in Seq(Handler) /\ Known = 1..Len(handlers)
      /\ Len(handlers) \in 0..MaxHandlers
  BY <1>1 DEF TypeOK, Known
<1>3. Known \subseteq Index /\ Counted \subseteq Known
  BY <1>1, <1>2 DEF Counted
<1>4. \A h \in Known : handlers[h] \in Handler
  BY <1>2
<1>5. \A h \in Known : handlers[h].count \in 0..Wrap - 1 /\ handlers[h].calls \in 0..MaxCalls
  BY <1>4 DEF Handler
<1>6. Calls \in [Index -> 0..MaxCalls] /\ Calls \in [Index -> Nat]
  <2>1. \A h \in Index : (IF h \in Counted THEN handlers[h].calls ELSE 0) \in 0..MaxCalls
    BY <1>1, <1>3, <1>5
  <2>2. Calls \in [Index -> 0..MaxCalls] /\ 0..MaxCalls \subseteq Nat
    BY <1>1, <2>1 DEF Calls
  <2> QED BY <2>2
<1>7. /\ SumFunction(Calls) = SumFunctionOnSet(Calls, 1..MaxHandlers)
      /\ SumFunction(Calls) \in Nat
  <2>1. SumFunction(Calls) = SumFunctionOnSet(Calls, 1..MaxHandlers)
    BY <1>1, <1>6 DEF SumFunction
  <2>2. MaxHandlers \in 0..MaxHandlers
    BY <1>1
  <2>3. SumFunctionOnSet(Calls, 1..MaxHandlers) \in Nat
    BY <1>1, <1>6, <2>2, SumTo
  <2> QED BY <2>1, <2>3
<1> QED
  BY <1>1, <1>2, <1>3, <1>4, <1>5, <1>6, <1>7

LEMMA KeepsType == TypeOK /\ [Next]_vars => TypeOK'
<1> SUFFICES ASSUME TypeOK, [Next]_vars PROVE TypeOK'
  OBVIOUS
<1>0. /\ handlers \in Seq(Handler) /\ Len(handlers) \in 0..MaxHandlers
      /\ Known = 1..Len(handlers) /\ Known \subseteq Index
      /\ task \in [Threads -> Tasks]
      /\ stat.next \in 1..Fetched /\ Fetched \in Nat
      /\ stat.sum \in Nat
  <2>1. stat.sum \in 0..Wrap - 1 /\ stat.next \in 1..Fetched /\ task \in [Threads -> Tasks]
    BY DEF TypeOK
  <2> QED BY <2>1, StatTypes
<1>1. ASSUME NEW pattern \in Patterns, AddHandler(pattern) PROVE TypeOK'
  <2>1. PICK any \in Leftovers :
          handlers' = Append(handlers, [pattern |-> pattern, count |-> any, calls |-> 0])
    BY <1>1 DEF AddHandler
  <2>2. handlers' \in Seq(Handler) /\ Len(handlers') = Len(handlers) + 1
    <3>1. [pattern |-> pattern, count |-> any, calls |-> 0] \in Handler
      BY RouterAssumption DEF Handler
    <3> QED BY <1>0, <2>1, <3>1
  <2>3. Known \subseteq Known'
    BY <1>0, <2>2 DEF Known
  <2>4. task' \in [Threads -> Tasks']
    BY <1>0, <1>1, <2>3 DEF AddHandler, Tasks
  <2>5. Len(handlers') <= MaxHandlers
    BY <1>0, <1>1, <2>2, RouterAssumption DEF AddHandler
  <2> QED BY <1>1, <2>2, <2>4, <2>5 DEF AddHandler, TypeOK
<1>2. ASSUME NEW t \in Threads, NEW url \in Urls, HandleRequest(t, url) PROVE TypeOK'
  <2>1. url \in Paths
    BY RouterAssumption
  <2>2. task' \in [Threads -> Tasks]
    BY <1>0, <1>2, <2>1 DEF HandleRequest, Tasks
  <2> QED BY <1>2, <2>2 DEF HandleRequest, TypeOK, Tasks, Known
<1>3. ASSUME NEW t \in Threads, Call(t) PROVE TypeOK'
  <2> DEFINE h == task[t].to
  <2>1. h \in Known /\ h \in Index /\ task[t].url \in Paths
    BY <1>0, <1>3 DEF Call, Tasks
  <2>2. task' \in [Threads -> Tasks]
    BY <1>0, <1>3, <2>1 DEF Call, Tasks
  <2>3. lock' \in [Index -> BOOLEAN]
    BY <1>3 DEF Call, TypeOK
  <2>4. handlers[h] \in Handler
    BY <1>0, <2>1
  <2>5. /\ (handlers[h].count + 1) % Wrap \in 0..Wrap - 1
        /\ handlers[h].calls + 1 \in 0..MaxCalls
    BY <1>3, <2>4, CountWraps, RouterAssumption DEF Call, Handler
  <2>6. handlers' \in Seq(Handler) /\ Len(handlers') = Len(handlers)
    <3> DEFINE new == [handlers[h] EXCEPT !.count = (@ + 1) % Wrap, !.calls = @ + 1]
    <3>1. new \in Handler
      BY <2>4, <2>5 DEF Handler
    <3>2. handlers' = [handlers EXCEPT ![h] = new]
      BY <1>0, <1>3, <2>1, <2>4 DEF Call, Handler
    <3> QED BY <1>0, <2>1, <3>1, <3>2
  <2> QED BY <1>0, <1>3, <2>2, <2>3, <2>6 DEF Call, TypeOK, Tasks, Known
<1>4. ASSUME NEW t \in Threads, Leave(t) PROVE TypeOK'
  <2>1. Free \in Tasks /\ Gone \in Tasks
    BY LevelsAssumption DEF Free, Gone, Paths, Tasks
  <2>2. task' \in [Threads -> Tasks]
    BY <1>0, <1>4, <2>1 DEF Leave
  <2> QED BY <1>4, <2>2 DEF Leave, TypeOK, Tasks, Known
<1>5. ASSUME Ask PROVE TypeOK'
  <2>1. SumFunction(Calls) \in Nat /\ Counted \subseteq Index
    BY StatTypes
  <2>2. seen' \in [of : SUBSET Index, low : Nat, high : Nat,
                   lastOf : SUBSET Index, lastLow : Nat, lastHigh : Nat]
    BY <1>5, <2>1 DEF Ask, TypeOK
  <2>3. stat' \in [asked : Asked, next : 1..Fetched, sum : 0..Wrap - 1, last : 0..Wrap - 1]
    <3>1. 1 \in 1..Fetched /\ 0 \in 0..Wrap - 1
      BY <1>0, StatTypes
    <3> QED BY <1>5, <3>1 DEF Ask, TypeOK
  <2> QED BY <1>5, <2>2, <2>3 DEF Ask, TypeOK, Tasks, Known
<1>6. ASSUME Add PROVE TypeOK'
  <2> DEFINE h == stat.next
  <2>1. h + 1 \in 1..Fetched
    BY <1>0, <1>6 DEF Add
  <2>2. SumFunction(Calls) \in Nat
    BY StatTypes
  <2>3. seen' \in [of : SUBSET Index, low : Nat, high : Nat,
                   lastOf : SUBSET Index, lastLow : Nat, lastHigh : Nat]
    BY <1>6, <2>2 DEF Add, TypeOK
  <2>4. h \in Counted => (stat.sum + handlers[h].count) % Wrap \in 0..Wrap - 1
    <3> SUFFICES ASSUME h \in Counted
                 PROVE  (stat.sum + handlers[h].count) % Wrap \in 0..Wrap - 1
      OBVIOUS
    <3>1. handlers[h].count \in 0..Wrap - 1 /\ Wrap \in Nat
      BY StatTypes
    <3>2. stat.sum + handlers[h].count \in Nat
      BY <1>0, <3>1
    <3> QED BY <3>2, CountWraps
  <2>5. stat' \in [asked : Asked, next : 1..Fetched, sum : 0..Wrap - 1, last : 0..Wrap - 1]
    BY <1>6, <2>1, <2>4 DEF Add, TypeOK
  <2> QED BY <1>6, <2>3, <2>5 DEF Add, TypeOK, Tasks, Known
<1>7. CASE UNCHANGED vars
  BY <1>7 DEF vars, TypeOK, Tasks, Known
<1> QED BY <1>1, <1>2, <1>3, <1>4, <1>5, <1>6, <1>7 DEF Next

(* The list of handlers, the spinlocks, the threads and the statistics     *)
(* keep their types: a thread is only ever in a handler that exists.       *)
THEOREM TypeCorrect == Spec => []TypeOK
<1>1. Init => TypeOK
  BY StartsWell
<1>2. TypeOK /\ [Next]_vars => TypeOK'
  BY KeepsType
<1> QED BY <1>1, <1>2, PTL DEF Spec

(* At most one thread is in a handler, and its lock is taken exactly while *)
(* one is: scoped_lock in handler_data::call, also if the handler throws.  *)
THEOREM OneThreadPerHandler == Spec => []HandlersExclusive
<1>1. Init => TypeOK /\ HandlersExclusive
  BY StartsWell
<1>2. TypeOK /\ HandlersExclusive /\ [Next]_vars => (TypeOK /\ HandlersExclusive)'
  <2> SUFFICES ASSUME TypeOK, HandlersExclusive, [Next]_vars PROVE HandlersExclusive'
    BY KeepsType
  <2>0. /\ task \in [Threads -> Tasks] /\ lock \in [Index -> BOOLEAN]
        /\ \A u \in Threads : task[u].at \in {"spinning", "inside"} => task[u].to \in Index
    <3>1. Known \subseteq Index
      BY RouterAssumption DEF TypeOK, Known, Index
    <3> QED BY <3>1 DEF TypeOK, Tasks
  <2>1. ASSUME NEW pattern \in Patterns, AddHandler(pattern) PROVE HandlersExclusive'
    BY <2>1 DEF AddHandler, HandlersExclusive, Inside
  <2>2. ASSUME NEW t \in Threads, NEW url \in Urls, HandleRequest(t, url)
        PROVE  HandlersExclusive'
    <3>1. \A u \in Threads : task'[u].at = "inside" <=> task[u].at = "inside"
      BY <2>0, <2>2 DEF HandleRequest
    <3>2. \A u \in Threads : task[u].at = "inside" => task'[u] = task[u]
      BY <2>0, <2>2 DEF HandleRequest
    <3>3. lock' = lock /\ \A h \in Index : Inside(h)' = Inside(h)
      BY <2>2, <3>1, <3>2 DEF HandleRequest, Inside
    <3> QED BY <3>3 DEF HandlersExclusive
  <2>3. ASSUME NEW t \in Threads, Call(t) PROVE HandlersExclusive'
    <3>1. PICK h \in Index : h = task[t].to /\ ~lock[h]
      BY <2>0, <2>3 DEF Call
    <3>2. Inside(h) = {}
      BY <3>1 DEF HandlersExclusive
    <3>3. Inside(h)' = {t} /\ \A i \in Index \ {h} : Inside(i)' = Inside(i)
      BY <2>0, <2>3, <3>1, <3>2 DEF Call, Inside, Tasks
    <3>4. lock'[h] = TRUE /\ \A i \in Index \ {h} : lock'[i] = lock[i]
      BY <2>0, <2>3, <3>1 DEF Call
    <3>5. ASSUME NEW i \in Index
          PROVE  (lock[i] <=> Inside(i) # {})' /\ (\A u, v \in Inside(i) : u = v)'
      <4>1. CASE i = h  BY <3>3, <3>4, <4>1
      <4>2. CASE i # h  BY <3>3, <3>4, <4>2 DEF HandlersExclusive
      <4> QED BY <4>1, <4>2
    <3> QED BY <3>5 DEF HandlersExclusive
  <2>4. ASSUME NEW t \in Threads, Leave(t) PROVE HandlersExclusive'
    <3>1. PICK h \in Index : h = task[t].to /\ t \in Inside(h)
      BY <2>0, <2>4 DEF Leave, Inside
    <3>2. Inside(h) = {t}
      BY <3>1 DEF HandlersExclusive
    <3>3. Inside(h)' = {} /\ \A i \in Index \ {h} : Inside(i)' = Inside(i)
      <4>1. /\ task'[t].at # "inside"
            /\ \A u \in Threads \ {t} : task'[u] = task[u]
        BY <2>0, <2>4 DEF Leave, Free, Gone
      <4> QED BY <3>2, <4>1 DEF Inside
    <3>4. lock'[h] = FALSE /\ \A i \in Index \ {h} : lock'[i] = lock[i]
      BY <2>0, <2>4, <3>1 DEF Leave
    <3>5. ASSUME NEW i \in Index
          PROVE  (lock[i] <=> Inside(i) # {})' /\ (\A u, v \in Inside(i) : u = v)'
      <4>1. CASE i = h  BY <3>3, <3>4, <4>1
      <4>2. CASE i # h  BY <3>3, <3>4, <4>2 DEF HandlersExclusive
      <4> QED BY <4>1, <4>2
    <3> QED BY <3>5 DEF HandlersExclusive
  <2>5. CASE Ask \/ Add \/ UNCHANGED vars
    BY <2>5 DEF Ask, Add, vars, HandlersExclusive, Inside
  <2> QED BY <2>1, <2>2, <2>3, <2>4, <2>5 DEF Next
<1> QED BY <1>1, <1>2, PTL DEF Spec

(* A request is given to the first handler added whose pattern covers its  *)
(* url, and refused only if there is none: server<>::handle_request, for   *)
(* every list of patterns and every url.                                   *)
THEOREM FirstRuleIsServed == Spec => FirstRuleServes
<1> DEFINE Dispatched(t) ==
      LET url == task'[t].url  h == task'[t].to IN
      /\ h = 0 => \A i \in Known : ~Covers(handlers[i].pattern, url)
      /\ h # 0 => /\ Covers(handlers[h].pattern, url)
                  /\ \A i \in 1..h - 1 : ~Covers(handlers[i].pattern, url)
<1>1. TypeOK /\ [Next]_vars =>
        \A t \in Threads : task[t].at = "idle" /\ task'[t] # task[t] => Dispatched(t)
  <2> SUFFICES ASSUME TypeOK, [Next]_vars,
                      NEW t \in Threads, task[t].at = "idle", task'[t] # task[t]
               PROVE  Dispatched(t)
    OBVIOUS
  <2>0. /\ task \in [Threads -> Tasks]
        /\ handlers \in Seq(Handler) /\ Known = 1..Len(handlers) /\ Len(handlers) \in Nat
    BY DEF TypeOK, Known
  <2>1. PICK url \in Urls : HandleRequest(t, url)
    <3>1. ASSUME NEW u \in Threads, NEW url \in Urls, HandleRequest(u, url) PROVE u = t
      BY <2>0, <3>1 DEF HandleRequest
    <3>2. ASSUME NEW u \in Threads, Call(u) \/ Leave(u) PROVE FALSE
      BY <2>0, <3>2 DEF Call, Leave
    <3> QED BY <3>1, <3>2 DEF Next, AddHandler, Ask, Add, vars
  <2>2. \A i \in Known : Match(handlers[i].pattern, url) <=> Covers(handlers[i].pattern, url)
    <3>1. \A i \in Known : handlers[i].pattern \in Paths
      <4>1. \A i \in Known : handlers[i] \in Handler
        BY <2>0
      <4> QED BY <4>1, RouterAssumption DEF Handler
    <3> QED BY <3>1, MatchIsCovers, RouterAssumption
  <2>3. CASE \E h \in Known :
               /\ Match(handlers[h].pattern, url)
               /\ \A i \in 1..h - 1 : ~Match(handlers[i].pattern, url)
               /\ task' = [task EXCEPT ![t] = [at |-> "spinning", url |-> url, to |-> h]]
    <3>1. PICK h \in Known :
               /\ Match(handlers[h].pattern, url)
               /\ \A i \in 1..h - 1 : ~Match(handlers[i].pattern, url)
               /\ task' = [task EXCEPT ![t] = [at |-> "spinning", url |-> url, to |-> h]]
      BY <2>3
    <3>2. task'[t].url = url /\ task'[t].to = h /\ h # 0
      BY <2>0, <3>1
    <3>3. \A i \in 1..h - 1 : i \in Known
      BY <2>0
    <3> QED BY <2>2, <3>1, <3>2, <3>3
  <2>4. CASE /\ \A i \in Known : ~Match(handlers[i].pattern, url)
             /\ task' = [task EXCEPT ![t] = [at |-> "idle", url |-> url, to |-> 0]]
    <3>1. task'[t].url = url /\ task'[t].to = 0
      BY <2>0, <2>4
    <3> QED BY <2>2, <2>4, <3>1
  <2> QED BY <2>1, <2>3, <2>4 DEF HandleRequest
<1>2. TypeOK /\ [Next]_vars =>
        [\A t \in Threads : task[t].at = "idle" /\ task'[t] # task[t] => Dispatched(t)]_vars
  BY <1>1
<1> QED BY <1>2, TypeCorrect, PTL DEF Spec, FirstRuleServes

---------------------------------------------------------------------------
(* The statistics *)

(* The value a counter started with, and those of some handlers. *)
Start(h) == (handlers[h].count - handlers[h].calls) % Wrap
Starts(of) == [h \in Index |-> IF h \in of THEN Start(h) ELSE 0]

(* A sum of counters up to the k-th is, in the width of a counter, that of *)
(* their start values and c calls.                                         *)
IsCount(sum, of, k, c) ==
  \E q \in Nat : sum = SumFunctionOnSet(Starts(of), 1..k) + c - q * Wrap

(* Wherever get_no_of_requests is in the list, it has counted at most the  *)
(* calls there are in this part of it; with those there are in the rest,   *)
(* these are at least the calls there were when it began.                  *)
Result(c) ==
  /\ c <= SumFunctionOnSet(Calls, 1..stat.next - 1)
  /\ seen.low <= c + (SumFunctionOnSet(Calls, 1..MaxHandlers)
                        - SumFunctionOnSet(Calls, 1..stat.next - 1))
  /\ stat.next = Fetched => c <= seen.high
  /\ IsCount(stat.sum, seen.of, stat.next - 1, c)

LastResult(c) ==
  /\ seen.lastLow <= c /\ c <= seen.lastHigh
  /\ IsCount(stat.last, seen.lastOf, MaxHandlers, c)

(* The one count is over when the other begins, and so its calls are among *)
(* those the other must find.                                              *)
StatInv ==
  /\ seen.of \subseteq Known /\ seen.lastOf \subseteq Known
  /\ stat.next # Fetched => seen.of = Counted
  /\ seen.lastHigh <= seen.low /\ seen.high <= SumFunction(Calls)
  /\ \E c \in Nat : Result(c)
  /\ \E c \in Nat : LastResult(c)

(* A number stays in the width of a counter, or goes round once ... *)
LEMMA WrapsOnce ==
  ASSUME NEW n \in 0..2 * Wrap - 1
  PROVE  n % Wrap \in 0..Wrap - 1 /\ n % Wrap \in {n, n - Wrap}
<1>1. Wrap \in Nat \ {0} /\ n \in Int
  BY RouterAssumption
<1>2. n % Wrap \in 0..Wrap - 1
  BY <1>1
<1>3. CASE n < Wrap
  <2>1. n \in 0..Wrap - 1
    BY <1>1, <1>3
  <2>2. n % Wrap = n
    BY <1>1, <2>1
  <2> QED BY <1>2, <2>2
<1>4. CASE ~(n < Wrap)
  <2> DEFINE r == n - Wrap
  <2>1. r \in 0..Wrap - 1 /\ r + Wrap = n
    BY <1>1, <1>4
  <2> HIDE DEF r
  <2>2. (r + Wrap) % Wrap = r
    BY <1>1, <2>1
  <2>3. n % Wrap = n - Wrap
    BY <1>1, <2>1, <2>2
  <2> QED BY <1>2, <2>3
<1> QED BY <1>3, <1>4

(* ... and back once, if it is negative. *)
LEMMA WrapsBack ==
  ASSUME NEW n \in -Wrap..Wrap - 1
  PROVE  n % Wrap \in 0..Wrap - 1 /\ n % Wrap \in {n, n + Wrap}
<1>1. Wrap \in Nat \ {0} /\ n \in Int
  BY RouterAssumption
<1>2. n % Wrap \in 0..Wrap - 1
  BY <1>1
<1>3. CASE n >= 0
  <2>1. n \in 0..Wrap - 1
    BY <1>1, <1>3
  <2>2. n % Wrap = n
    BY <1>1, <2>1
  <2> QED BY <1>2, <2>2
<1>4. CASE ~(n >= 0)
  <2> DEFINE r == n + Wrap
  <2>1. r \in 0..Wrap - 1 /\ r - Wrap = n
    BY <1>1, <1>4
  <2> HIDE DEF r
  <2>2. (r - Wrap) % Wrap = r
    BY <1>1, <2>1
  <2>3. n % Wrap = n + Wrap
    BY <1>1, <2>1, <2>2
  <2> QED BY <1>2, <2>3
<1> QED BY <1>3, <1>4

(* All calls together stay below the width of a counter. *)
LEMMA FewCalls ==
  ASSUME NEW now \in [Index -> 0..MaxCalls], NEW k \in 0..MaxHandlers
  PROVE  SumFunctionOnSet(now, 1..k) \in 0..Wrap - 1
<1>1. /\ MaxHandlers \in Nat /\ MaxCalls \in Nat /\ Wrap \in Nat \ {0}
      /\ MaxHandlers * MaxCalls < Wrap /\ Index = 1..MaxHandlers
  BY RouterAssumption DEF Index
<1>2. now \in [Index -> Nat]
  BY <1>1
<1>3. SumFunctionOnSet(now, 1..k) \in Nat
  BY <1>1, <1>2, SumTo
<1>4. SumFunctionOnSet(now, 1..k) <= k * MaxCalls
  BY <1>1, SumBounded
<1>5. k * MaxCalls \in Nat /\ k * MaxCalls <= MaxHandlers * MaxCalls /\ MaxHandlers * MaxCalls \in Nat
  BY ONLY <1>1, k \in 0..MaxHandlers
<1>6. \A a, b, d, w \in Nat : a <= b /\ b <= d /\ d < w => a \in 0..w - 1
  OBVIOUS
<1> QED
  BY <1>1, <1>3, <1>4, <1>5, <1>6

(* Counting up keeps the difference of a counter and its calls. *)
LEMMA CountsOn ==
  ASSUME NEW x \in 0..Wrap - 1, NEW y \in 0..Wrap - 1, y + 1 <= Wrap - 1
  PROVE  (((x + 1) % Wrap) - (y + 1)) % Wrap = (x - y) % Wrap
<1>1. Wrap \in Nat \ {0}
  BY RouterAssumption
<1>2. CASE x < Wrap - 1
  <2> DEFINE p == x + 1
  <2>1. p \in 0..Wrap - 1
    BY <1>1, <1>2
  <2> HIDE DEF p
  <2>2. p % Wrap = p
    BY <1>1, <2>1
  <2>3. (p % Wrap) - (y + 1) = x - y
    BY <1>1, <2>2 DEF p
  <2> QED BY <2>3 DEF p
<1>3. CASE x = Wrap - 1
  <2> DEFINE p == x + 1
             m == 0 - (y + 1)
             k == x - y
  <2>1. p \in 0..2 * Wrap - 1 /\ p = Wrap /\ m \in -Wrap..-1 /\ k = m + Wrap /\ k \in 0..Wrap - 1
    BY <1>1, <1>3
  <2>2. m \in -Wrap..Wrap - 1
    BY <1>1, <2>1
  <2> HIDE DEF p, m, k
  <2>3. p % Wrap = 0
    BY <1>1, <2>1, WrapsOnce
  <2>4. m % Wrap \in 0..Wrap - 1 /\ m % Wrap \in {m, m + Wrap}
    BY <2>2, WrapsBack
  <2>5. m % Wrap = k
    BY <1>1, <2>1, <2>4
  <2>6. k % Wrap = k
    BY <1>1, <2>1
  <2> QED BY <2>3, <2>5, <2>6 DEF p, m, k
<1> QED
  BY <1>1, <1>2, <1>3

(* Two counters in 64 bits that differ by n, however often each has gone   *)
(* round.                                                                  *)
LEMMA DifferenceWraps ==
  ASSUME NEW n \in 0..Wrap - 1, NEW d \in -(Wrap - 1)..Wrap - 1,
         NEW z \in Int, d = n - z * Wrap
  PROVE  d % Wrap = n
<1>1. Wrap \in Nat \ {0}
  BY RouterAssumption
<1>2. z \in {0, 1}
  <2>1. ASSUME z >= 2 PROVE FALSE
    <3> DEFINE k == z - 2
    <3>1. k \in Nat /\ z = k + 2
      BY <2>1
    <3> HIDE DEF k
    <3>2. k * Wrap \in Nat
      BY <1>1, <3>1
    <3>3. (k + 2) * Wrap = k * Wrap + Wrap + Wrap
      BY <1>1, <3>1
    <3>4. d = n - (k * Wrap + Wrap + Wrap)
      BY <3>1, <3>3
    <3> QED BY <1>1, <3>2, <3>4
  <2>2. ASSUME z <= -1 PROVE FALSE
    <3> DEFINE k == -1 - z
    <3>1. k \in Nat /\ z = -(k + 1)
      BY <2>2
    <3> HIDE DEF k
    <3>2. k * Wrap \in Nat
      BY <1>1, <3>1
    <3>3. (-(k + 1)) * Wrap = -(k * Wrap) - Wrap
      BY <1>1, <3>1
    <3>4. d = n - (-(k * Wrap) - Wrap)
      BY <3>1, <3>3
    <3> QED BY <1>1, <3>2, <3>4
  <2> QED BY <2>1, <2>2
<1>3. d = n \/ d = n - Wrap
  BY <1>1, <1>2
<1>4. d \in -Wrap..Wrap - 1
  BY <1>1
<1>5. d % Wrap \in 0..Wrap - 1 /\ d % Wrap \in {d, d + Wrap}
  BY <1>4, WrapsBack
<1> QED
  BY <1>1, <1>3, <1>5

(* A counter is its start value and its calls, or has gone round once. *)
LEMMA CountOfStart ==
  ASSUME TypeOK, NEW h \in Known
  PROVE  /\ MaxCalls < Wrap /\ Start(h) \in 0..Wrap - 1
         /\ handlers[h].count \in {Start(h) + handlers[h].calls,
                                   Start(h) + handlers[h].calls - Wrap}
<1> DEFINE d == handlers[h]
<1>1. /\ MaxCalls \in Nat /\ Wrap \in Nat \ {0}
      /\ d.count \in 0..Wrap - 1 /\ d.calls \in 0..MaxCalls
  BY StatTypes
<1>2. MaxCalls < Wrap
  <2>1. h \in 1..MaxHandlers /\ MaxHandlers \in Nat
    BY StatTypes
  <2>2. MaxHandlers * MaxCalls < Wrap
    BY RouterAssumption
  <2>3. 1 * MaxCalls <= MaxHandlers * MaxCalls /\ 1 * MaxCalls = MaxCalls
        /\ MaxHandlers * MaxCalls \in Nat
    BY ONLY <1>1, <2>1
  <2>4. \A a, b, w \in Nat : a <= b /\ b < w => a < w
    OBVIOUS
  <2> QED BY <1>1, <2>2, <2>3, <2>4
<1>3. Start(h) = (d.count - d.calls) % Wrap
  BY DEF Start
<1> HIDE DEF d
<1> DEFINE n == d.count - d.calls
<1>4. n \in -Wrap..Wrap - 1
  BY <1>1, <1>2
<1> HIDE DEF n
<1>5. n % Wrap \in 0..Wrap - 1 /\ n % Wrap \in {n, n + Wrap}
  BY <1>4, WrapsBack
<1>6. d.count \in {(n % Wrap) + d.calls, (n % Wrap) + d.calls - Wrap}
  BY <1>1, <1>5 DEF n
<1> QED BY <1>2, <1>3, <1>5, <1>6 DEF n, d

LEMMA StartsType ==
  ASSUME TypeOK, NEW of \in SUBSET Known
  PROVE  Starts(of) \in [Index -> Nat]
<1>1. \A h \in Known : Start(h) \in 0..Wrap - 1 /\ 0..Wrap - 1 \subseteq Nat
  BY CountOfStart, StatTypes
<1> QED BY <1>1 DEF Starts

(* Further calls, and handlers that are added between two counts, leave a  *)
(* result what it is.                                                      *)
LEMMA StatStays ==
  ASSUME TypeOK, StatInv, UNCHANGED <<stat, seen>>,
         Known \subseteq Known', stat.next # Fetched => Counted' = Counted,
         \A h \in Known : Start(h)' = Start(h),
         Calls' \in [Index -> Nat], \A h \in Index : Calls[h] <= Calls'[h]
  PROVE  StatInv'
<1> DEFINE now == Calls
           later == Calls'
           k == stat.next - 1
           N(i) == SumFunctionOnSet(now, 1..i)
           L(i) == SumFunctionOnSet(later, 1..i)
<1>1. /\ MaxHandlers \in Nat /\ Index = 1..MaxHandlers /\ Fetched = MaxHandlers + 1
      /\ now \in [Index -> Nat] /\ SumFunction(now) = N(MaxHandlers)
  BY StatTypes
<1>2. k \in 0..MaxHandlers /\ MaxHandlers \in 0..MaxHandlers
  <2>1. stat.next \in 1..Fetched
    BY DEF TypeOK
  <2> QED BY <1>1, <2>1
<1>3. later \in [Index -> Nat] /\ \A i \in Index : now[i] <= later[i]
  OBVIOUS
<1>4. seen.low \in Nat /\ seen.high \in Nat /\ UNCHANGED <<stat, seen>>
  BY DEF TypeOK
<1>5. PICK c \in Nat : Result(c)
  BY DEF StatInv
<1>6. PICK b \in Nat : LastResult(b)
  BY DEF StatInv
<1>7. /\ c <= N(k) /\ seen.low <= c + (N(MaxHandlers) - N(k))
      /\ stat.next = Fetched => c <= seen.high
      /\ seen.lastHigh <= seen.low /\ seen.high <= N(MaxHandlers)
  BY <1>1, <1>5 DEF StatInv, Result
<1>8. /\ Starts(seen.of)' = Starts(seen.of) /\ Starts(seen.lastOf)' = Starts(seen.lastOf)
  <2>1. seen' = seen /\ seen.of \subseteq Known /\ seen.lastOf \subseteq Known
    BY <1>4 DEF StatInv
  <2>2. \A h \in Known : Start(h)' = Start(h)
    OBVIOUS
  <2> QED BY <2>1, <2>2 DEF Starts
<1>10. SumFunction(later) = L(MaxHandlers)
  BY <1>1, <1>3 DEF SumFunction
<1> HIDE DEF now, later
<1>11. /\ N(k) \in Nat /\ N(MaxHandlers) \in Nat /\ L(k) \in Nat /\ L(MaxHandlers) \in Nat
  BY <1>1, <1>2, <1>3, SumTo
<1>12. N(k) <= L(k) /\ N(MaxHandlers) <= L(MaxHandlers)
  BY <1>1, <1>2, <1>3, SumGrows
<1>13. N(MaxHandlers) - N(k) <= L(MaxHandlers) - L(k)
  BY <1>1, <1>2, <1>3, RestGrows
<1> HIDE DEF N, L
<1>14. /\ c <= L(k) /\ seen.low <= c + (L(MaxHandlers) - L(k)) /\ seen.high <= L(MaxHandlers)
  BY <1>4, <1>7, <1>11, <1>12, <1>13
<1>15. Result(c)'
  <2>1. IsCount(stat.sum, seen.of, stat.next - 1, c)'
    <3>1. IsCount(stat.sum, seen.of, stat.next - 1, c)
      BY <1>5 DEF Result
    <3> QED BY <1>4, <1>8, <3>1 DEF IsCount
  <2> QED BY <1>4, <1>7, <1>14, <2>1 DEF Result, L, later, k
<1>16. LastResult(b)'
  <2>1. IsCount(stat.last, seen.lastOf, MaxHandlers, b)'
    <3>1. IsCount(stat.last, seen.lastOf, MaxHandlers, b)
      BY <1>6 DEF LastResult
    <3> QED BY <1>4, <1>8, <3>1 DEF IsCount
  <2> QED BY <1>4, <1>6, <2>1 DEF LastResult
<1>17. /\ (seen.of \subseteq Known)' /\ (seen.lastOf \subseteq Known)'
       /\ (stat.next # Fetched => seen.of = Counted)'
       /\ (seen.lastHigh <= seen.low)' /\ (seen.high <= SumFunction(Calls))'
  BY <1>4, <1>7, <1>10, <1>14 DEF StatInv, later
<1> QED BY <1>15, <1>16, <1>17 DEF StatInv

(* get_no_of_requests adds the counter of the next handler, in 64 bits.    *)
LEMMA AddStep == TypeOK /\ StatInv /\ Add => StatInv'
<1> SUFFICES ASSUME TypeOK, StatInv, Add PROVE StatInv'
  OBVIOUS
<1> DEFINE n == stat.next
           now == Calls
           starts == Starts(seen.of)
           N(i) == SumFunctionOnSet(now, 1..i)
           S(i) == SumFunctionOnSet(starts, 1..i)
<1>1. /\ MaxHandlers \in Nat /\ Wrap \in Nat \ {0}
      /\ Index = 1..MaxHandlers /\ Fetched = MaxHandlers + 1
      /\ now \in [Index -> Nat] /\ SumFunction(now) = N(MaxHandlers)
      /\ Counted \subseteq Known
  BY StatTypes
<1>2. /\ n \in 1..MaxHandlers /\ MaxHandlers \in 0..MaxHandlers /\ n \in 0..MaxHandlers
      /\ stat.sum \in 0..Wrap - 1 /\ seen.low \in Nat
  <2>1. n \in 1..Fetched /\ n # Fetched /\ stat.sum \in 0..Wrap - 1 /\ seen.low \in Nat
    BY DEF Add, TypeOK
  <2> QED BY <1>1, <2>1
<1>3. /\ handlers' = handlers /\ stat'.asked = stat.asked
      /\ stat'.next = n + 1 /\ stat'.last = stat.last
      /\ stat'.sum = IF n \in Counted THEN (stat.sum + handlers[n].count) % Wrap ELSE stat.sum
      /\ seen'.of = seen.of /\ seen'.low = seen.low /\ seen'.high = SumFunction(now)
      /\ seen'.lastOf = seen.lastOf /\ seen'.lastLow = seen.lastLow
      /\ seen'.lastHigh = seen.lastHigh
  BY DEF Add, TypeOK
<1>4. seen.of = Counted /\ seen.of \subseteq Known /\ seen.lastOf \subseteq Known
  BY <1>1, <1>2 DEF StatInv
<1>5. /\ Known' = Known /\ Counted' = Counted /\ Calls' = now
      /\ \A h \in Index : Start(h)' = Start(h)
  BY <1>3 DEF Known, Counted, Calls, Start
<1>6. Starts(seen.of)' = starts /\ Starts(seen.lastOf)' = Starts(seen.lastOf)
  BY <1>3, <1>5 DEF Starts
<1>7. starts \in [Index -> Nat]
  BY <1>4, StartsType
<1>8. PICK c \in Nat : Result(c)
  BY DEF StatInv
<1>9. PICK q \in Nat : stat.sum = S(n - 1) + c - q * Wrap
  BY <1>8 DEF Result, IsCount
<1>10. c <= N(n - 1) /\ seen.low <= c + (N(MaxHandlers) - N(n - 1))
  BY <1>8 DEF Result
<1>11. now[n] = (IF n \in Counted THEN handlers[n].calls ELSE 0)
       /\ starts[n] = (IF n \in Counted THEN Start(n) ELSE 0)
  BY <1>1, <1>2, <1>4 DEF Calls, Starts
<1> HIDE DEF now, starts
<1>12. /\ N(n) = now[n] + N(n - 1) /\ now[n] \in Nat /\ N(n - 1) \in Nat
       /\ S(n) = starts[n] + S(n - 1) /\ starts[n] \in Nat /\ S(n - 1) \in Nat
  <2>1. /\ MaxHandlers \in Nat /\ Index = 1..MaxHandlers /\ n \in 1..MaxHandlers
        /\ now \in [Index -> Nat] /\ starts \in [Index -> Nat]
    BY <1>1, <1>2, <1>7
  <2> HIDE DEF n
  <2>2. /\ SumFunctionOnSet(now, 1..n) = now[n] + SumFunctionOnSet(now, 1..n - 1)
        /\ now[n] \in Nat /\ SumFunctionOnSet(now, 1..n - 1) \in Nat
    BY ONLY <2>1, SumNext
  <2>3. /\ SumFunctionOnSet(starts, 1..n) = starts[n] + SumFunctionOnSet(starts, 1..n - 1)
        /\ starts[n] \in Nat /\ SumFunctionOnSet(starts, 1..n - 1) \in Nat
    BY ONLY <2>1, SumNext
  <2> QED BY <2>2, <2>3
<1>14. N(MaxHandlers) \in Nat /\ N(n) \in Nat
  BY <1>1, <1>2, SumTo
<1> HIDE DEF N, S
<1> DEFINE d == c + now[n]
<1>15. /\ d \in Nat /\ d <= N(n) /\ seen.low <= d + (N(MaxHandlers) - N(n))
  BY <1>2, <1>10, <1>12, <1>14
<1>16. \E r \in Nat : stat'.sum = S(n) + d - r * Wrap
  <2>1. CASE n \in Counted
    <3> DEFINE count == handlers[n].count
               sum == stat.sum
    <3>1. /\ count \in 0..Wrap - 1 /\ count \in {starts[n] + now[n], starts[n] + now[n] - Wrap}
      <4>1. n \in Known
        BY <1>1, <2>1
      <4> QED BY <1>11, <2>1, <4>1, CountOfStart, StatTypes
    <3>2. stat'.sum = (sum + count) % Wrap
      BY <1>3, <2>1
    <3> HIDE DEF count
    <3> DEFINE p == sum + count
    <3>3. p \in 0..2 * Wrap - 1
      BY <1>1, <1>2, <3>1
    <3>4. p % Wrap \in {p, p - Wrap}
      BY <3>3, WrapsOnce
    <3>5. p = S(n) + d - q * Wrap \/ p = S(n) + d - q * Wrap - Wrap
      <4>1. sum = S(n - 1) + c - q * Wrap
        BY <1>9
      <4> DEFINE w == q * Wrap
      <4>2. w \in Nat
        BY <1>1
      <4> HIDE DEF sum, w
      <4>3. sum = S(n - 1) + c - w
        BY <4>1 DEF w
      <4>4. \/ sum + count = S(n) + (c + now[n]) - w
            \/ sum + count = S(n) + (c + now[n]) - w - Wrap
        <5> DEFINE x == now[n]
                   y == starts[n]
                   u == S(n - 1)
        <5>1. /\ S(n) = y + u /\ x \in Nat /\ y \in Nat /\ u \in Nat
              /\ sum = u + c - w /\ (count = y + x \/ count = y + x - Wrap)
          BY <1>12, <3>1, <4>3
        <5> HIDE DEF x, y, u
        <5>2. Wrap \in Nat /\ c \in Nat
          BY <1>1
        <5>3. \/ sum + count = S(n) + (c + x) - w
              \/ sum + count = S(n) + (c + x) - w - Wrap
          BY ONLY <4>2, <5>1, <5>2
        <5> QED BY <5>3 DEF x
      <4> QED BY <4>4 DEF w
    <3> HIDE DEF p, d
    <3>6. \E r \in {q, q + 1, q + 2} : p % Wrap = S(n) + d - r * Wrap
      <4>1. /\ (q + 1) * Wrap = q * Wrap + Wrap /\ (q + 2) * Wrap = q * Wrap + Wrap + Wrap
            /\ q * Wrap \in Nat
        BY <1>1
      <4>2. S(n) \in Nat
        BY <1>12
      <4>3. p \in Int /\ d \in Nat /\ Wrap \in Nat
        BY <1>1, <1>15, <3>3
      <4> DEFINE v == S(n) + d
                 w == q * Wrap
                 w1 == (q + 1) * Wrap
                 w2 == (q + 2) * Wrap
                 o == p % Wrap
      <4>4. v \in Nat /\ w \in Nat /\ w1 = w + Wrap /\ w2 = w + Wrap + Wrap
        BY <4>1, <4>2, <4>3
      <4>5. p = v - w \/ p = v - w - Wrap
        BY <1>1, <3>5, <4>1, <4>2, <4>3
      <4>6. o = p \/ o = p - Wrap
        BY <3>4
      <4> HIDE DEF v, w, w1, w2, o
      <4>7. o = v - w \/ o = v - w1 \/ o = v - w2
        BY ONLY <4>3, <4>4, <4>5, <4>6
      <4>8. ASSUME NEW r \in {q, q + 1, q + 2}, o = v - r * Wrap
            PROVE  p % Wrap = S(n) + d - r * Wrap
        <5>1. r * Wrap \in Nat
          BY <1>1
        <5> QED BY <4>2, <4>3, <4>8, <5>1 DEF o, v
      <4>9. \E r \in {q, q + 1, q + 2} : o = v - r * Wrap
        BY <4>7 DEF w, w1, w2
      <4> QED BY <4>8, <4>9
    <3>7. \A r \in {q, q + 1, q + 2} : r \in Nat
      OBVIOUS
    <3> QED BY <3>2, <3>6, <3>7 DEF p
  <2>2. CASE n \notin Counted
    <3>1. now[n] = 0 /\ starts[n] = 0 /\ stat'.sum = stat.sum
      BY <1>3, <1>11, <2>2
    <3>2. d = c /\ S(n) = S(n - 1)
      BY <1>12, <3>1
    <3> QED BY <1>9, <3>1, <3>2
  <2> QED BY <2>1, <2>2
<1> HIDE DEF d
<1>17. PICK e \in Nat : /\ e <= N(n) /\ seen.low <= e + (N(MaxHandlers) - N(n))
                        /\ \E r \in Nat : stat'.sum = S(n) + e - r * Wrap
  BY <1>15, <1>16
<1>18. Result(e)'
  <2>1. stat'.next - 1 = n
    BY <1>2, <1>3
  <2>2. SumFunctionOnSet(Calls', 1..stat'.next - 1) = N(n)
        /\ SumFunctionOnSet(Calls', 1..MaxHandlers) = N(MaxHandlers)
    BY <1>5, <2>1 DEF N
  <2>3. SumFunctionOnSet(Starts(seen.of)', 1..stat'.next - 1) = S(n)
    BY <1>6, <2>1 DEF S
  <2>4. stat'.next = Fetched => e <= seen'.high
    <3> SUFFICES ASSUME stat'.next = Fetched PROVE e <= seen'.high
      OBVIOUS
    <3>1. n = MaxHandlers /\ seen'.high = N(MaxHandlers)
      BY <1>1, <1>2, <1>3
    <3> QED BY <1>17, <3>1
  <2>5. IsCount(stat.sum, seen.of, stat.next - 1, e)'
    BY <1>17, <2>3 DEF IsCount
  <2> QED BY <1>3, <1>17, <2>2, <2>4, <2>5 DEF Result
<1>19. PICK b \in Nat : LastResult(b)
  BY DEF StatInv
<1>20. LastResult(b)'
  <2>1. IsCount(stat.last, seen.lastOf, MaxHandlers, b)'
    BY <1>3, <1>6, <1>19 DEF LastResult, IsCount
  <2> QED BY <1>3, <1>19, <2>1 DEF LastResult
<1>21. /\ (seen.of \subseteq Known)' /\ (seen.lastOf \subseteq Known)'
       /\ (stat.next # Fetched => seen.of = Counted)'
       /\ (seen.lastHigh <= seen.low)' /\ (seen.high <= SumFunction(Calls))'
  <2>1. seen'.high <= SumFunction(Calls')
    BY <1>1, <1>3, <1>5, <1>14
  <2>2. seen.lastHigh <= seen.low
    BY DEF StatInv
  <2> QED BY <1>3, <1>4, <1>5, <2>1, <2>2
<1> QED
  BY <1>18, <1>19, <1>20, <1>21 DEF StatInv

(* print_stat keeps a result and asks for the next. *)
LEMMA AskStep == TypeOK /\ StatInv /\ Ask => StatInv'
<1> SUFFICES ASSUME TypeOK, StatInv, Ask PROVE StatInv'
  OBVIOUS
<1> DEFINE now == Calls
           N(i) == SumFunctionOnSet(now, 1..i)
<1>1. /\ MaxHandlers \in Nat /\ Index = 1..MaxHandlers /\ Fetched = MaxHandlers + 1
      /\ now \in [Index -> Nat] /\ SumFunction(now) = N(MaxHandlers)
      /\ SumFunction(now) \in Nat /\ Counted \in SUBSET Known
  BY StatTypes
<1>2. /\ handlers' = handlers /\ stat'.asked = stat.asked
      /\ stat.next = Fetched /\ stat'.next = 1 /\ stat'.sum = 0 /\ stat'.last = stat.sum
      /\ seen'.of = Counted /\ seen'.low = SumFunction(now) /\ seen'.high = 0
      /\ seen'.lastOf = seen.of /\ seen'.lastLow = seen.low /\ seen'.lastHigh = seen.high
  BY DEF Ask, TypeOK
<1>3. /\ Known' = Known /\ Counted' = Counted /\ Calls' = now
      /\ \A h \in Index : Start(h)' = Start(h)
  BY <1>2 DEF Known, Counted, Calls, Start
<1>4. Starts(seen.of)' = Starts(Counted) /\ Starts(seen.lastOf)' = Starts(seen.of)
  BY <1>2, <1>3 DEF Starts
<1>5. PICK c \in Nat : Result(c)
  BY DEF StatInv
<1>6. stat.next - 1 = MaxHandlers /\ stat'.next - 1 = 0 /\ seen.low \in Nat /\ seen.high \in Nat
  BY <1>1, <1>2 DEF TypeOK
<1>7. c <= seen.high /\ seen.low <= c
  <2>1. seen.low <= c + (N(MaxHandlers) - N(MaxHandlers)) /\ c <= seen.high
    BY <1>2, <1>5, <1>6 DEF Result
  <2>2. N(MaxHandlers) \in Nat
    BY <1>1
  <2> HIDE DEF N
  <2> QED BY <1>6, <2>1, <2>2
<1>8. LastResult(c)'
  <2>1. IsCount(stat.sum, seen.of, MaxHandlers, c)
    BY <1>5, <1>6 DEF Result
  <2>2. IsCount(stat.last, seen.lastOf, MaxHandlers, c)'
    BY <1>2, <1>4, <2>1 DEF IsCount
  <2> QED BY <1>2, <1>7, <2>2 DEF LastResult
<1>9. Result(0)'
  <2> DEFINE starts == Starts(Counted)
  <2>1. starts \in [Index -> Nat]
    BY <1>1, StartsType
  <2> HIDE DEF starts, now
  <2>2. SumFunctionOnSet(now, 1..0) = 0 /\ SumFunctionOnSet(starts, 1..0) = 0
    BY <1>1, <2>1, SumTo
  <2>3. /\ SumFunctionOnSet(Calls', 1..stat'.next - 1) = 0
        /\ SumFunctionOnSet(Starts(seen.of)', 1..stat'.next - 1) = 0
        /\ SumFunctionOnSet(Calls', 1..MaxHandlers) = N(MaxHandlers)
    BY <1>3, <1>4, <1>6, <2>2 DEF starts, now
  <2>4. 0 = 0 + 0 - 0 * Wrap /\ 0 \in Nat
    BY StatTypes
  <2>5. IsCount(stat.sum, seen.of, stat.next - 1, 0)'
    BY <1>2, <2>3, <2>4 DEF IsCount
  <2>6. seen'.low <= 0 + (N(MaxHandlers) - 0) /\ 0 <= seen'.high
    BY <1>1, <1>2
  <2> QED BY <2>3, <2>5, <2>6 DEF Result
<1>10. /\ (seen.of \subseteq Known)' /\ (seen.lastOf \subseteq Known)'
       /\ (stat.next # Fetched => seen.of = Counted)'
       /\ (seen.lastHigh <= seen.low)' /\ (seen.high <= SumFunction(Calls))'
  <2>1. seen.of \subseteq Known /\ seen.high <= SumFunction(now)
    BY DEF StatInv
  <2> QED BY <1>1, <1>2, <1>3, <2>1
<1>11. 0 \in Nat
  OBVIOUS
<1> QED
  BY <1>8, <1>9, <1>10, <1>11 DEF StatInv

(* What the other threads do leaves both results what they are: a call     *)
(* counts up a counter and with it the calls, and a new handler has none.  *)
LEMMA StatStep == TypeOK /\ TypeOK' /\ StatInv /\ [Next]_vars => StatInv'
<1> SUFFICES ASSUME TypeOK, TypeOK', StatInv, [Next]_vars PROVE StatInv'
  OBVIOUS
<1> DEFINE now == Calls
           later == Calls'
<1>1. /\ now \in [Index -> Nat] /\ Index = 1..MaxHandlers /\ Known \subseteq Index
      /\ handlers \in Seq(Handler) /\ Known = 1..Len(handlers)
      /\ Len(handlers) \in 0..MaxHandlers /\ MaxHandlers \in Nat
      /\ \A h \in Known : handlers[h] \in Handler /\ handlers[h].calls \in 0..MaxCalls
      /\ MaxCalls \in Nat /\ Wrap \in Nat \ {0} /\ Counted \subseteq Known
  BY StatTypes
<1>2. ASSUME NEW pattern \in Patterns, AddHandler(pattern) PROVE StatInv'
  <2>1. PICK any \in Leftovers :
          handlers' = Append(handlers, [pattern |-> pattern, count |-> any, calls |-> 0])
    BY <1>2 DEF AddHandler
  <2> DEFINE new == [pattern |-> pattern, count |-> any, calls |-> 0]
             n == Len(handlers) + 1
  <2>2. /\ Known' = Known \union {n} /\ n \notin Known /\ handlers'[n] = new
        /\ \A h \in Known : handlers'[h] = handlers[h]
    <3>1. new \in Handler
      BY RouterAssumption DEF Handler
    <3>2. /\ Known' = 1..n /\ handlers'[n] = new
          /\ \A h \in Known : handlers'[h] = handlers[h]
      BY <1>1, <2>1, <3>1 DEF Known
    <3> QED BY <1>1, <3>2
  <2>3. UNCHANGED <<stat, seen>> /\ stat.next = Fetched
    BY <1>2 DEF AddHandler
  <2>4. later = now
    <3>1. new.calls = 0 /\ n \notin Counted
      BY <1>1, <2>2
    <3>2. \A h \in Known : h \in Counted' <=> h \in Counted
      BY <2>2, <2>3 DEF Counted
    <3>3. \A h \in Counted' : h \in Known \/ h = n
      BY <2>2 DEF Counted
    <3>4. \A h \in Index : (IF h \in Counted' THEN handlers'[h].calls ELSE 0)
                             = (IF h \in Counted THEN handlers[h].calls ELSE 0)
      BY <1>1, <2>2, <3>1, <3>2, <3>3
    <3> QED BY <3>4 DEF Calls
  <2>5. \A h \in Index : now[h] <= now[h]
    BY <1>1
  <2>6. \A h \in Known : Start(h)' = Start(h)
    BY <2>2 DEF Start
  <2> QED BY <1>1, <2>2, <2>3, <2>4, <2>5, <2>6, StatStays
<1>3. ASSUME NEW t \in Threads, Call(t) PROVE StatInv'
  <2>1. PICK g \in Known : g = task[t].to
    BY <1>3 DEF Call, TypeOK, Tasks
  <2> DEFINE d == handlers[g]
  <2>2. /\ Known' = Known /\ UNCHANGED <<stat, seen>>
        /\ \A h \in Known : handlers'[h].pattern = handlers[h].pattern
        /\ \A h \in Known \ {g} : handlers'[h] = handlers[h]
        /\ handlers'[g].count = (d.count + 1) % Wrap /\ handlers'[g].calls = d.calls + 1
    BY <1>1, <1>3, <2>1 DEF Call, Known, Handler
  <2>3. Counted' = Counted
    BY <2>2 DEF Counted
  <2>4. \A h \in Known : Start(h)' = Start(h)
    <3>1. Start(g)' = Start(g)
      <4>1. \A h \in Known : /\ MaxCalls < Wrap /\ handlers[h].count \in 0..Wrap - 1
                            /\ handlers[h].calls \in 0..MaxCalls
        BY CountOfStart, StatTypes
      <4>2. d.calls + 1 <= MaxCalls
        BY <1>1, <1>3, <2>1 DEF Call
      <4>3. /\ d.count \in 0..Wrap - 1 /\ d.calls \in 0..Wrap - 1
            /\ d.calls + 1 <= Wrap - 1
        <5>1. MaxCalls < Wrap /\ d.count \in 0..Wrap - 1 /\ d.calls \in 0..MaxCalls
          BY <2>1, <4>1
        <5> HIDE DEF d
        <5> QED BY <1>1, <4>2, <5>1
      <4>4. Start(g)' = (((d.count + 1) % Wrap) - (d.calls + 1)) % Wrap
        BY <1>3, <2>2 DEF Start, Call
      <4>5. Start(g) = (d.count - d.calls) % Wrap
        BY DEF Start
      <4> DEFINE x == d.count
                 y == d.calls
      <4>6. x \in 0..Wrap - 1 /\ y \in 0..Wrap - 1 /\ y + 1 <= Wrap - 1
        BY <4>3
      <4> HIDE DEF x, y
      <4>7. (((x + 1) % Wrap) - (y + 1)) % Wrap = (x - y) % Wrap
        BY ONLY <4>6, CountsOn
      <4> QED BY <4>4, <4>5, <4>7 DEF x, y
    <3> QED BY <2>2, <3>1 DEF Start
  <2>5. \A h \in Index : later[h] \in {now[h], now[h] + 1}
    <3>1. \A h \in Known : handlers'[h].calls \in {handlers[h].calls, handlers[h].calls + 1}
      BY <2>2
    <3>2. \A h \in Index : now[h] = IF h \in Counted THEN handlers[h].calls ELSE 0
      BY DEF Calls
    <3>3. \A h \in Index : later[h] = IF h \in Counted' THEN handlers'[h].calls ELSE 0
      BY DEF Calls
    <3> QED BY <1>1, <2>3, <3>1, <3>2, <3>3
  <2>6. later = [h \in Index |-> later[h]]
    BY DEF Calls
  <2> HIDE DEF now, later
  <2>7. \A h \in Index : later[h] \in Nat /\ now[h] <= later[h]
    BY <1>1, <2>5
  <2>8. later \in [Index -> Nat]
    BY <2>6, <2>7
  <2> QED BY <2>2, <2>3, <2>4, <2>7, <2>8, StatStays DEF now, later
<1>4. CASE Ask \/ Add
  BY <1>4, AskStep, AddStep
<1>5. CASE UNCHANGED <<handlers, stat, seen>>
  <2>1. Known' = Known /\ Counted' = Counted /\ Calls' = Calls /\ \A h \in Known : Start(h)' = Start(h)
    BY <1>5 DEF Known, Counted, Calls, Start
  <2>2. \A h \in Index : now[h] <= now[h]
    BY <1>1
  <2> QED BY <1>1, <1>5, <2>1, <2>2, StatStays
<1> QED
  BY <1>2, <1>3, <1>4, <1>5 DEF Next, vars, HandleRequest, Leave

(* No handlers, no calls, no results. *)
LEMMA StatStarts == Init => StatInv
<1> SUFFICES ASSUME Init PROVE StatInv
  OBVIOUS
<1> DEFINE now == Calls
           none == Starts({})
<1>1. /\ MaxHandlers \in Nat /\ Index = 1..MaxHandlers /\ Fetched = MaxHandlers + 1
      /\ Counted \subseteq Known /\ now \in [Index -> Nat]
      /\ SumFunction(now) = SumFunctionOnSet(now, 1..MaxHandlers)
      /\ SumFunction(now) \in Nat
  BY StartsWell, StatTypes
<1>2. Known = {} /\ Counted = {}
  BY <1>1 DEF Init, Known
<1>3. none \in [Index -> Nat] /\ none \in [Index -> 0..0]
  BY DEF Starts
<1>4. /\ stat.next = Fetched /\ stat.sum = 0 /\ stat.last = 0
      /\ seen.of = {} /\ seen.lastOf = {} /\ seen.low = 0 /\ seen.high = 0
      /\ seen.lastLow = 0 /\ seen.lastHigh = 0
  BY DEF Init
<1>5. stat.next - 1 = MaxHandlers /\ MaxHandlers \in 0..MaxHandlers
  BY <1>1, <1>4
<1> HIDE DEF now, none
<1>6. SumFunctionOnSet(none, 1..MaxHandlers) = 0
  <2>1. /\ SumFunctionOnSet(none, 1..MaxHandlers) \in Nat
        /\ SumFunctionOnSet(none, 1..MaxHandlers) <= MaxHandlers * 0
    BY <1>1, <1>3, <1>5, SumTo, SumBounded
  <2>2. MaxHandlers * 0 = 0
    BY <1>1
  <2> QED BY <2>1, <2>2
<1>7. 0 = 0 + 0 - 0 * Wrap
  BY RouterAssumption
<1>8. Result(0)
  <2>1. IsCount(stat.sum, seen.of, stat.next - 1, 0)
    BY <1>4, <1>5, <1>6, <1>7 DEF IsCount, none
  <2>2. seen.low <= 0 + (SumFunctionOnSet(Calls, 1..MaxHandlers)
                           - SumFunctionOnSet(Calls, 1..stat.next - 1))
    BY <1>1, <1>4, <1>5 DEF now
  <2> QED BY <1>1, <1>4, <1>5, <2>1, <2>2 DEF Result, now
<1>9. LastResult(0)
  BY <1>4, <1>6, <1>7 DEF LastResult, IsCount, none
<1>10. 0 \in Nat /\ seen.high <= SumFunction(Calls)
  BY <1>1, <1>4 DEF now
<1> QED
  BY <1>2, <1>4, <1>8, <1>9, <1>10 DEF StatInv

(* What the samples' print_stat computes, the difference of two results in *)
(* 64 bits, is a number of calls between the fewest and the most there can *)
(* have been from the one to the other, if both are of the same handlers:  *)
(* whatever the counters started with, however many threads count          *)
(* meanwhile, as long as all calls together stay below 2^64.               *)
THEOREM StatPlausible == Spec => []StatIsPlausible
<1>1. Init => TypeOK /\ StatInv
  BY StartsWell, StatStarts
<1>2. TypeOK /\ StatInv /\ [Next]_vars => (TypeOK /\ StatInv)'
  BY KeepsType, StatStep
<1>3. TypeOK /\ StatInv => StatIsPlausible
  <2> SUFFICES ASSUME TypeOK, StatInv, stat.next = Fetched, seen.of = seen.lastOf
               PROVE  LET difference == (stat.sum - stat.last) % Wrap IN
                      /\ seen.low - seen.lastHigh <= difference
                      /\ difference <= seen.high - seen.lastLow
    BY DEF StatIsPlausible
  <2> DEFINE now == Calls
             starts == Starts(seen.of)
             T == SumFunctionOnSet(now, 1..MaxHandlers)
             S == SumFunctionOnSet(starts, 1..MaxHandlers)
             difference == (stat.sum - stat.last) % Wrap
  <2>1. /\ now \in [Index -> 0..MaxCalls] /\ SumFunction(now) = T
        /\ MaxHandlers \in Nat /\ Index = 1..MaxHandlers /\ Fetched = MaxHandlers + 1
        /\ Wrap \in Nat \ {0}
    BY StatTypes
  <2>2. stat.next - 1 = MaxHandlers /\ MaxHandlers \in 0..MaxHandlers
    BY <2>1
  <2>3. starts \in [Index -> Nat]
    BY StartsType DEF StatInv
  <2>4. /\ stat.sum \in 0..Wrap - 1 /\ stat.last \in 0..Wrap - 1
        /\ seen.low \in Nat /\ seen.high \in Nat
        /\ seen.lastLow \in Nat /\ seen.lastHigh \in Nat
    BY DEF TypeOK
  <2>5. PICK c \in Nat : Result(c)
    BY DEF StatInv
  <2>6. PICK b \in Nat : LastResult(b)
    BY DEF StatInv
  <2>7. PICK q \in Nat : stat.sum = S + c - q * Wrap
    BY <2>2, <2>5 DEF Result, IsCount
  <2>8. PICK r \in Nat : stat.last = S + b - r * Wrap
    BY <2>6 DEF LastResult, IsCount
  <2>9. /\ seen.low <= c + (T - T) /\ c <= seen.high /\ seen.lastLow <= b /\ b <= seen.lastHigh
        /\ seen.lastHigh <= seen.low /\ seen.high <= T
    BY <2>1, <2>2, <2>5, <2>6 DEF Result, LastResult, StatInv
  <2> HIDE DEF now, starts
  <2>10. T \in 0..Wrap - 1
    BY ONLY <2>1, <2>2, FewCalls
  <2>11. S \in Nat
    BY <2>1, <2>2, <2>3, SumTo
  <2> HIDE DEF T, S
  <2>12. /\ b <= c /\ c - b \in 0..Wrap - 1
         /\ seen.low - seen.lastHigh <= c - b /\ c - b <= seen.high - seen.lastLow
    <3>1. b <= seen.lastHigh /\ seen.lastHigh <= seen.low /\ seen.low <= c /\ c <= T
      BY <2>4, <2>9, <2>10
    <3> DEFINE ll == seen.lastLow
               lh == seen.lastHigh
               lo == seen.low
               hi == seen.high
    <3>2. /\ ll <= b /\ b <= lh /\ lh <= lo /\ lo <= c /\ c <= hi /\ c <= T
          /\ ll \in Nat /\ lh \in Nat /\ lo \in Nat /\ hi \in Nat
      BY <2>4, <2>9, <3>1
    <3> HIDE DEF ll, lh, lo, hi
    <3>3. b <= c /\ c - b \in 0..Wrap - 1 /\ lo - lh <= c - b /\ c - b <= hi - ll
      BY <2>1, <2>10, <3>2
    <3> QED BY <3>3 DEF ll, lh, lo, hi
  <2>13. difference = c - b
    <3> DEFINE n == c - b
               d == stat.sum - stat.last
               z == q - r
    <3>1. /\ n \in 0..Wrap - 1 /\ d \in -(Wrap - 1)..Wrap - 1 /\ z \in Int
      <4>1. n \in 0..Wrap - 1
        BY <2>12
      <4>2. d \in -(Wrap - 1)..Wrap - 1
        BY <2>1, <2>4
      <4> QED BY <4>1, <4>2
    <3>2. d = n - z * Wrap
      <4>1. z * Wrap = q * Wrap - r * Wrap /\ q * Wrap \in Nat /\ r * Wrap \in Nat
        BY <2>1
      <4> QED BY <2>7, <2>8, <2>11, <4>1
    <3> HIDE DEF n, d, z
    <3>3. d % Wrap = n
      BY <3>1, <3>2, DifferenceWraps
    <3> QED BY <3>3 DEF d, n
  <2> QED BY <2>12, <2>13
<1> QED
  BY <1>1, <1>2, <1>3, PTL DEF Spec
===========================================================================
