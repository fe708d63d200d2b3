--------------------------- MODULE LiveFeedProofs ---------------------------
(***************************************************************************)
(* TLAPS proofs about LiveFeed: no event is on a feed twice, what the      *)
(* activity page has marked as seen is on its feed, and only a full feed   *)
(* or a load drops an item, for any number of events, polls and updates    *)
(* that wait for React.                                                    *)
(***************************************************************************)
EXTENDS LiveFeed, FiniteSetTheorems, SequenceTheorems, WellFoundedInduction, TLAPS

-----------------------------------------------------------------------------
(* Numbers. *)

LEMMA LeastNatural ==
    ASSUME NEW T \in SUBSET Nat, T # {}
    PROVE  \E x \in T : \A y \in T : x <= y
<1> DEFINE L == OpToRel(<, Nat)
<1>1. IsWellFoundedOn(L, Nat)
  BY NatLessThanWellFounded
<1>2. PICK x \in T : \A y \in T : ~ (<<y, x>> \in L)
  <2> HIDE DEF L
  <2> QED BY <1>1, WFMin
<1>3. \A y \in T : ~(y < x)
  BY <1>2 DEF OpToRel
<1> QED BY <1>3

LEMMA MinMember ==
    ASSUME NEW T \in SUBSET Nat, T # {}
    PROVE  Min(T) \in T
<1>1. \E x \in T : \A y \in T : x <= y
  BY LeastNatural
<1> QED BY <1>1 DEF Min

LEMMA MaxMember ==
    ASSUME NEW n \in Nat, NEW T \in SUBSET (0..n), T # {}
    PROVE  Max(T) \in T
<1> DEFINE U == {k \in Nat : n - k \in T}
<1>1. U \in SUBSET Nat /\ U # {}
  <2>1. PICK y \in T : TRUE
    OBVIOUS
  <2>2. n - y \in Nat /\ n - (n - y) = y
    OBVIOUS
  <2> QED BY <2>1, <2>2
<1>2. PICK k \in U : \A j \in U : k <= j
  BY <1>1, LeastNatural
<1>3. \A y \in T : n - k >= y
  <2>1. ASSUME NEW y \in T PROVE n - k >= y
    <3>1. n - y \in U
      OBVIOUS
    <3> QED BY <1>2, <3>1
  <2> QED BY <2>1
<1> QED BY <1>2, <1>3 DEF Max

LEMMA MinOfTwo ==
    ASSUME NEW a \in Nat, NEW b \in Nat
    PROVE  Min({a, b}) = IF a <= b THEN a ELSE b
<1> DEFINE m == IF a <= b THEN a ELSE b
<1>1. m \in {a, b} /\ \A y \in {a, b} : m <= y
  OBVIOUS
<1>2. \A x \in {a, b} : (\A y \in {a, b} : x <= y) => x = m
  OBVIOUS
<1> QED BY <1>1, <1>2 DEF Min

-----------------------------------------------------------------------------
(* Feeds: sequences without repetition, no longer than Cap. *)

Fits(f) == f \in Seq(Nat) /\ Len(f) <= Cap /\ IsInjective(f)

(* What a feed loses, it loses to items that fill it. *)
Kept(f, g) == Len(g) = Cap \/ Range(f) \subseteq Range(g)

(* A feed that was cut off keeps its newest items. *)
LEMMA CappedFacts ==
    ASSUME NEW s \in Seq(Nat)
    PROVE  /\ Capped(s) \in Seq(Nat)
           /\ Len(Capped(s)) = IF Cap <= Len(s) THEN Cap ELSE Len(s)
           /\ \A i \in 1..Len(Capped(s)) : i \in 1..Len(s) /\ Capped(s)[i] = s[i]
<1> DEFINE n == IF Cap <= Len(s) THEN Cap ELSE Len(s)
<1>1. Cap \in Nat /\ Len(s) \in Nat
  BY LimitsAssumption
<1>2. Capped(s) = SubSeq(s, 1, n)
  BY <1>1, MinOfTwo DEF Capped
<1>3. n \in 0..Len(s)
  BY <1>1
<1> HIDE DEF n
<1>4. /\ SubSeq(s, 1, n) \in Seq(Nat) /\ Len(SubSeq(s, 1, n)) = n
      /\ \A i \in 1..n : SubSeq(s, 1, n)[i] = s[i]
  BY <1>1, <1>3
<1>5. \A i \in 1..n : i \in 1..Len(s)
  BY <1>1, <1>3
<1> QED BY <1>2, <1>4, <1>5 DEF n

LEMMA RangeFacts ==
    ASSUME NEW s \in Seq(Nat)
    PROVE  /\ \A e : e \in Range(s) <=> \E i \in 1..Len(s) : s[i] = e
           /\ Range(s) \in SUBSET Nat
           /\ IsInjective(s) <=> \A i, j \in 1..Len(s) : s[i] = s[j] => i = j
<1>1. DOMAIN s = 1..Len(s) /\ \A i \in 1..Len(s) : s[i] \in Nat
  OBVIOUS
<1> QED BY <1>1 DEF Range, IsInjective

LEMMA CappedFits ==
    ASSUME NEW s \in Seq(Nat), IsInjective(s)
    PROVE  /\ Fits(Capped(s))
           /\ Range(Capped(s)) \subseteq Range(s)
           /\ Kept(s, Capped(s))
           /\ Len(s) <= Cap => Range(Capped(s)) = Range(s)
<1> DEFINE c == Capped(s)
<1>0. Cap \in Nat /\ Len(s) \in Nat
  BY LimitsAssumption
<1>1. /\ c \in Seq(Nat) /\ Len(c) = IF Cap <= Len(s) THEN Cap ELSE Len(s)
      /\ \A i \in 1..Len(c) : i \in 1..Len(s) /\ c[i] = s[i]
  BY CappedFacts
<1> HIDE DEF c
<1>2. ASSUME NEW e \in Range(c) PROVE e \in Range(s)
  <2>1. PICK i \in 1..Len(c) : c[i] = e
    BY <1>1, RangeFacts
  <2>2. i \in 1..Len(s) /\ s[i] = e
    BY <1>1, <2>1
  <2> QED BY <2>2, RangeFacts
<1>3. IsInjective(c)
  <2>1. \A i, j \in 1..Len(s) : s[i] = s[j] => i = j
    BY RangeFacts
  <2>2. ASSUME NEW i \in 1..Len(c), NEW j \in 1..Len(c), c[i] = c[j] PROVE i = j
    <3>1. i \in 1..Len(s) /\ j \in 1..Len(s) /\ s[i] = s[j]
      BY <1>1, <2>2
    <3> QED BY <2>1, <3>1
  <2> QED BY <1>1, <2>2, RangeFacts
<1>4. ASSUME Len(c) = Len(s) PROVE Range(s) \subseteq Range(c)
  <2>1. ASSUME NEW e \in Range(s) PROVE e \in Range(c)
    <3>1. PICK i \in 1..Len(s) : s[i] = e
      BY RangeFacts
    <3>2. i \in 1..Len(c) /\ c[i] = e
      BY <1>1, <1>4, <3>1
    <3> QED BY <1>1, <3>2, RangeFacts
  <2> QED BY <2>1
<1> QED BY <1>0, <1>1, <1>2, <1>3, <1>4 DEF Fits, Kept, c

(* The item pushed comes first. *)
LEMMA PushFacts ==
    ASSUME NEW f \in Seq(Nat), NEW e \in Nat
    PROVE  LET g == Capped(<<e>> \o f) IN
           /\ g \in Seq(Nat) /\ Len(g) <= Cap
           /\ Range(g) \subseteq Range(f) \cup {e}
           /\ e \in Range(g)
           /\ Kept(f, g)
           /\ Len(f) = Cap => Len(g) = Cap
           /\ Len(f) < Cap => Range(g) = Range(f) \cup {e}
           /\ IsInjective(f) /\ e \notin Range(f) => IsInjective(g)
<1> DEFINE s == <<e>> \o f
           g == Capped(s)
<1>0. Cap \in Nat /\ Cap >= 1 /\ Len(f) \in Nat
  BY LimitsAssumption
<1>1. /\ s \in Seq(Nat) /\ Len(s) = Len(f) + 1 /\ s[1] = e
      /\ \A i \in 1..Len(f) : s[i + 1] = f[i]
      /\ \A i \in 2..Len(s) : s[i] = f[i - 1] /\ i - 1 \in 1..Len(f)
  OBVIOUS
<1> HIDE DEF s
<1>2. /\ g \in Seq(Nat) /\ Len(g) = IF Cap <= Len(s) THEN Cap ELSE Len(s)
      /\ \A i \in 1..Len(g) : i \in 1..Len(s) /\ g[i] = s[i]
  BY <1>1, CappedFacts
<1> HIDE DEF g
<1>3. \A i \in 1..Len(s) : i = 1 \/ i \in 2..Len(s)
  BY <1>0, <1>1
<1>4. Range(s) = Range(f) \cup {e}
  <2>1. ASSUME NEW d \in Range(f) PROVE d \in Range(s)
    <3>1. PICK i \in 1..Len(f) : f[i] = d
      BY RangeFacts
    <3>2. i + 1 \in 1..Len(s) /\ s[i + 1] = d
      BY <1>0, <1>1, <3>1
    <3> QED BY <1>1, <3>2, RangeFacts
  <2>2. e \in Range(s)
    BY <1>0, <1>1, RangeFacts
  <2>3. ASSUME NEW d \in Range(s) PROVE d \in Range(f) \cup {e}
    <3>1. PICK i \in 1..Len(s) : s[i] = d
      BY <1>1, RangeFacts
    <3>2. CASE i = 1
      BY <1>1, <3>1, <3>2
    <3>3. CASE i \in 2..Len(s)
      BY <1>1, <3>1, <3>3, RangeFacts
    <3> QED BY <1>3, <3>2, <3>3
  <2> QED BY <2>1, <2>2, <2>3
<1>5. Range(g) \subseteq Range(s) /\ e \in Range(g)
  <2>1. 1 \in 1..Len(g) /\ g[1] = e
    BY <1>0, <1>1, <1>2
  <2>2. ASSUME NEW d \in Range(g) PROVE d \in Range(s)
    <3>1. PICK i \in 1..Len(g) : g[i] = d
      BY <1>2, RangeFacts
    <3>2. i \in 1..Len(s) /\ s[i] = d
      BY <1>2, <3>1
    <3> QED BY <1>1, <3>2, RangeFacts
  <2> QED BY <1>2, <2>1, <2>2, RangeFacts
<1>6. ASSUME Len(g) = Len(s) PROVE Range(g) = Range(s)
  <2>1. ASSUME NEW d \in Range(s) PROVE d \in Range(g)
    <3>1. PICK i \in 1..Len(s) : s[i] = d
      BY <1>1, RangeFacts
    <3>2. i \in 1..Len(g) /\ g[i] = d
      BY <1>2, <1>6, <3>1
    <3> QED BY <1>2, <3>2, RangeFacts
  <2> QED BY <1>5, <2>1
<1>7. ASSUME IsInjective(f), e \notin Range(f) PROVE IsInjective(g)
  <2>1. \A i, j \in 1..Len(f) : f[i] = f[j] => i = j
    BY <1>7, RangeFacts
  <2>2. \A i \in 1..Len(f) : f[i] # e
    BY <1>7, RangeFacts
  <2>3. ASSUME NEW i \in 1..Len(s), NEW j \in 1..Len(s), s[i] = s[j] PROVE i = j
    <3>1. CASE i = 1 \/ j = 1
      BY <1>1, <1>3, <2>2, <2>3, <3>1
    <3>2. CASE i \in 2..Len(s) /\ j \in 2..Len(s)
      <4>1. i - 1 = j - 1
        <5>1. /\ s[i] = f[i - 1] /\ i - 1 \in 1..Len(f)
              /\ s[j] = f[j - 1] /\ j - 1 \in 1..Len(f)
          BY <1>1, <3>2
        <5> QED BY <2>1, <2>3, <5>1
      <4> QED BY <3>2, <4>1
    <3> QED BY <1>3, <3>1, <3>2
  <2> QED BY <1>2, <2>3, RangeFacts
<1> QED BY <1>0, <1>1, <1>2, <1>4, <1>5, <1>6, <1>7 DEF Kept, g, s

(* An event already on the feed is not pushed again. *)
LEMMA PushFits ==
    ASSUME NEW f, Fits(f), NEW e \in Nat
    PROVE  /\ Fits(pushLiveFeed(f, e))
           /\ Range(pushLiveFeed(f, e)) \subseteq Range(f) \cup {e}
           /\ Kept(f, pushLiveFeed(f, e))
           /\ Len(f) = Cap => Len(pushLiveFeed(f, e)) = Cap
  BY PushFacts DEF Fits, pushLiveFeed, Kept

LEMMA IntervalEnds ==
    ASSUME NEW m \in Nat, NEW n \in Nat, 1..m = 1..n
    PROVE  m = n
<1>1. m >= 1 => m \in 1..n
  OBVIOUS
<1>2. n >= 1 => n \in 1..m
  OBVIOUS
<1> QED BY <1>1, <1>2

(* The events of a set, newest first: as many as there are, each once. *)
LEMMA DescendingFacts ==
    ASSUME NEW S \in SUBSET Nat, IsFiniteSet(S)
    PROVE  /\ Descending(S) \in Seq(Nat) /\ IsInjective(Descending(S))
           /\ Range(Descending(S)) = S /\ Len(Descending(S)) = Cardinality(S)
<1> DEFINE Above(e) == {d \in S : d > e}
           N == Cardinality(S)
           r == [e \in S |-> Cardinality(Above(e)) + 1]
           q == [n \in 1..N |-> CHOOSE e \in S : Cardinality(Above(e)) = n - 1]
<1>0. N \in Nat
  BY FS_CardinalityType
<1>1. ASSUME NEW e \in S
      PROVE  IsFiniteSet(Above(e)) /\ Cardinality(Above(e)) \in 0..(N - 1)
  <2>1. /\ IsFiniteSet(S \ {e}) /\ Cardinality(S \ {e}) = N - 1
    BY FS_RemoveElement
  <2>2. Above(e) \in SUBSET (S \ {e})
    OBVIOUS
  <2>3. IsFiniteSet(Above(e)) /\ Cardinality(Above(e)) <= N - 1
    BY <2>1, <2>2, FS_Subset
  <2>4. Cardinality(Above(e)) \in Nat
    BY <2>3, FS_CardinalityType
  <2> HIDE DEF Above, N
  <2> QED BY <1>0, <2>3, <2>4
<1>2. ASSUME NEW d \in S, NEW e \in S, d < e
      PROVE  Cardinality(Above(e)) < Cardinality(Above(d))
  <2>1. Above(e) \in SUBSET Above(d) /\ e \in Above(d) /\ e \notin Above(e)
    <3>1. d \in Int /\ e \in Int /\ ~(e > e) /\ e > d
      BY <1>2
    <3>2. \A x \in S : x > e => x > d
      BY <1>2
    <3> QED BY <3>1, <3>2
  <2>2. IsFiniteSet(Above(d)) /\ Cardinality(Above(e)) \in Nat /\ Cardinality(Above(d)) \in Nat
    BY <1>0, <1>1
  <2> HIDE DEF Above
  <2>3. /\ Cardinality(Above(e)) <= Cardinality(Above(d))
        /\ Cardinality(Above(d)) = Cardinality(Above(e)) => Above(d) = Above(e)
    BY <2>1, <2>2, FS_Subset
  <2> QED BY <2>1, <2>2, <2>3
<1>3. ASSUME NEW d \in S, NEW e \in S, Cardinality(Above(d)) = Cardinality(Above(e))
      PROVE  d = e
  <2> HIDE DEF Above
  <2>1. Cardinality(Above(d)) \in Int /\ Cardinality(Above(e)) \in Int
    BY <1>0, <1>1
  <2>2. ~(d < e) /\ ~(e < d)
    BY <1>2, <1>3, <2>1
  <2> QED BY <2>2
<1>4. ASSUME NEW n \in 1..N PROVE \E e \in S : Cardinality(Above(e)) = n - 1
  <2> HIDE DEF Above, N
  <2>1. r \in [S -> 1..N]
    BY <1>0, <1>1
  <2>2. r \in Injection(S, 1..N)
    BY <1>1, <1>3, <2>1 DEF Injection, IsInjective
  <2>3. IsFiniteSet(1..N) /\ Cardinality(1..N) = N
    <3>1. IsFiniteSet(1..N) /\ Cardinality(1..N) = IF 1 > N THEN 0 ELSE N - 1 + 1
      BY <1>0, FS_Interval
    <3> QED BY <1>0, <3>1
  <2>4. r \in Surjection(S, 1..N)
    BY <2>2, <2>3, FS_Injection DEF N
  <2>5. PICK e \in S : r[e] = n
    BY <2>4 DEF Surjection
  <2> QED BY <1>0, <1>1, <2>5
<1>5. ASSUME NEW n \in 1..N PROVE q[n] \in S /\ Cardinality(Above(q[n])) = n - 1
  <2> HIDE DEF Above, N
  <2> QED BY <1>4
<1>6. Descending(S) = q
  BY DEF Descending
<1> HIDE DEF Above, N, q
<1>7. q \in [1..N -> S]
  <2>1. q = [n \in 1..N |-> q[n]]
    BY DEF q
  <2> QED BY <1>5, <2>1
<1>8. q \in Seq(Nat) /\ Len(q) = N
  <2>1. q \in [1..N -> Nat]
    BY <1>7
  <2>2. q \in Seq(Nat)
    BY <1>0, <2>1
  <2>3. DOMAIN q = 1..N
    BY <2>1
  <2>4. Len(q) \in Nat /\ DOMAIN q = 1..Len(q)
    BY <2>2
  <2>5. Len(q) = N
    BY <1>0, <2>3, <2>4, IntervalEnds
  <2> QED BY <2>2, <2>5
<1>9. \A i, j \in 1..N : q[i] = q[j] => i = j
  BY <1>0, <1>5
<1>10. ASSUME NEW e \in S PROVE e \in Range(q)
  <2>1. PICK n \in 1..N : n = Cardinality(Above(e)) + 1
    BY <1>0, <1>1
  <2>2. q[n] = e
    <3>1. Cardinality(Above(e)) \in Int /\ n - 1 = Cardinality(Above(e))
      BY <1>0, <1>1, <2>1
    <3>2. q[n] \in S /\ Cardinality(Above(q[n])) = Cardinality(Above(e))
      BY <1>5, <3>1
    <3> QED BY <1>3, <3>2
  <2> QED BY <1>8, <2>2, RangeFacts
<1>11. ASSUME NEW e \in Range(q) PROVE e \in S
  BY <1>5, <1>8, RangeFacts
<1>12. IsInjective(q)
  BY <1>8, <1>9, RangeFacts
<1> QED BY <1>6, <1>8, <1>10, <1>11, <1>12 DEF N

LEMMA FiniteEvents ==
    ASSUME NEW n \in Nat, NEW S \in SUBSET (1..n)
    PROVE  IsFiniteSet(S) /\ S \in SUBSET Nat /\ Cardinality(S) \in Nat /\ Cardinality(S) <= n
<1>1. IsFiniteSet(1..n) /\ Cardinality(1..n) = IF 1 > n THEN 0 ELSE n - 1 + 1
  BY FS_Interval
<1>2. IsFiniteSet(S) /\ Cardinality(S) <= n
  <2>1. IsFiniteSet(S) /\ Cardinality(S) <= Cardinality(1..n)
    BY <1>1, FS_Subset
  <2>2. Cardinality(1..n) = n
    BY <1>1
  <2> QED BY <2>1, <2>2
<1>3. S \in SUBSET Nat
  OBVIOUS
<1> QED BY <1>2, <1>3, FS_CardinalityType

(* A feed of events holds no more than there are. *)
LEMMA LengthOfRange ==
    ASSUME NEW f \in Seq(Nat), IsInjective(f)
    PROVE  IsFiniteSet(Range(f)) /\ Cardinality(Range(f)) = Len(f)
<1>1. Len(f) \in Nat /\ f \in [1..Len(f) -> Range(f)]
  BY RangeFacts
<1>2. \A t \in Range(f) : \E i \in 1..Len(f) : f[i] = t
  BY RangeFacts
<1>3. f \in Bijection(1..Len(f), Range(f))
  BY <1>1, <1>2 DEF Bijection, Injection, Surjection
<1>4. IsFiniteSet(1..Len(f)) /\ Cardinality(1..Len(f)) = Len(f)
  <2>1. IsFiniteSet(1..Len(f)) /\ Cardinality(1..Len(f)) = IF 1 > Len(f) THEN 0 ELSE Len(f) - 1 + 1
    BY <1>1, FS_Interval
  <2> QED BY <1>1, <2>1
<1>5. ExistsBijection(1..Len(f), Range(f))
  BY <1>3 DEF ExistsBijection
<1> QED BY <1>4, <1>5, FS_Bijection

-----------------------------------------------------------------------------
(* Several items at once. *)

(* A poll pushes its items one after the other. *)
Pushes(f, items) ==
    LET after[n \in 0..Len(items)] == IF n = 0 THEN f ELSE pushLiveFeed(after[n - 1], items[n])
    IN  after

LEMMA PollSteps ==
    ASSUME NEW f, NEW items, Len(items) \in Nat
    PROVE  /\ Pushes(f, items)[0] = f
           /\ \A n \in 1..Len(items) : Pushes(f, items)[n] = pushLiveFeed(Pushes(f, items)[n - 1], items[n])
<1> DEFINE F(g, m) == g = [n \in 0..m |-> IF n = 0 THEN f ELSE pushLiveFeed(g[n - 1], items[n])]
           Bad == {m \in Nat : ~ \E g : F(g, m)}
           after == Pushes(f, items)
<1>1. Bad = {}
  <2> SUFFICES ASSUME Bad # {} PROVE FALSE
    OBVIOUS
  <2>1. PICK m \in Bad : \A k \in Bad : m <= k
    BY LeastNatural
  <2>2. CASE m = 0
    <3> DEFINE h == [n \in 0..0 |-> f]
    <3>1. F(h, 0)
      OBVIOUS
    <3> QED BY <2>1, <2>2, <3>1
  <2>3. CASE m # 0
    <3>1. m \in Nat /\ m - 1 \in Nat /\ m - 1 \notin Bad
      BY <2>1, <2>3
    <3>2. PICK g : F(g, m - 1)
      BY <3>1
    <3> DEFINE h == [n \in 0..m |-> IF n = m THEN pushLiveFeed(g[m - 1], items[m]) ELSE g[n]]
    <3>3. \A n \in 0..(m - 1) : g[n] = IF n = 0 THEN f ELSE pushLiveFeed(g[n - 1], items[n])
      BY <3>2
    <3>4. ASSUME NEW n \in 0..m
          PROVE  h[n] = IF n = 0 THEN f ELSE pushLiveFeed(h[n - 1], items[n])
      <4>1. CASE n = 0
        BY <3>1, <3>3, <4>1, <2>3
      <4>2. CASE n # 0 /\ n # m
        <5>1. n \in 0..(m - 1) /\ n - 1 \in 0..m /\ n - 1 # m
          BY <3>1, <4>2
        <5>2. h[n] = g[n] /\ h[n - 1] = g[n - 1]
          BY <5>1, <4>2
        <5> QED BY <3>3, <4>2, <5>1, <5>2
      <4>3. CASE n # 0 /\ n = m
        <5>1. m - 1 \in 0..m /\ m - 1 # m /\ m \in 0..m
          BY <3>1
        <5>2. h[m] = pushLiveFeed(g[m - 1], items[m]) /\ h[m - 1] = g[m - 1]
          BY <5>1
        <5> QED BY <4>3, <5>2
      <4> QED BY <4>1, <4>2, <4>3
    <3>5. F(h, m)
      <4>1. h = [n \in 0..m |-> h[n]]
        OBVIOUS
      <4> HIDE DEF h
      <4> QED BY <3>4, <4>1
    <3> QED BY <2>1, <3>5
  <2> QED BY <2>2, <2>3
<1>2. \E g : F(g, Len(items))
  BY <1>1
<1>3. F(after, Len(items))
  <2>1. \A g : F(g, Len(items)) => F(CHOOSE h : F(h, Len(items)), Len(items))
    OBVIOUS
  <2> QED BY <1>2, <2>1 DEF Pushes
<1> HIDE DEF after
<1>4. \A n \in 0..Len(items) : after[n] = IF n = 0 THEN f ELSE pushLiveFeed(after[n - 1], items[n])
  BY <1>3
<1> QED BY <1>4 DEF after

LEMMA PollFacts ==
    ASSUME NEW f, Fits(f), NEW S \in SUBSET Nat, IsFiniteSet(S)
    PROVE  /\ Fits(pollGenericActivity(f, S))
           /\ Range(pollGenericActivity(f, S)) \subseteq Range(f) \cup S
           /\ Kept(f, pollGenericActivity(f, S))
<1> DEFINE items == Descending(S)
           N == Len(items)
           after == Pushes(f, items)
           Good(n) == /\ Fits(after[n]) /\ Range(after[n]) \subseteq Range(f) \cup S
                      /\ Kept(f, after[n])
           Bad == {n \in 0..N : ~ Good(n)}
<1>1. items \in Seq(Nat) /\ Range(items) = S
  BY DescendingFacts
<1>2. N \in Nat /\ \A n \in 1..N : items[n] \in S
  BY <1>1, RangeFacts
<1>3. pollGenericActivity(f, S) = after[N]
  BY DEF pollGenericActivity, Pushes
<1>4. after[0] = f /\ \A n \in 1..N : after[n] = pushLiveFeed(after[n - 1], items[n])
  <2> HIDE DEF items
  <2> QED BY <1>2, PollSteps
<1> HIDE DEF items, N, after
<1>5. Good(0)
  BY <1>4 DEF Kept
<1>6. ASSUME NEW n \in 1..N, Good(n - 1) PROVE Good(n)
  <2> DEFINE g == after[n - 1]
             h == after[n]
  <2>1. h = pushLiveFeed(g, items[n]) /\ items[n] \in S
    BY <1>2, <1>4
  <2>2. /\ Fits(h) /\ Range(h) \subseteq Range(g) \cup {items[n]}
        /\ Kept(g, h) /\ (Len(g) = Cap => Len(h) = Cap)
    <3> HIDE DEF g, h
    <3>1. Fits(g)
      BY <1>6 DEF g
    <3> QED BY <2>1, <3>1, PushFits
  <2> HIDE DEF g, h
  <2>3. Fits(g) /\ Range(g) \subseteq Range(f) \cup S /\ Kept(f, g)
    BY <1>6 DEF g
  <2>4. Fits(h) /\ Range(h) \subseteq Range(f) \cup S /\ Kept(f, h)
    BY <2>1, <2>2, <2>3 DEF Kept
  <2> QED BY <2>4 DEF h
<1> HIDE DEF Good
<1>7. Bad = {}
  <2> SUFFICES ASSUME Bad # {} PROVE FALSE
    OBVIOUS
  <2>1. PICK m \in Bad : \A k \in Bad : m <= k
    <3>1. Bad \in SUBSET Nat
      BY <1>2
    <3> QED BY <3>1, LeastNatural
  <2>2. m # 0 /\ m \in 1..N /\ m - 1 \in 0..N /\ ~(m <= m - 1)
    BY <1>2, <1>5, <2>1
  <2> QED BY <1>6, <2>1, <2>2
<1>8. Good(N)
  BY <1>2, <1>7
<1> QED BY <1>3, <1>8 DEF Good

(* React runs the updates one after the other. *)
Updates(s, us) ==
    LET after[n \in 0..Len(us)] == IF n = 0 THEN s ELSE Update(after[n - 1], us[n])
    IN  after

LEMMA UpdateSteps ==
    ASSUME NEW s, NEW us, Len(us) \in Nat
    PROVE  /\ Updates(s, us)[0] = s
           /\ \A n \in 1..Len(us) : Updates(s, us)[n] = Update(Updates(s, us)[n - 1], us[n])
<1> DEFINE F(g, m) == g = [n \in 0..m |-> IF n = 0 THEN s ELSE Update(g[n - 1], us[n])]
           Bad == {m \in Nat : ~ \E g : F(g, m)}
           after == Updates(s, us)
<1>1. Bad = {}
  <2> SUFFICES ASSUME Bad # {} PROVE FALSE
    OBVIOUS
  <2>1. PICK m \in Bad : \A k \in Bad : m <= k
    BY LeastNatural
  <2>2. CASE m = 0
    <3> DEFINE h == [n \in 0..0 |-> s]
    <3>1. F(h, 0)
      OBVIOUS
    <3> QED BY <2>1, <2>2, <3>1
  <2>3. CASE m # 0
    <3>1. m \in Nat /\ m - 1 \in Nat /\ m - 1 \notin Bad
      BY <2>1, <2>3
    <3>2. PICK g : F(g, m - 1)
      BY <3>1
    <3> DEFINE h == [n \in 0..m |-> IF n = m THEN Update(g[m - 1], us[m]) ELSE g[n]]
    <3>3. \A n \in 0..(m - 1) : g[n] = IF n = 0 THEN s ELSE Update(g[n - 1], us[n])
      BY <3>2
    <3>4. ASSUME NEW n \in 0..m
          PROVE  h[n] = IF n = 0 THEN s ELSE Update(h[n - 1], us[n])
      <4>1. CASE n = 0
        BY <3>1, <3>3, <4>1, <2>3
      <4>2. CASE n # 0 /\ n # m
        <5>1. n \in 0..(m - 1) /\ n - 1 \in 0..m /\ n - 1 # m
          BY <3>1, <4>2
        <5>2. h[n] = g[n] /\ h[n - 1] = g[n - 1]
          BY <5>1, <4>2
        <5> QED BY <3>3, <4>2, <5>1, <5>2
      <4>3. CASE n # 0 /\ n = m
        <5>1. m - 1 \in 0..m /\ m - 1 # m /\ m \in 0..m
          BY <3>1
        <5>2. h[m] = Update(g[m - 1], us[m]) /\ h[m - 1] = g[m - 1]
          BY <5>1
        <5> QED BY <4>3, <5>2
      <4> QED BY <4>1, <4>2, <4>3
    <3>5. F(h, m)
      <4>1. h = [n \in 0..m |-> h[n]]
        OBVIOUS
      <4> HIDE DEF h
      <4> QED BY <3>4, <4>1
    <3> QED BY <2>1, <3>5
  <2> QED BY <2>2, <2>3
<1>2. \E g : F(g, Len(us))
  BY <1>1
<1>3. F(after, Len(us))
  <2>1. \A g : F(g, Len(us)) => F(CHOOSE h : F(h, Len(us)), Len(us))
    OBVIOUS
  <2> QED BY <1>2, <2>1 DEF Updates
<1> HIDE DEF after
<1>4. \A n \in 0..Len(us) : after[n] = IF n = 0 THEN s ELSE Update(after[n - 1], us[n])
  BY <1>3
<1> QED BY <1>4 DEF after

-----------------------------------------------------------------------------
(* The inductive invariant. *)

(* A push names an event, a load a feed of events. *)
Entry == [op : {"push", "load"}, e : 0..Now, items : Seq(Nat)]
Arrives(u) == u.op = "push" /\ u.e \in 1..Now
Loads(u)   == u.op = "load" /\ Fits(u.items) /\ Range(u.items) \subseteq 1..Now

(* Only the board polls, and all it reads is relevant to it. *)
History == [st : {"idle", "sent", "boards", "read", "done", "failed"}, ans : SUBSET (1..Now)]
Poll    == [st : {"sent", "read"}, ans : SUBSET (1..Now)]
Stream  == [st : {"off", "asking", "open", "wait", "dead"}, last : 0..Now]
ReadsInv ==
    /\ hist \in History /\ polls \in SUBSET Poll /\ sse \in Stream
    /\ fed \in 0..Now /\ open \in BOOLEAN /\ missed \subseteq 1..Now
    /\ page = "board" => hist.ans \subseteq Relevant /\ \A p \in polls : p.ans \subseteq Relevant
    /\ page # "board" => polls = {}

(* Only the activity page leaves updates to React. *)
FeedInv ==
    /\ page \in Pages /\ log \in BoundedSeq(KindsOf(page), MaxEvents)
    /\ seen \subseteq 1..Now /\ wiped \subseteq 1..Now /\ raced \in BOOLEAN
    /\ Fits(feed) /\ Range(feed) \subseteq 1..Now
    /\ page = "board" => Range(feed) \subseteq Relevant
    /\ queued \in Seq(Entry)
    /\ \A n \in 1..Len(queued) : Arrives(queued[n]) \/ Loads(queued[n])
    /\ page # "activity" => queued = <<>>

(* What React has not run yet.  Without a load in the queue, what is on the *)
(* feed is marked as seen; the last load in the queue has what is marked,   *)
(* and whatever is on the feed and not in a load has been counted as wiped. *)
Final(n) == \A m \in 1..Len(queued) : m > n => queued[m].op = "push"
QueueInv ==
    page = "activity" =>
      /\ Final(0) => Range(feed) \subseteq seen
      /\ \A n \in 1..Len(queued) : queued[n].op = "load" =>
           /\ Range(feed) \subseteq wiped \cup Range(queued[n].items)
           /\ Final(n) => Range(queued[n].items) = seen
      /\ ~raced => \A m, n \in 1..Len(queued) :
           m < n /\ queued[m].op = "push" /\ queued[n].op = "load" => queued[m].e \in seen
      /\ ~raced /\ Now <= Cap /\ Final(0) => Range(feed) = seen

Inv == ReadsInv /\ FeedInv /\ QueueInv

LEMMA LogFacts ==
    ASSUME FeedInv
    PROVE  /\ Now \in Nat /\ log \in Seq(KindsOf(page)) /\ Now <= MaxEvents
           /\ Fits(<<>>) /\ Range(<<>>) = {}
  <1>1. log \in UNION {[1..m -> KindsOf(page)] : m \in 0..MaxEvents}
    BY DEF FeedInv, BoundedSeq, SeqOf
  <1>2. PICK m \in 0..MaxEvents : log \in [1..m -> KindsOf(page)]
    BY <1>1
  <1>3. m \in Nat /\ m <= MaxEvents
    BY <1>2, LimitsAssumption
  <1>4. log \in Seq(KindsOf(page)) /\ DOMAIN log = 1..m
    BY <1>2, <1>3
  <1>5. Len(log) = m
    BY <1>3, <1>4, IntervalEnds
  <1>6. <<>> \in Seq(Nat) /\ Len(<<>>) = 0 /\ Cap \in Nat
    BY LimitsAssumption
  <1>7. Range(<<>>) = {} /\ IsInjective(<<>>)
    <2>1. 1..Len(<<>>) = {}
      BY <1>6
    <2>2. \A e : e \notin Range(<<>>)
      BY <1>6, <2>1, RangeFacts, Zenon
    <2>3. IsInjective(<<>>)
      BY <1>6, <2>1, RangeFacts, Zenon
    <2> QED BY <2>2, <2>3
  <1> QED BY <1>3, <1>4, <1>5, <1>6, <1>7 DEF Now, Fits

-----------------------------------------------------------------------------
(* What React makes of the queue: before the last load a feed that will be  *)
(* replaced, from there on a feed that is marked as seen and has lost       *)
(* nothing but what was wiped, unless it is full.                           *)
Turned(s, n) ==
    /\ s \in [feed : Seq(Nat), seen : SUBSET (1..Now)]
    /\ Len(s.feed) <= Cap /\ Range(s.feed) \subseteq 1..Now
    /\ seen \subseteq s.seen
    /\ ~raced /\ ~Final(n) => s.seen = seen
    /\ Final(n) =>
         /\ IsInjective(s.feed) /\ Range(s.feed) \subseteq s.seen
         /\ Len(s.feed) = Cap \/ Range(feed) \subseteq Range(s.feed) \cup wiped
         /\ ~raced /\ Now <= Cap => s.seen = Range(s.feed)

LEMMA UpdateTurns ==
    ASSUME Inv, page = "activity", NEW n \in 1..Len(queued), NEW s, Turned(s, n - 1)
    PROVE  Turned(Update(s, queued[n]), n)
<1> DEFINE u == queued[n]
           t == Update(s, u)
<1> SUFFICES Turned(t, n)
  OBVIOUS
<1>0. /\ Now \in Nat /\ Cap \in Nat /\ Cap >= 1 /\ Len(queued) \in Nat
      /\ n \in Nat /\ u \in Entry /\ (Arrives(u) \/ Loads(u))
      /\ seen \subseteq 1..Now /\ raced \in BOOLEAN
  <2>1. Now \in Nat /\ Cap \in Nat /\ Cap >= 1
    BY LogFacts, LimitsAssumption DEF Inv
  <2>2. /\ queued \in Seq(Entry) /\ (Arrives(u) \/ Loads(u))
        /\ seen \subseteq 1..Now /\ raced \in BOOLEAN
    BY DEF Inv, FeedInv
  <2>3. Len(queued) \in Nat /\ queued[n] \in Entry
    BY <2>2
  <2> QED BY <2>1, <2>2, <2>3
<1>1. /\ s \in [feed : Seq(Nat), seen : SUBSET (1..Now)]
      /\ s.feed \in Seq(Nat) /\ s.seen \subseteq 1..Now /\ Len(s.feed) \in Nat
      /\ Len(s.feed) <= Cap /\ Range(s.feed) \subseteq 1..Now
      /\ seen \subseteq s.seen
  BY DEF Turned
<1>2. u.op = "push" => (Final(n) <=> Final(n - 1))
  <2>1. ASSUME Final(n), u.op = "push", NEW m \in 1..Len(queued), m > n - 1
        PROVE  queued[m].op = "push"
    <3>1. m = n \/ m > n
      BY <1>0, <2>1
    <3> QED BY <2>1, <3>1 DEF Final
  <2>2. ASSUME Final(n - 1), NEW m \in 1..Len(queued), m > n PROVE queued[m].op = "push"
    <3>1. m > n - 1
      BY <1>0, <2>2
    <3> QED BY <2>2, <3>1 DEF Final
  <2> QED BY <2>1, <2>2 DEF Final
<1>3. u.op = "load" => ~Final(n - 1)
  BY <1>0 DEF Final
<1>4. CASE u.op = "load"
  <2>1. Fits(u.items) /\ Range(u.items) \subseteq 1..Now
    BY <1>0, <1>4 DEF Arrives, Loads
  <2>2. t = [s EXCEPT !.feed = u.items]
    BY <1>4 DEF Update
  <2>3. t.feed = u.items /\ t.seen = s.seen /\ t \in [feed : Seq(Nat), seen : SUBSET (1..Now)]
    BY <1>1, <2>1, <2>2 DEF Fits
  <2>4. /\ Range(feed) \subseteq wiped \cup Range(u.items)
        /\ Final(n) => Range(u.items) = seen
    BY <1>4 DEF Inv, QueueInv
  <2>5. ~raced => s.seen = seen
    BY <1>3, <1>4 DEF Turned
  <2> HIDE DEF t, u
  <2> QED BY <1>1, <2>1, <2>3, <2>4, <2>5 DEF Turned, Fits
<1>5. CASE u.op = "push" /\ u.e \in s.seen
  <2>1. t = s
    BY <1>5 DEF Update
  <2> HIDE DEF t, u
  <2> QED BY <1>2, <1>5, <2>1 DEF Turned
<1>6. CASE u.op = "push" /\ u.e \notin s.seen
  <2>1. u.e \in 1..Now /\ u.e \in Nat
    BY <1>0, <1>6 DEF Arrives, Loads
  <2>2. t = [feed |-> Capped(<<u.e>> \o s.feed), seen |-> s.seen \cup {u.e}]
    BY <1>6 DEF Update
  <2> DEFINE g == Capped(<<u.e>> \o s.feed)
  <2>3. /\ g \in Seq(Nat) /\ Len(g) <= Cap
        /\ Range(g) \subseteq Range(s.feed) \cup {u.e}
        /\ Kept(s.feed, g)
        /\ Len(s.feed) = Cap => Len(g) = Cap
        /\ Len(s.feed) < Cap => Range(g) = Range(s.feed) \cup {u.e}
        /\ IsInjective(s.feed) /\ u.e \notin Range(s.feed) => IsInjective(g)
    BY <1>1, <2>1, PushFacts
  <2>4. t.feed = g /\ t.seen = s.seen \cup {u.e} /\ t = [feed |-> g, seen |-> s.seen \cup {u.e}]
    BY <2>2
  <2> HIDE DEF g, t, u
  <2>5. t \in [feed : Seq(Nat), seen : SUBSET (1..Now)] /\ Range(g) \subseteq 1..Now
    BY <1>1, <2>1, <2>3, <2>4
  <2>6. ASSUME Final(n)
        PROVE  /\ IsInjective(g) /\ Range(g) \subseteq s.seen \cup {u.e}
               /\ Len(g) = Cap \/ Range(feed) \subseteq Range(g) \cup wiped
               /\ ~raced /\ Now <= Cap => s.seen \cup {u.e} = Range(g)
    <3>1. /\ IsInjective(s.feed) /\ Range(s.feed) \subseteq s.seen
          /\ Len(s.feed) = Cap \/ Range(feed) \subseteq Range(s.feed) \cup wiped
          /\ ~raced /\ Now <= Cap => s.seen = Range(s.feed)
      BY <1>2, <1>6, <2>6 DEF Turned
    <3>2. u.e \notin Range(s.feed)
      BY <1>6, <3>1
    <3>3. ASSUME Now <= Cap PROVE Len(s.feed) < Cap
      <4>1. IsFiniteSet(Range(s.feed)) /\ Cardinality(Range(s.feed)) = Len(s.feed)
        BY <1>1, <3>1, LengthOfRange
      <4>2. Cardinality(Range(s.feed) \cup {u.e}) = Len(s.feed) + 1
        BY <3>2, <4>1, FS_AddElement
      <4>3. Range(s.feed) \cup {u.e} \in SUBSET (1..Now)
        BY <1>1, <2>1
      <4>4. Cardinality(Range(s.feed) \cup {u.e}) <= Now
        BY <1>0, <4>3, FiniteEvents
      <4> QED BY <1>0, <1>1, <3>3, <4>2, <4>4
    <3> QED BY <2>3, <3>1, <3>2, <3>3 DEF Kept
  <2>7. ~raced => Final(n)
    <3> SUFFICES ASSUME ~raced, ~Final(n) PROVE FALSE
      OBVIOUS
    <3>1. PICK m \in 1..Len(queued) : m > n /\ queued[m].op # "push"
      BY DEF Final
    <3>2. queued[m].op = "load"
      BY <3>1 DEF Inv, FeedInv, Arrives, Loads
    <3>3. u.e \in seen
      BY <1>0, <1>6, <3>1, <3>2 DEF Inv, QueueInv, u
    <3> QED BY <1>1, <1>6, <3>3
  <2> QED BY <1>1, <2>3, <2>4, <2>5, <2>6, <2>7 DEF Turned
<1>7. u.op = "push" \/ u.op = "load"
  BY <1>0 DEF Arrives, Loads
<1> QED BY <1>4, <1>5, <1>6, <1>7

LEMMA RenderFacts ==
    ASSUME Inv, page = "activity"
    PROVE  LET s == Updated([feed |-> feed, seen |-> seen], queued)
           IN  Fits(s.feed) /\ Turned(s, Len(queued)) /\ Final(Len(queued))
<1> DEFINE s == [feed |-> feed, seen |-> seen]
           after == Updates(s, queued)
           N == Len(queued)
           Bad == {n \in 0..N : ~ Turned(after[n], n)}
<1>0. N \in Nat
  BY DEF Inv, FeedInv
<1>1. after[0] = s /\ \A n \in 1..N : after[n] = Update(after[n - 1], queued[n])
  <2> HIDE DEF s
  <2> QED BY <1>0, UpdateSteps
<1>2. Updated(s, queued) = after[N]
  BY DEF Updated, Updates
<1>3. Turned(s, 0)
  <2>1. /\ Fits(feed) /\ Range(feed) \subseteq 1..Now /\ seen \subseteq 1..Now
    BY DEF Inv, FeedInv
  <2>2. /\ Final(0) => Range(feed) \subseteq seen
        /\ ~raced /\ Now <= Cap /\ Final(0) => Range(feed) = seen
    BY DEF Inv, QueueInv
  <2>3. s.feed = feed /\ s.seen = seen /\ s \in [feed : Seq(Nat), seen : SUBSET (1..Now)]
    BY <2>1 DEF Fits
  <2> HIDE DEF s
  <2> QED BY <2>1, <2>2, <2>3 DEF Turned, Fits
<1> HIDE DEF s, after
<1>4. Bad = {}
  <2> SUFFICES ASSUME Bad # {} PROVE FALSE
    OBVIOUS
  <2>1. PICK m \in Bad : \A k \in Bad : m <= k
    <3>1. Bad \in SUBSET Nat
      BY <1>0
    <3> QED BY <3>1, LeastNatural
  <2>2. m # 0 /\ m \in 1..N /\ m - 1 \in 0..N /\ ~(m <= m - 1)
    BY <1>0, <1>1, <1>3, <2>1
  <2>3. Turned(after[m - 1], m - 1)
    BY <2>1, <2>2
  <2> QED BY <1>1, <2>1, <2>2, <2>3, UpdateTurns
<1>5. Turned(after[N], N)
  BY <1>0, <1>4
<1>6. Final(N)
  BY <1>0 DEF Final
<1>7. Fits(after[N].feed)
  BY <1>5, <1>6 DEF Turned, Fits
<1> QED BY <1>2, <1>5, <1>6, <1>7 DEF s

-----------------------------------------------------------------------------
(* Steps. *)

LEMMA SameNow == ASSUME log' = log, page' = page PROVE Now' = Now /\ Relevant' = Relevant
  BY DEF Now, Relevant, isBoardRelevantActivity

LEMMA ListFacts ==
    ASSUME NEW n PROVE Listed(n) \subseteq 1..Now /\ (page = "board" => Listed(n) \subseteq Relevant)
  BY DEF Listed, Newest, Relevant

LEMMA ReadFacts ==
    ASSUME Inv
    PROVE  /\ Idle \in History /\ Sent \in History /\ Sent \in Poll /\ SseOff \in Stream
           /\ Connect \in Stream /\ Idle.ans = {} /\ Sent.ans = {} /\ Now \in Nat
<1>0. Now \in Nat
  BY LogFacts DEF Inv
<1>1. Since \in 0..Now
  <2> DEFINE T == {0} \cup {e \in Range(feed) : page = "board" \/ log[e] = "task"}
  <2>1. T \in SUBSET (0..Now) /\ T # {}
    BY <1>0 DEF Inv, FeedInv
  <2> HIDE DEF T
  <2>2. Max(T) \in 0..Now
    BY <1>0, <2>1, MaxMember
  <2> QED BY <2>2 DEF Since, T
<1> QED BY <1>0, <1>1 DEF Idle, Sent, SseOff, Connect, History, Poll, Stream

(* A step that touches neither the feed nor what goes with it. *)
LEMMA QuietStep ==
    ASSUME Inv, ReadsInv', UNCHANGED <<page, log, feed, seen, queued, wiped, raced>>
    PROVE  Inv'
<1>1. Now' = Now /\ Relevant' = Relevant
  BY SameNow
<1>2. FeedInv'
  BY <1>1 DEF Inv, FeedInv, Fits, Entry, Arrives, Loads, Range, IsInjective
<1>3. QueueInv'
  BY <1>1 DEF Inv, QueueInv, Final
<1> QED BY <1>2, <1>3 DEF Inv

(* A step of the board's page that pushes items. *)
LEMMA BoardStep ==
    ASSUME Inv, page = "board", ReadsInv', UNCHANGED <<page, log, seen, queued, wiped, raced>>,
           NEW f, feed' = f, Fits(f), Range(f) \subseteq Relevant
    PROVE  Inv'
<1>1. Now' = Now /\ Relevant' = Relevant /\ Relevant \subseteq 1..Now
  BY SameNow DEF Relevant
<1>2. FeedInv'
  BY <1>1 DEF Inv, FeedInv, Fits, Entry, Arrives, Loads, Range, IsInjective
<1>3. QueueInv'
  BY DEF QueueInv
<1> QED BY <1>2, <1>3 DEF Inv

LEMMA InitInv == Init => Inv
<1> SUFFICES ASSUME Init PROVE Inv
  OBVIOUS
<1>1. /\ page \in Pages /\ log = <<>> /\ feed = <<>> /\ seen = {} /\ queued = <<>>
      /\ wiped = {} /\ raced = FALSE /\ missed = {} /\ polls = {} /\ open \in BOOLEAN
      /\ (hist = Sent \/ hist = Idle) /\ sse = SseOff /\ fed = Now
  BY DEF Init
<1>2. log \in BoundedSeq(KindsOf(page), MaxEvents)
  <2>1. <<>> \in [1..0 -> KindsOf(page)]
    <3>1. <<>> \in Seq(KindsOf(page)) /\ Len(<<>>) = 0
      OBVIOUS
    <3> QED BY <3>1, LenProperties, Zenon
  <2>2. 0 \in 0..MaxEvents
    BY LimitsAssumption
  <2> QED BY <1>1, <2>1, <2>2 DEF BoundedSeq, SeqOf
<1>3. <<>> \in Seq(Entry) /\ Len(<<>>) = 0 /\ <<>> \in Seq(Nat) /\ Cap \in Nat /\ 1..0 = {}
  BY LimitsAssumption
<1>4. Range(<<>>) = {} /\ IsInjective(<<>>)
  <2>1. \A e : e \notin Range(<<>>)
    BY <1>3, RangeFacts, Zenon
  <2>2. IsInjective(<<>>)
    BY <1>3, RangeFacts, Zenon
  <2> QED BY <2>1, <2>2
<1>5. Fits(<<>>)
  BY <1>3, <1>4 DEF Fits
<1>6. FeedInv
  BY <1>1, <1>2, <1>3, <1>4, <1>5 DEF FeedInv
<1>7. Now = 0
  BY <1>1, <1>3 DEF Now
<1>8. ReadsInv
  BY <1>1, <1>7 DEF ReadsInv, Sent, Idle, SseOff, History, Stream
<1>9. QueueInv
  BY <1>1, <1>3, <1>4 DEF QueueInv
<1> QED BY <1>6, <1>8, <1>9 DEF Inv

LEMMA EmitInv == ASSUME Inv, NEW k \in KindsOf(page), Emit(k) PROVE Inv'
<1>0. /\ Now \in Nat /\ log \in Seq(KindsOf(page)) /\ Now < MaxEvents /\ MaxEvents \in Nat
      /\ log' = Append(log, k) /\ Len(log) = Now
      /\ UNCHANGED <<page, feed, seen, queued, open, hist, polls, sse, fed, past, toggles, faults>>
  BY LogFacts, LimitsAssumption DEF Inv, Emit, Now
<1>1. /\ log' \in Seq(KindsOf(page)) /\ Len(log') = Now + 1
      /\ \A e \in 1..Now : log'[e] = log[e]
  BY <1>0
<1>2. Now' = Now + 1 /\ 1..Now \subseteq 1..Now' /\ 0..Now \subseteq 0..Now'
  BY <1>0, <1>1 DEF Now
<1>3. Relevant \subseteq Relevant'
  BY <1>1, <1>2 DEF Relevant, isBoardRelevantActivity
<1>4. log' \in BoundedSeq(KindsOf(page'), MaxEvents)
  <2>1. log' \in [1..Now' -> KindsOf(page)] /\ Now' \in 0..MaxEvents
    <3>1. log' \in [1..Len(log') -> KindsOf(page)]
      BY <1>1, LenProperties, Zenon
    <3> QED BY <1>0, <1>1, <1>2, <3>1
  <2>2. log' \in UNION {[1..m -> KindsOf(page)] : m \in 0..MaxEvents}
    BY <2>1
  <2>3. log' \in UNION {[1..m -> KindsOf(page')] : m \in 0..MaxEvents}
    BY <1>0, <2>2
  <2> QED BY <2>3 DEF BoundedSeq, SeqOf
<1>5. queued' \in Seq(Entry')
  <2>1. Entry \subseteq Entry'
    BY <1>2 DEF Entry
  <2>2. queued \in Seq(Entry)
    BY DEF Inv, FeedInv
  <2>3. \A T : Entry \subseteq T => queued \in Seq(T)
    BY <2>2, SeqMonotonic
  <2> QED BY <1>0, <2>1, <2>3
<1>6. FeedInv'
  <2>1. /\ page' \in Pages /\ seen' \subseteq 1..Now' /\ wiped' \subseteq 1..Now' /\ raced' \in BOOLEAN
        /\ Range(feed') \subseteq 1..Now' /\ (page' = "board" => Range(feed') \subseteq Relevant')
        /\ (page' # "activity" => queued' = <<>>)
    BY <1>0, <1>2, <1>3 DEF Inv, FeedInv, past
  <2>2. Fits(feed')
    BY <1>0 DEF Inv, FeedInv
  <2>3. \A n \in 1..Len(queued) : (Arrives(queued[n]) => Arrives(queued[n])') /\ (Loads(queued[n]) => Loads(queued[n])')
    BY <1>0, <1>2 DEF Arrives, Loads, Fits, Range, IsInjective
  <2>4. \A n \in 1..Len(queued') : Arrives(queued[n])' \/ Loads(queued[n])'
    BY <1>0, <2>3 DEF Inv, FeedInv
  <2> QED BY <1>4, <1>5, <2>1, <2>2, <2>4 DEF FeedInv, Fits, Range, IsInjective
<1>7. ReadsInv'
  BY <1>0, <1>2, <1>3 DEF Inv, ReadsInv, History, Poll, Stream, past
<1>8. QueueInv'
  <2>1. Now' <= Cap => Now <= Cap
    BY <1>0, <1>2, LimitsAssumption
  <2> QED BY <1>0, <2>1 DEF Inv, QueueInv, Final, past
<1> QED BY <1>6, <1>7, <1>8 DEF Inv

(* Requests, timers, connections and errors. *)
Quietly ==
    \/ openLiveFeed \/ closeLiveFeed \/ ReadHistory \/ HistoryFails \/ PollTick
    \/ (\E p \in polls : ReadPoll(p)) \/ (\E p \in polls : PollFails(p))
    \/ Accept \/ StreamBreaks \/ Reconnect \/ LoadBoards \/ Rename

LEMMA QuietInv == ASSUME Inv, Quietly PROVE Inv'
<1>0. /\ hist \in History /\ polls \in SUBSET Poll /\ sse \in Stream
      /\ fed \in 0..Now /\ open \in BOOLEAN /\ missed \subseteq 1..Now
      /\ page = "board" => hist.ans \subseteq Relevant /\ \A p \in polls : p.ans \subseteq Relevant
      /\ page # "board" => polls = {}
  BY DEF Inv, ReadsInv
<1>f. /\ Idle \in History /\ Sent \in History /\ Sent \in Poll /\ SseOff \in Stream
      /\ Connect \in Stream /\ Idle.ans = {} /\ Sent.ans = {} /\ Now \in Nat
  BY ReadFacts
<1>k. UNCHANGED <<page, log, feed, seen, queued, wiped, raced>>
  BY DEF Quietly, openLiveFeed, closeLiveFeed, ReadHistory, HistoryFails, PollTick, ReadPoll,
         PollFails, Accept, StreamBreaks, Reconnect, LoadBoards, Rename, past
<1>n. Now' = Now /\ Relevant' = Relevant
  BY <1>k, SameNow
<1>1. ASSUME hist' \in History, polls' \in SUBSET Poll, sse' \in Stream, fed' = fed, open' \in BOOLEAN,
             missed' \subseteq 1..Now,
             page = "board" => hist'.ans \subseteq Relevant /\ \A p \in polls' : p.ans \subseteq Relevant,
             page # "board" => polls' = {}
      PROVE  Inv'
  <2>1. ReadsInv'
    BY <1>0, <1>1, <1>k, <1>n DEF ReadsInv, History, Poll, Stream
  <2> QED BY <2>1, <1>k, QuietStep
<1>2. ASSUME openLiveFeed PROVE Inv'
  BY <1>0, <1>1, <1>2, <1>f DEF openLiveFeed, past
<1>3. ASSUME closeLiveFeed PROVE Inv'
  BY <1>0, <1>1, <1>3, <1>f DEF closeLiveFeed, past
<1>4. ASSUME ReadHistory PROVE Inv'
  <2>1. hist' \in History /\ hist'.ans = Listed(HistLimit)
    BY <1>4, ListFacts DEF ReadHistory, History
  <2> QED BY <1>0, <1>1, <1>4, <2>1, ListFacts DEF ReadHistory, past
<1>5. ASSUME HistoryFails PROVE Inv'
  <2>1. hist' \in History /\ hist'.ans = {}
    BY <1>5 DEF HistoryFails, History
  <2> QED BY <1>0, <1>1, <1>5, <2>1 DEF HistoryFails, past
<1>6. ASSUME PollTick PROVE Inv'
  BY <1>0, <1>1, <1>6, <1>f DEF PollTick, past
<1>7. ASSUME NEW p \in polls, ReadPoll(p) PROVE Inv'
  <2> DEFINE a == [st |-> "read", ans |-> Listed(PollLimit)]
  <2>1. a \in Poll /\ a.ans = Listed(PollLimit)
    BY ListFacts DEF Poll
  <2>2. polls' = (polls \ {p}) \cup {a}
    BY <1>7 DEF ReadPoll
  <2> HIDE DEF a
  <2> QED BY <1>0, <1>1, <1>7, <2>1, <2>2, ListFacts DEF ReadPoll, past
<1>8. ASSUME NEW p \in polls, PollFails(p) PROVE Inv'
  BY <1>0, <1>1, <1>8 DEF PollFails, past
<1>9. ASSUME Accept PROVE Inv'
  <2>1. sse.last \in 0..Now /\ (sse.last # 0 => sse.last - 1 \in 0..Now)
    BY <1>0, <1>f DEF Stream
  <2>2. sse' \in Stream
    BY <1>9, <1>f, <2>1 DEF Accept, Stream
  <2>3. missed' \subseteq 1..Now
    BY <1>0, <1>9 DEF Accept
  <2> QED BY <1>0, <1>1, <1>9, <2>2, <2>3 DEF Accept
<1>10. ASSUME StreamBreaks PROVE Inv'
  <2>1. sse' \in Stream
    BY <1>10, <1>f DEF StreamBreaks, Stream
  <2> QED BY <1>0, <1>1, <1>10, <2>1 DEF StreamBreaks, past
<1>11. ASSUME Reconnect PROVE Inv'
  BY <1>0, <1>1, <1>11, <1>f DEF Reconnect, past
<1>12. ASSUME LoadBoards PROVE Inv'
  <2>1. hist' \in History /\ hist'.ans = hist.ans
    BY <1>0, <1>12 DEF LoadBoards, History
  <2> QED BY <1>0, <1>1, <1>12, <1>f, <2>1 DEF LoadBoards, past
<1>13. ASSUME Rename PROVE Inv'
  BY <1>0, <1>1, <1>13, <1>f DEF Rename, past
<1> QED BY <1>2, <1>3, <1>4, <1>5, <1>6, <1>7, <1>8, <1>9, <1>10, <1>11, <1>12, <1>13 DEF Quietly

(* The feed of the board. *)
LEMMA OneEvent == ASSUME NEW e \in 1..Now, Inv, log[e] # "foreign" PROVE e \in Relevant /\ e \in Nat
<1>1. Now \in Nat
  BY ReadFacts
<1> QED BY <1>1 DEF Relevant, isBoardRelevantActivity

LEMMA RelevantSets ==
    ASSUME Inv, NEW S \in SUBSET Relevant
    PROVE  S \in SUBSET Nat /\ IsFiniteSet(S)
<1>1. Now \in Nat /\ S \in SUBSET (1..Now)
  BY ReadFacts DEF Relevant
<1> QED BY <1>1, FiniteEvents

BoardFeed(f) == Fits(f) /\ Range(f) \subseteq Relevant /\ Kept(feed, f)

LEMMA TaskStreamFeeds ==
    ASSUME Inv, TaskStreamEvent PROVE ReadsInv' /\ page = "board" /\ BoardFeed(feed')
<1>0. Inv /\ Now \in Nat /\ fed \in 0..Now /\ Fits(feed) /\ page = "board"
      /\ Range(feed) \subseteq Relevant
  BY ReadFacts DEF Inv, ReadsInv, FeedInv, TaskStreamEvent
<1> DEFINE T == {e \in (fed + 1)..Now : log[e] = "task"}
<1>1. T \in SUBSET Nat /\ T # {}
  BY <1>0 DEF TaskStreamEvent
<1>2. fed' = Min(T) /\ feed' = pushLiveFeed(feed, fed')
  BY DEF TaskStreamEvent
<1>3. Min(T) \in T
  BY <1>1, MinMember
<1>4. fed' \in 1..Now /\ log[fed'] = "task"
  BY <1>0, <1>2, <1>3
<1>5. fed' \in Relevant /\ fed' \in Nat
  BY <1>0, <1>4, OneEvent
<1>6. BoardFeed(feed')
  <2>1. PICK e : e = fed'
    OBVIOUS
  <2>2. e \in Nat /\ e \in Relevant /\ feed' = pushLiveFeed(feed, e)
    BY <1>2, <1>5, <2>1
  <2> QED BY <1>0, <2>2, PushFits DEF BoardFeed
<1>7. ReadsInv'
  <2>1. Now' = Now /\ Relevant' = Relevant
    BY SameNow DEF TaskStreamEvent
  <2>2. fed' \in 0..Now
    BY <1>0, <1>4
  <2> HIDE DEF T
  <2> QED BY <1>0, <2>1, <2>2, ReadFacts DEF TaskStreamEvent, Inv, ReadsInv, History, Poll, Stream, past
<1> QED BY <1>0, <1>6, <1>7

LEMMA HistoryFeeds ==
    ASSUME Inv, HistoryAnswered PROVE ReadsInv' /\ page = "board" /\ BoardFeed(feed')
<1>0. page = "board" /\ Fits(feed) /\ Range(feed) \cup hist.ans \in SUBSET Relevant
  BY DEF Inv, ReadsInv, FeedInv, HistoryAnswered
<1> DEFINE S == Range(feed) \cup hist.ans
           d == Descending(S)
<1>1. S \in SUBSET Nat /\ IsFiniteSet(S)
  BY <1>0, RelevantSets
<1>2. feed' = Capped(d)
  BY DEF HistoryAnswered, fetchHistory
<1>3. d \in Seq(Nat) /\ IsInjective(d) /\ Range(d) = S
  <2> HIDE DEF S
  <2> QED BY <1>1, DescendingFacts
<1> HIDE DEF d
<1>4. Fits(Capped(d)) /\ Range(Capped(d)) \subseteq S /\ Kept(d, Capped(d))
  BY <1>3, CappedFits
<1>5. BoardFeed(feed')
  BY <1>0, <1>2, <1>3, <1>4 DEF BoardFeed, Kept
<1>6. ReadsInv'
  <2>1. Now' = Now /\ Relevant' = Relevant
    BY SameNow DEF HistoryAnswered
  <2>2. hist' \in History /\ hist'.ans = {}
    BY DEF HistoryAnswered, History
  <2> QED BY <1>0, <2>1, <2>2 DEF HistoryAnswered, Inv, ReadsInv, History, Poll, Stream, past
<1> QED BY <1>0, <1>5, <1>6

LEMMA PollFeeds ==
    ASSUME Inv, NEW p \in polls, PollAnswered(p)
    PROVE  ReadsInv' /\ page = "board" /\ BoardFeed(feed')
<1>0. page = "board" /\ Fits(feed) /\ Range(feed) \subseteq Relevant /\ p.ans \in SUBSET Relevant
  BY DEF Inv, ReadsInv, FeedInv
<1>1. p.ans \in SUBSET Nat /\ IsFiniteSet(p.ans)
  BY <1>0, RelevantSets
<1>2. BoardFeed(pollGenericActivity(feed, p.ans))
  BY <1>0, <1>1, PollFacts DEF BoardFeed
<1>3. ReadsInv'
  <2>1. Now' = Now /\ Relevant' = Relevant
    BY SameNow DEF PollAnswered
  <2> QED BY <1>0, <2>1 DEF PollAnswered, Inv, ReadsInv, History, Poll, Stream, past
<1> QED BY <1>0, <1>2, <1>3 DEF PollAnswered

(* The next event of a stream. *)
LEMMA NextEvent ==
    ASSUME Inv, StreamEvent
    PROVE  \E e \in 1..Now :
             /\ Streamed(e) /\ sse' = [sse EXCEPT !.last = e]
             /\ feed' = IF page = "board" THEN pushLiveFeed(feed, e) ELSE feed
             /\ queued' = IF page = "activity" THEN Append(queued, pushFeedItem(e)) ELSE queued
<1> DEFINE T == {d \in (sse.last + 1)..Now : Streamed(d)}
<1>0. Now \in Nat /\ sse.last \in 0..Now
  BY ReadFacts DEF Inv, ReadsInv, Stream
<1>1. T \in SUBSET Nat /\ T # {}
  BY <1>0 DEF StreamEvent
<1>2. Min(T) \in T
  BY <1>1, MinMember
<1>3. Min(T) \in 1..Now /\ Streamed(Min(T))
  BY <1>0, <1>2
<1>4. /\ sse' = [sse EXCEPT !.last = Min(T)]
      /\ feed' = IF page = "board" THEN pushLiveFeed(feed, Min(T)) ELSE feed
      /\ queued' = IF page = "activity" THEN Append(queued, pushFeedItem(Min(T))) ELSE queued
  BY DEF StreamEvent
<1> HIDE DEF T
<1> QED BY <1>3, <1>4

LEMMA StreamReads == ASSUME Inv, StreamEvent PROVE ReadsInv'
<1>1. PICK e \in 1..Now : sse' = [sse EXCEPT !.last = e]
  BY NextEvent
<1>2. Now' = Now /\ Relevant' = Relevant
  BY SameNow DEF StreamEvent
<1>3. sse' \in Stream
  BY <1>1, ReadFacts DEF Inv, ReadsInv, Stream
<1> QED BY <1>2, <1>3 DEF StreamEvent, Inv, ReadsInv, History, Poll, Stream, past

LEMMA StreamFeeds ==
    ASSUME Inv, StreamEvent, page = "board" PROVE BoardFeed(feed')
<1>1. PICK e \in 1..Now : Streamed(e) /\ feed' = pushLiveFeed(feed, e)
  BY NextEvent
<1>2. log[e] # "foreign"
  BY <1>1 DEF Streamed
<1>3. e \in Relevant /\ e \in Nat
  BY <1>2, OneEvent
<1>4. Fits(feed) /\ Range(feed) \subseteq Relevant
  BY DEF Inv, FeedInv
<1> QED BY <1>1, <1>3, <1>4, PushFits DEF BoardFeed

(* A stream of the activity page hands its event to React. *)
LEMMA StreamQueues ==
    ASSUME Inv, StreamEvent, page = "activity" PROVE Inv'
<1>1. PICK e \in 1..Now : queued' = Append(queued, pushFeedItem(e)) /\ feed' = feed
  BY NextEvent
<1>k. UNCHANGED <<page, log, seen, wiped, raced>>
  BY DEF StreamEvent, past
<1>n. Now' = Now /\ Relevant' = Relevant /\ Now \in Nat
  BY <1>k, SameNow, ReadFacts
<1> DEFINE u == pushFeedItem(e)
           N == Len(queued)
<1>2. u \in Entry /\ u.op = "push" /\ u.e = e
  <2>1. <<>> \in Seq(Nat) /\ e \in 0..Now
    BY <1>n
  <2> QED BY <2>1 DEF pushFeedItem, Entry
<1> HIDE DEF u
<1>3. /\ queued \in Seq(Entry) /\ N \in Nat
      /\ \A n \in 1..N : Arrives(queued[n]) \/ Loads(queued[n])
  BY DEF Inv, FeedInv
<1>4. /\ queued' \in Seq(Entry) /\ Len(queued') = N + 1 /\ queued'[N + 1] = u
      /\ \A n \in 1..N : queued'[n] = queued[n]
  BY <1>1, <1>2, <1>3 DEF u
<1>5. \A n \in 1..Len(queued') : n \in 1..N \/ n = N + 1
  BY <1>3, <1>4
<1>6. FeedInv'
  <2>1. Arrives(u)
    BY <1>2 DEF Arrives
  <2>2. ASSUME NEW n \in 1..Len(queued')
        PROVE  Arrives(queued'[n]) \/ Loads(queued'[n])
    BY <1>3, <1>4, <1>5, <2>1
  <2>3. \A n \in 1..Len(queued') : Arrives(queued[n])' \/ Loads(queued[n])'
    BY <2>2, <1>n DEF Arrives, Loads, Fits, Range, IsInjective
  <2>4. Fits(feed)' /\ Range(feed)' = Range(feed) /\ Entry' = Entry
    BY <1>1, <1>n DEF Inv, FeedInv, Fits, Range, IsInjective, Entry
  <2> QED BY <1>k, <1>n, <1>4, <2>3, <2>4 DEF Inv, FeedInv
<1>7. QueueInv'
  <2>1. ASSUME NEW n \in 0..N PROVE Final(n)' <=> Final(n)
    <3>1. ASSUME Final(n), NEW m \in 1..Len(queued'), m > n PROVE queued'[m].op = "push"
      BY <1>2, <1>4, <1>5, <3>1 DEF Final
    <3>2. ASSUME Final(n)', NEW m \in 1..N, m > n PROVE queued[m].op = "push"
      <4>1. m \in 1..Len(queued') /\ queued'[m] = queued[m]
        BY <1>3, <1>4
      <4> QED BY <3>2, <4>1 DEF Final
    <3> QED BY <3>1, <3>2 DEF Final
  <2>2. ASSUME NEW n \in 1..Len(queued'), queued'[n].op = "load"
        PROVE  n \in 1..N /\ queued'[n] = queued[n]
    BY <1>2, <1>4, <1>5, <2>2
  <2>3. ASSUME NEW n \in 1..Len(queued'), queued'[n].op = "load"
        PROVE  /\ Range(feed') \subseteq wiped' \cup Range(queued'[n].items)
               /\ Final(n)' => Range(queued'[n].items) = seen'
    <3>1. n \in 1..N /\ queued'[n] = queued[n] /\ queued[n].op = "load" /\ n \in 0..N
      BY <1>3, <2>2, <2>3
    <3>2. /\ Range(feed) \subseteq wiped \cup Range(queued[n].items)
          /\ Final(n) => Range(queued[n].items) = seen
      BY <3>1 DEF Inv, QueueInv
    <3> QED BY <1>1, <1>k, <2>1, <3>1, <3>2
  <2>4. ASSUME ~raced, NEW m \in 1..Len(queued'), NEW n \in 1..Len(queued'), m < n,
               queued'[m].op = "push", queued'[n].op = "load"
        PROVE  queued'[m].e \in seen
    <3>1. n \in 1..N /\ queued'[n] = queued[n] /\ m \in 1..N
      BY <1>3, <1>4, <2>2, <2>4
    <3>2. queued'[m] = queued[m]
      BY <1>4, <3>1
    <3> QED BY <2>4, <3>1, <3>2 DEF Inv, QueueInv
  <2>5. /\ Final(0)' => Range(feed') \subseteq seen'
        /\ ~raced' /\ Now' <= Cap /\ Final(0)' => Range(feed') = seen'
    BY <1>1, <1>3, <1>k, <1>n, <2>1 DEF Inv, QueueInv
  <2> QED BY <1>k, <2>3, <2>4, <2>5 DEF QueueInv
<1> QED BY <1>6, <1>7, StreamReads DEF Inv

LEMMA StreamInv == ASSUME Inv, StreamEvent PROVE Inv'
<1>1. CASE page = "board"
  <2>1. queued' = queued
    BY <1>1, NextEvent
  <2>2. BoardFeed(feed') /\ ReadsInv'
    BY <1>1, StreamFeeds, StreamReads
  <2> QED BY <1>1, <2>1, <2>2, BoardStep DEF StreamEvent, BoardFeed, past
<1>2. CASE page = "activity"
  BY <1>2, StreamQueues
<1>3. CASE page # "board" /\ page # "activity"
  <2>1. queued' = queued /\ feed' = feed
    BY <1>3, NextEvent
  <2> QED BY <2>1, StreamReads, QuietStep DEF StreamEvent, past
<1> QED BY <1>1, <1>2, <1>3

(* A load is marked as seen at once and waits for React. *)
LEMMA LoadInv == ASSUME Inv, loadInitial PROVE Inv'
<1> DEFINE next == Capped(Descending(hist.ans))
           u == setFeedItems(next)
           N == Len(queued)
<1>k. /\ page = "activity" /\ UNCHANGED <<page, log, feed, open, polls, sse, fed, missed>>
      /\ hist' = [st |-> "done", ans |-> {}]
  BY DEF loadInitial
<1>n. Now' = Now /\ Relevant' = Relevant /\ Now \in Nat
  BY <1>k, SameNow, ReadFacts
<1>1. Fits(next) /\ Range(next) \subseteq 1..Now
  <2>1. hist.ans \in SUBSET Nat /\ IsFiniteSet(hist.ans) /\ hist.ans \subseteq 1..Now
    <3>1. hist.ans \in SUBSET (1..Now)
      BY DEF Inv, ReadsInv, History
    <3> QED BY <1>n, <3>1, FiniteEvents
  <2> DEFINE d == Descending(hist.ans)
  <2>2. d \in Seq(Nat) /\ IsInjective(d) /\ Range(d) = hist.ans
    BY <2>1, DescendingFacts
  <2> HIDE DEF d
  <2>3. Fits(Capped(d)) /\ Range(Capped(d)) \subseteq Range(d)
    BY <2>2, CappedFits
  <2> QED BY <2>1, <2>2, <2>3 DEF d
<1>2. /\ queued' = Append(queued, u) /\ seen' = Range(next)
      /\ \A n \in 1..N : queued[n].e # 0 /\ raced' = FALSE => queued[n].e \in Range(next)
      /\ Range(feed) \subseteq wiped' \cup Range(next) /\ wiped \subseteq wiped'
      /\ wiped' \subseteq 1..Now /\ raced' \in BOOLEAN
  <2> DEFINE waiting == {queued[n].e : n \in DOMAIN queued} \ {0}
             held == Range(feed) \cup waiting
  <2>1. /\ queued' = Append(queued, u) /\ seen' = Range(next)
        /\ wiped' = wiped \cup (held \ Range(next))
        /\ raced' = (raced \/ waiting \ Range(next) # {})
    BY DEF loadInitial
  <2>2. queued \in Seq(Entry) /\ DOMAIN queued = 1..N /\ \A n \in 1..N : queued[n] \in Entry
    BY DEF Inv, FeedInv
  <2>3. \A n \in 1..N : queued[n].e \in 0..Now /\ (queued[n].e # 0 => queued[n].e \in waiting)
    BY <2>2 DEF Entry
  <2>4. waiting \subseteq 1..Now
    <3>1. ASSUME NEW x \in waiting PROVE x \in 1..Now
      <4>1. x \in 0..Now /\ x # 0
        BY <2>2, <2>3
      <4> QED BY <1>n, <4>1
    <3> QED BY <3>1
  <2> HIDE DEF next, waiting
  <2>5. held \subseteq 1..Now /\ wiped \subseteq 1..Now /\ raced \in BOOLEAN
    BY <2>4 DEF Inv, FeedInv
  <2> QED BY <2>1, <2>3, <2>5
<1> HIDE DEF next
<1>3. u \in Entry /\ u.op = "load" /\ u.items = next
  <2>1. next \in Seq(Nat) /\ 0 \in 0..Now
    BY <1>1, <1>n DEF Fits
  <2> QED BY <2>1 DEF setFeedItems, Entry
<1> HIDE DEF u
<1>4. /\ queued \in Seq(Entry) /\ N \in Nat
      /\ \A n \in 1..N : Arrives(queued[n]) \/ Loads(queued[n])
      /\ \A n \in 1..N : queued[n] \in Entry
  BY DEF Inv, FeedInv
<1>5. /\ queued' \in Seq(Entry) /\ Len(queued') = N + 1 /\ queued'[N + 1] = u
      /\ \A n \in 1..N : queued'[n] = queued[n]
  BY <1>2, <1>3, <1>4 DEF u
<1>6. \A n \in 1..Len(queued') : n \in 1..N \/ n = N + 1
  BY <1>4, <1>5
<1>7. FeedInv'
  <2>1. Loads(u)
    BY <1>1, <1>3 DEF Loads
  <2>2. ASSUME NEW n \in 1..Len(queued')
        PROVE  Arrives(queued'[n]) \/ Loads(queued'[n])
    BY <1>4, <1>5, <1>6, <2>1
  <2>3. \A n \in 1..Len(queued') : Arrives(queued[n])' \/ Loads(queued[n])'
    BY <2>2, <1>n DEF Arrives, Loads, Fits, Range, IsInjective
  <2>4. Fits(feed)' /\ Range(feed)' = Range(feed) /\ Entry' = Entry
    BY <1>k, <1>n DEF Inv, FeedInv, Fits, Range, IsInjective, Entry
  <2>5. seen' \subseteq 1..Now'
    BY <1>1, <1>2, <1>n
  <2> QED BY <1>k, <1>n, <1>2, <1>5, <2>3, <2>4, <2>5 DEF Inv, FeedInv
<1>8. ReadsInv'
  <2>1. hist' \in History /\ hist'.ans = {}
    BY <1>k DEF History
  <2> QED BY <1>k, <1>n, <2>1 DEF Inv, ReadsInv, History, Poll, Stream
<1>9. QueueInv'
  <2>1. \A n \in 0..N : ~ Final(n)'
    <3>1. N + 1 \in 1..Len(queued') /\ \A n \in 0..N : N + 1 > n
      BY <1>4, <1>5
    <3> QED BY <1>3, <1>5, <3>1 DEF Final
  <2>2. ASSUME NEW n \in 1..Len(queued'), queued'[n].op = "load"
        PROVE  /\ Range(feed') \subseteq wiped' \cup Range(queued'[n].items)
               /\ Final(n)' => Range(queued'[n].items) = seen'
    <3>1. CASE n = N + 1
      BY <1>2, <1>3, <1>5, <1>k, <3>1
    <3>2. CASE n \in 1..N
      <4>1. queued'[n] = queued[n] /\ queued[n].op = "load" /\ n \in 0..N
        BY <1>4, <1>5, <2>2, <3>2
      <4>2. Range(feed) \subseteq wiped \cup Range(queued[n].items)
        BY <1>k, <3>2, <4>1 DEF Inv, QueueInv
      <4> QED BY <1>2, <1>k, <2>1, <4>1, <4>2
    <3> QED BY <1>6, <3>1, <3>2
  <2>3. ASSUME ~raced', NEW m \in 1..Len(queued'), NEW n \in 1..Len(queued'), m < n,
               queued'[m].op = "push", queued'[n].op = "load"
        PROVE  queued'[m].e \in seen'
    <3>1. m \in 1..N
      BY <1>3, <1>5, <1>6, <2>3
    <3>2. queued'[m] = queued[m] /\ queued[m].e # 0
      BY <1>4, <1>5, <1>n, <2>3, <3>1 DEF Arrives, Loads
    <3>3. raced' = FALSE
      BY <1>2, <2>3
    <3> QED BY <1>2, <3>1, <3>2, <3>3
  <2>4. 0 \in 0..N
    BY <1>4
  <2>5. ~ Final(0)'
    BY <2>1, <2>4
  <2> QED BY <1>k, <2>2, <2>3, <2>5 DEF QueueInv
<1> QED BY <1>7, <1>8, <1>9 DEF Inv

(* React runs the queue. *)
LEMMA Rendered ==
    ASSUME Inv, Render
    PROVE  /\ page = "activity" /\ queued' = <<>> /\ Fits(feed')
           /\ Range(feed') \subseteq seen' /\ seen' \subseteq 1..Now
           /\ ~raced /\ Now <= Cap => seen' = Range(feed')
           /\ Len(feed') = Cap \/ Range(feed) \subseteq Range(feed') \cup wiped
           /\ UNCHANGED <<page, log, open, hist, polls, sse, fed, past>>
<1>1. page = "activity" /\ queued' = <<>> /\ UNCHANGED <<page, log, open, hist, polls, sse, fed, past>>
  BY DEF Render, Inv, FeedInv
<1>2. PICK s : s = Updated([feed |-> feed, seen |-> seen], queued)
  OBVIOUS
<1>3. feed' = s.feed /\ seen' = s.seen
  BY <1>2 DEF Render
<1>4. Fits(s.feed) /\ Turned(s, Len(queued)) /\ Final(Len(queued))
  BY <1>1, <1>2, RenderFacts
<1>5. /\ Range(s.feed) \subseteq s.seen /\ s.seen \subseteq 1..Now
      /\ ~raced /\ Now <= Cap => s.seen = Range(s.feed)
      /\ Len(s.feed) = Cap \/ Range(feed) \subseteq Range(s.feed) \cup wiped
  BY <1>4 DEF Turned
<1>6. PICK f : f = s.feed
  OBVIOUS
<1>7. feed' = f /\ Fits(f)
  BY <1>3, <1>4, <1>6
<1> QED BY <1>1, <1>3, <1>5, <1>6, <1>7

LEMMA RenderInv == ASSUME Inv, Render PROVE Inv'
<1>1. /\ page = "activity" /\ queued' = <<>> /\ Fits(feed')
      /\ Range(feed') \subseteq seen' /\ seen' \subseteq 1..Now
      /\ ~raced /\ Now <= Cap => seen' = Range(feed')
      /\ UNCHANGED <<page, log, open, hist, polls, sse, fed, past>>
  BY Rendered
<1>2. Now' = Now /\ Relevant' = Relevant /\ Now \in Nat
  BY <1>1, SameNow, ReadFacts
<1>3. <<>> \in Seq(Entry) /\ Len(<<>>) = 0 /\ 1..0 = {}
  OBVIOUS
<1>4. FeedInv'
  <2>1. queued' \in Seq(Entry') /\ 1..Len(queued') = {}
    <3>1. <<>> \in Seq(Entry')
      OBVIOUS
    <3> QED BY <1>1, <1>3, <3>1
  <2>2. PICK f : f = feed'
    OBVIOUS
  <2>3. Fits(feed)' /\ Range(feed)' = Range(f) /\ Range(f) \subseteq 1..Now
    BY <1>1, <2>2 DEF Fits, Range, IsInjective
  <2> QED BY <1>1, <1>2, <2>1, <2>3 DEF Inv, FeedInv, past
<1>5. ReadsInv'
  BY <1>1, <1>2 DEF Inv, ReadsInv, History, Poll, Stream, past
<1>6. QueueInv'
  <2>1. 1..Len(queued') = {}
    BY <1>1, <1>3
  <2> QED BY <1>1, <1>2, <2>1 DEF QueueInv, past, Range
<1> QED BY <1>4, <1>5, <1>6 DEF Inv

(* Every step is quiet, is taken on one of the two feeds, or adds an event. *)
LEMMA Cases ==
    ASSUME Next
    PROVE  \/ Quietly \/ TaskStreamEvent \/ HistoryAnswered \/ (\E p \in polls : PollAnswered(p))
           \/ StreamEvent \/ loadInitial \/ Render \/ (\E k \in KindsOf(page) : Emit(k))
  BY DEF Next, System, Polling, Polled, Outside, Quietly

LEMMA NextInv == Inv /\ [Next]_vars => Inv'
<1> SUFFICES ASSUME Inv, [Next]_vars PROVE Inv'
  OBVIOUS
<1>1. CASE UNCHANGED vars
  <2>1. UNCHANGED <<page, log, feed, seen, queued, open, hist, polls, sse, fed, wiped, raced, missed>>
    BY <1>1 DEF vars, past
  <2>2. Now' = Now /\ Relevant' = Relevant
    BY <2>1, SameNow
  <2>3. ReadsInv'
    BY <2>1, <2>2 DEF Inv, ReadsInv, History, Poll, Stream
  <2> QED BY <2>1, <2>3, QuietStep
<1>2. ASSUME TaskStreamEvent PROVE Inv'
  <2>1. ReadsInv' /\ page = "board" /\ BoardFeed(feed')
    BY <1>2, TaskStreamFeeds
  <2> QED BY <1>2, <2>1, BoardStep DEF TaskStreamEvent, BoardFeed, past
<1>3. ASSUME HistoryAnswered PROVE Inv'
  <2>1. ReadsInv' /\ page = "board" /\ BoardFeed(feed')
    BY <1>3, HistoryFeeds
  <2> QED BY <1>3, <2>1, BoardStep DEF HistoryAnswered, BoardFeed, past
<1>4. ASSUME NEW p \in polls, PollAnswered(p) PROVE Inv'
  <2>1. ReadsInv' /\ page = "board" /\ BoardFeed(feed')
    BY <1>4, PollFeeds
  <2> QED BY <1>4, <2>1, BoardStep DEF PollAnswered, BoardFeed, past
<1> QED BY <1>1, <1>2, <1>3, <1>4, Cases, QuietInv, StreamInv, LoadInv, RenderInv, EmitInv

(* What is counted as buried are events of the log, which only grows. *)
BuriedInv == buried \subseteq 1..Now

LEMMA LogGrows == ASSUME Inv, Next PROVE 1..Now \subseteq 1..Now'
<1>0. Now \in Nat /\ log \in Seq(KindsOf(page))
  BY LogFacts DEF Inv
<1>1. ASSUME log' = log PROVE 1..Now \subseteq 1..Now'
  BY <1>1 DEF Now
<1>2. ASSUME NEW k \in KindsOf(page), Emit(k) PROVE 1..Now \subseteq 1..Now'
  <2>1. log' = Append(log, k)
    BY <1>2 DEF Emit
  <2>2. Now' = Now + 1
    BY <1>0, <2>1 DEF Now
  <2> QED BY <1>0, <2>2
<1>3. ASSUME Quietly PROVE log' = log
  BY <1>3 DEF Quietly, openLiveFeed, closeLiveFeed, ReadHistory, HistoryFails, PollTick,
         ReadPoll, PollFails, Accept, StreamBreaks, Reconnect, LoadBoards, Rename
<1>4. ASSUME TaskStreamEvent \/ HistoryAnswered \/ (\E p \in polls : PollAnswered(p))
             \/ StreamEvent \/ loadInitial \/ Render
      PROVE  log' = log
  BY <1>4 DEF TaskStreamEvent, HistoryAnswered, PollAnswered, StreamEvent, loadInitial, Render
<1> QED BY <1>1, <1>2, <1>3, <1>4, Cases

LEMMA BuriedStep == Inv /\ BuriedInv /\ [Next]_vars => BuriedInv'
<1> SUFFICES ASSUME Inv, BuriedInv, [Next]_vars PROVE BuriedInv'
  OBVIOUS
<1>1. CASE UNCHANGED vars
  BY <1>1 DEF vars, BuriedInv, Now
<1>2. CASE Next
  <2>1. Bury
    BY <1>2 DEF Next, System, Polling, Polled, Outside
  <2>2. buried' \subseteq buried \cup Relevant'
    BY <2>1 DEF Bury
  <2>3. Relevant' \subseteq 1..Now'
    BY DEF Relevant
  <2> QED BY <1>2, <2>2, <2>3, LogGrows DEF BuriedInv
<1> QED BY <1>1, <1>2

LEMMA Invariance == Spec => [](Inv /\ BuriedInv)
<1>1. Init => Inv /\ BuriedInv
  BY InitInv DEF Init, BuriedInv
<1>2. Inv /\ BuriedInv /\ [Next]_vars => (Inv /\ BuriedInv)'
  BY NextInv, BuriedStep
<1> QED BY <1>1, <1>2, PTL DEF Spec

-----------------------------------------------------------------------------
(* The theorems. *)

(* FeedOK: no event is on a feed twice, no more than Cap are, and the feed  *)
(* of a board has only events that are relevant to it.                      *)
THEOREM NoItemTwice == Spec => []FeedOK
<1>1. Inv /\ BuriedInv => FeedOK
  BY DEF Inv, BuriedInv, ReadsInv, FeedInv, History, Stream, Fits, Relevant, FeedOK
<1> QED BY <1>1, Invariance, PTL

(* SeenIsShown: what pushFeedItem will never take again because it is       *)
(* marked as seen is on the activity page's feed, unless the feed was full  *)
(* or a load was answered before React had run the update.                  *)
THEOREM SeenIsOnTheFeed == Spec => []SeenIsShown
<1>1. ASSUME Inv, page = "activity", queued = <<>>, ~raced, Now <= Cap PROVE seen = Range(feed)
  <2>1. Len(<<>>) = 0 /\ 1..0 = {}
    OBVIOUS
  <2>2. Final(0)
    BY <1>1, <2>1 DEF Final
  <2> QED BY <1>1, <2>2 DEF Inv, QueueInv
<1>2. Inv => SeenIsShown
  BY <1>1 DEF SeenIsShown
<1> QED BY <1>2, Invariance, PTL

(* OnlyCapDrops: no source of either feed takes an item from it, unless the *)
(* feed is full or the item was counted as wiped by a load.                 *)
THEOREM OnlyAFullFeedDrops == Spec => OnlyCapDrops
<1> DEFINE Drops == \A e \in Range(feed) \ Range(feed') : Len(feed') = Cap \/ e \in wiped
<1>1. ASSUME Kept(feed, feed') PROVE Drops
  BY <1>1 DEF Kept
<1>2. ASSUME feed' = feed PROVE Drops
  BY <1>2
<1>3. ASSUME Inv, [Next]_vars PROVE Drops
  <2>1. CASE UNCHANGED vars
    BY <1>2, <2>1 DEF vars
  <2>2. ASSUME Quietly PROVE Drops
    BY <1>2, <2>2 DEF Quietly, openLiveFeed, closeLiveFeed, ReadHistory, HistoryFails, PollTick,
           ReadPoll, PollFails, Accept, StreamBreaks, Reconnect, LoadBoards, Rename
  <2>3. ASSUME TaskStreamEvent PROVE Drops
    BY <1>1, <1>3, <2>3, TaskStreamFeeds DEF BoardFeed
  <2>4. ASSUME HistoryAnswered PROVE Drops
    BY <1>1, <1>3, <2>4, HistoryFeeds DEF BoardFeed
  <2>5. ASSUME NEW p \in polls, PollAnswered(p) PROVE Drops
    BY <1>1, <1>3, <2>5, PollFeeds DEF BoardFeed
  <2>6. ASSUME StreamEvent PROVE Drops
    <3>1. CASE page = "board"
      BY <1>1, <1>3, <2>6, <3>1, StreamFeeds DEF BoardFeed
    <3>2. CASE page # "board"
      BY <1>2, <1>3, <2>6, <3>2, NextEvent
    <3> QED BY <3>1, <3>2
  <2>7. ASSUME loadInitial PROVE Drops
    BY <1>2, <2>7 DEF loadInitial
  <2>8. ASSUME Render PROVE Drops
    BY <1>3, <2>8, Rendered
  <2>9. ASSUME NEW k \in KindsOf(page), Emit(k) PROVE Drops
    BY <1>2, <2>9 DEF Emit
  <2> QED BY <1>3, <2>1, <2>2, <2>3, <2>4, <2>5, <2>6, <2>7, <2>8, <2>9, Cases
<1>4. Inv /\ [Next]_vars => [Drops]_vars
  BY <1>3
<1> QED BY <1>4, Invariance, PTL DEF Spec, OnlyCapDrops
=============================================================================
