---------------------------- MODULE TimingProofs -----------------------------
(***************************************************************************)
(* What is proved of a race as the evidence comes in, for any evidence,    *)
(* rules, roster and words, and any bounds:                                *)
(*                                                                         *)
(*   PlacesAreFair         places follow times;                            *)
(*   LapsAreRight          laps count the race, without a gap;             *)
(*   ReadsBecomeCrossings  every read is of a crossing or refused, by what *)
(*                         all the reads say;                              *)
(*   WordsMoveOnlyPlaces   a declaration is about one runner;              *)
(*   WarmUpsAreNoRace      what was over before the gun counts for         *)
(*                         nothing;                                        *)
(*   HandsAreSeen          no hand changes a result in silence;            *)
(*   PageIsKeptUp          a page that takes the batches of what changed   *)
(*                         holds what is true now.                         *)
(*                                                                         *)
(* A sheet comes first, which is in one order whatever was read, then what *)
(* score makes of events (PlacesAreByTime says it of any), what derive     *)
(* makes of reads, and what becomes of a sheet when one thing is           *)
(* otherwise.  The one inductive invariant is that what came in is the     *)
(* evidence of a race (TimingShape).                                       *)
(***************************************************************************)
EXTENDS Timing, FiniteSetTheorems, SequenceTheorems, WellFoundedInduction, TLAPS

(* A set of numbers has a least.                                           *)
LEMMA LeastOf ==
    ASSUME NEW S \in SUBSET Nat, S # {}
    PROVE  \E x \in S : \A y \in S : x <= y
<1>1. PICK x \in S : \A y \in S : ~(<<y, x>> \in OpToRel(<, Nat))
  BY WFMin, NatLessThanWellFounded, Zenon
<1>2. \A y \in S : ~(y < x)
  BY <1>1, Zenon DEF OpToRel
<1>3. \A y \in S : x <= y
  BY <1>2
<1> QED
  BY <1>3

-----------------------------------------------------------------------------
(* The order of a sheet: every runner once, by place and then by bib.      *)

(* An order of a set: of two elements one comes first.                     *)
Orders(S, R) ==
    /\ \A e \in S : <<e, e>> \notin R
    /\ \A e, f, g \in S : <<e, f>> \in R /\ <<f, g>> \in R => <<e, g>> \in R
    /\ \A e, f \in S : e # f => <<e, f>> \in R \/ <<f, e>> \in R

(* How many go before one of a set in an order: 0, 1, 2 and so on, once    *)
(* each.                                                                   *)
RankIn(S, R, e) == Cardinality({f \in S : <<f, e>> \in R})

LEMMA Ranked ==
    ASSUME NEW S, IsFiniteSet(S), NEW R, Orders(S, R)
    PROVE  /\ Cardinality(S) \in Nat
           /\ \A e \in S : RankIn(S, R, e) \in 0..(Cardinality(S) - 1)
           /\ \A e, f \in S : <<e, f>> \in R => RankIn(S, R, e) < RankIn(S, R, f)
           /\ \A e, f \in S : RankIn(S, R, e) = RankIn(S, R, f) => e = f
           /\ \A i \in 1..Cardinality(S) : \E e \in S : RankIn(S, R, e) = i - 1
<1> DEFINE n == Cardinality(S)
           Below(e) == {f \in S : <<f, e>> \in R}
           rank(e) == RankIn(S, R, e)
           h == [e \in S |-> rank(e)]
<1>0. \A e : rank(e) = Cardinality(Below(e))
  BY DEF RankIn
<1>1. n \in Nat
  BY FS_CardinalityType
<1>2. ASSUME NEW e \in S
      PROVE  IsFiniteSet(Below(e)) /\ rank(e) \in 0..(n - 1)
  <2>1. Below(e) \subseteq S /\ e \in S /\ e \notin Below(e)
    BY DEF Orders
  <2>2. IsFiniteSet(Below(e)) /\ rank(e) \in Nat /\ rank(e) <= n /\ (rank(e) = n => Below(e) = S)
    <3>1. rank(e) = Cardinality(Below(e))
      BY <1>0
    <3> HIDE DEF Below, rank
    <3> QED
      BY <2>1, <3>1, FS_Subset, FS_CardinalityType
  <2> QED
    BY <1>1, <2>1, <2>2
<1>3. ASSUME NEW e \in S, NEW f \in S, <<e, f>> \in R
      PROVE  rank(e) < rank(f)
  <2>1. Below(e) \subseteq Below(f)
    BY <1>3 DEF Orders
  <2>2. e \in Below(f) /\ e \notin Below(e)
    BY <1>3 DEF Orders
  <2>3. rank(e) <= rank(f) /\ (rank(e) = rank(f) => Below(e) = Below(f))
    <3>1. IsFiniteSet(Below(f))
      BY <1>2
    <3>2. rank(e) = Cardinality(Below(e)) /\ rank(f) = Cardinality(Below(f))
      BY <1>0
    <3> HIDE DEF Below, rank
    <3> QED
      BY <2>1, <3>1, <3>2, FS_Subset
  <2>4. rank(e) \in Nat /\ rank(f) \in Nat
    <3>1. rank(e) \in 0..(n - 1) /\ rank(f) \in 0..(n - 1)
      BY <1>2
    <3> HIDE DEF rank
    <3> QED
      BY <3>1
  <2> HIDE DEF Below
  <2> QED
    BY <2>2, <2>3, <2>4
<1>4. h \in [S -> 0..(n - 1)]
  BY <1>2
<1>5. IsInjective(h)
  <2>1. ASSUME NEW e \in S, NEW f \in S, h[e] = h[f], e # f
        PROVE  FALSE
    <3>1. rank(e) < rank(f) \/ rank(f) < rank(e)
      BY <1>3, <2>1 DEF Orders
    <3>2. rank(e) \in 0..(n - 1) /\ rank(f) \in 0..(n - 1)
      BY <1>2
    <3>3. rank(e) = rank(f)
      BY <2>1
    <3> HIDE DEF rank
    <3> QED
      BY <3>1, <3>2, <3>3
  <2> QED
    BY <2>1 DEF IsInjective
<1>6. IsFiniteSet(0..(n - 1)) /\ Cardinality(0..(n - 1)) = n
  <2>1. 0 \in Int /\ n - 1 \in Int /\ (0 > n - 1 => n = 0) /\ (0 <= n - 1 => (n - 1) - 0 + 1 = n)
    BY <1>1
  <2> QED
    BY <1>1, <2>1, FS_Interval
<1>7. h \in Surjection(S, 0..(n - 1))
  <2>1. h \in Injection(S, 0..(n - 1))
    BY <1>4, <1>5 DEF Injection
  <2> HIDE DEF h
  <2> QED
    BY <1>6, <2>1, FS_Injection
<1>8. \A i \in 1..n : \E e \in S : rank(e) = i - 1
  <2>1. \A k \in 0..(n - 1) : \E e \in S : h[e] = k
    BY <1>7 DEF Surjection
  <2> HIDE DEF rank
  <2>2. ASSUME NEW i \in 1..n
        PROVE  \E e \in S : rank(e) = i - 1
    <3>1. i - 1 \in 0..(n - 1)
      BY <1>1
    <3> QED
      BY <2>1, <3>1
  <2> QED
    BY <2>2
<1>9. \A e, f \in S : rank(e) = rank(f) => e = f
  <2>1. \A e \in S : h[e] = rank(e)
    OBVIOUS
  <2> HIDE DEF rank, h
  <2> QED
    BY <1>4, <1>5, <2>1 DEF IsInjective
<1>10. \A e \in S : rank(e) \in 0..(n - 1)
  BY <1>2
<1> HIDE DEF rank, n
<1> QED
  BY <1>1, <1>3, <1>8, <1>9, <1>10 DEF rank, n

(* InOrder lists a finite set once, in its order.                          *)
LEMMA InOrderIs ==
    ASSUME NEW S, IsFiniteSet(S), NEW R, Orders(S, R)
    PROVE  /\ Cardinality(S) \in Nat
           /\ InOrder(S, R) \in [1..Cardinality(S) -> S]
           /\ \A x \in S : \E i \in 1..Cardinality(S) : InOrder(S, R)[i] = x
           /\ \A i, j \in 1..Cardinality(S) : i < j => <<InOrder(S, R)[i], InOrder(S, R)[j]>> \in R
<1> DEFINE n == Cardinality(S)
           rank(e) == RankIn(S, R, e)
<1>1. n \in Nat
  BY Ranked
<1>2. \A e \in S : rank(e) \in 0..(n - 1)
  BY Ranked
<1>3. \A e, f \in S : <<e, f>> \in R => rank(e) < rank(f)
  BY Ranked
<1>5. \A e, f \in S : rank(e) = rank(f) => e = f
  BY Ranked
<1>8. \A i \in 1..n : \E e \in S : rank(e) = i - 1
  BY Ranked
<1> DEFINE s == InOrder(S, R)
<1>9. \A i \in 1..n : s[i] \in S /\ rank(s[i]) = i - 1
  <2>1. ASSUME NEW i \in 1..n
        PROVE  s[i] \in S /\ rank(s[i]) = i - 1
    <3>1. \E e \in S : rank(e) = i - 1
      BY <1>8
    <3>2. s[i] = CHOOSE e \in S : rank(e) = i - 1
      BY DEF InOrder, RankIn
    <3> HIDE DEF rank, s
    <3> QED
      BY <3>1, <3>2
  <2> QED
    BY <2>1
<1>10. s \in [1..n -> S]
  <2> DEFINE at(i) == CHOOSE e \in S : rank(e) = i - 1
  <2>1. s = [i \in 1..n |-> at(i)]
    BY Zenon DEF InOrder, RankIn
  <2> HIDE DEF at
  <2>2. \A i \in 1..n : s[i] = at(i)
    BY <2>1
  <2> HIDE DEF s, rank
  <2> QED
    BY <1>9, <2>1, <2>2
<1> HIDE DEF s
<1>11. ASSUME NEW x \in S
       PROVE  \E i \in 1..n : s[i] = x
  <2>1. rank(x) + 1 \in 1..n /\ (rank(x) + 1) - 1 = rank(x)
    <3>1. rank(x) \in 0..(n - 1)
      BY <1>2
    <3> HIDE DEF rank
    <3> QED
      BY <1>1, <3>1
  <2>2. s[rank(x) + 1] \in S /\ rank(s[rank(x) + 1]) = rank(x)
    <3>1. s[rank(x) + 1] \in S /\ rank(s[rank(x) + 1]) = (rank(x) + 1) - 1
      BY <1>9, <2>1
    <3> QED
      BY <2>1, <3>1
  <2>3. s[rank(x) + 1] = x
    BY <1>5, <2>2
  <2> QED
    BY <2>1, <2>3
<1>12. ASSUME NEW i \in 1..n, NEW j \in 1..n, i < j
       PROVE  <<s[i], s[j]>> \in R
  <2>1. s[i] \in S /\ s[j] \in S /\ rank(s[i]) = i - 1 /\ rank(s[j]) = j - 1
    BY <1>9
  <2>2. s[i] # s[j]
    <3> HIDE DEF rank
    <3> QED
      BY <1>12, <2>1
  <2>3. ~(<<s[j], s[i]>> \in R)
    <3>1. <<s[j], s[i]>> \in R => rank(s[j]) < rank(s[i])
      BY <1>3, <2>1
    <3> HIDE DEF rank
    <3> QED
      BY <1>12, <2>1, <3>1
  <2> QED
    BY <2>1, <2>2, <2>3 DEF Orders
<1> QED
  BY <1>1, <1>10, <1>11, <1>12 DEF s

(* As long as a time is the one before.                                    *)
Level(s, i) == i > 1 /\ s[i].time = s[i - 1].time

(* What PlacesDown is recursively.                                         *)
GoesDown(s, n, f) ==
    f = [i \in 0..n |-> IF i = 0 THEN 0 ELSE IF Level(s, i) THEN f[i - 1] ELSE PlaceAfter(i - 1, f[i - 1])]

(* There is such a function: the place is where the runners who are level  *)
(* begin.                                                                  *)
LEMMA SomethingGoesDown ==
    ASSUME NEW n \in Nat, NEW s
    PROVE  \E f : GoesDown(s, n, f)
<1> DEFINE Starts(i) == {k \in 1..i : \A j \in (k + 1)..i : Level(s, j)}
           first(i) == CHOOSE k \in Starts(i) : \A y \in Starts(i) : k <= y
           f == [i \in 0..n |-> IF i = 0 THEN 0 ELSE first(i)]
<1>1. ASSUME NEW i \in 1..n
      PROVE  /\ i \in Starts(i) /\ Starts(i) \in SUBSET Nat
             /\ first(i) \in Starts(i) /\ \A y \in Starts(i) : first(i) <= y
  <2>1. i \in Starts(i) /\ Starts(i) \in SUBSET Nat
    OBVIOUS
  <2>2. \E k \in Starts(i) : \A y \in Starts(i) : k <= y
    BY <2>1, LeastOf
  <2> HIDE DEF Starts
  <2> QED
    BY <2>1, <2>2
<1>2. ASSUME NEW i \in 1..n, ~Level(s, i)
      PROVE  first(i) = i
  <2>1. \A k \in Starts(i) : k = i
    <3>1. ASSUME NEW k \in 1..i, \A j \in (k + 1)..i : Level(s, j), k # i
          PROVE  FALSE
      <4>1. i \in (k + 1)..i
        BY <3>1
      <4> QED
        BY <1>2, <3>1, <4>1
    <3> QED
      BY <3>1
  <2> HIDE DEF Starts, first
  <2> QED
    BY <1>1, <2>1
<1>3. ASSUME NEW i \in 1..n, Level(s, i)
      PROVE  i - 1 \in 1..n /\ first(i) = first(i - 1)
  <2>1. i - 1 \in 1..n /\ i \in Int
    BY <1>3 DEF Level
  <2>2. \A k \in 1..(i - 1) : k \in Starts(i) <=> k \in Starts(i - 1)
    <3>1. ASSUME NEW k \in 1..(i - 1)
          PROVE  k \in Starts(i) <=> k \in Starts(i - 1)
      <4>1. k \in Starts(i) => k \in Starts(i - 1)
        BY <2>1
      <4>2. k \in Starts(i - 1) => k \in Starts(i)
        <5>1. \A j \in (k + 1)..i : j = i \/ j \in (k + 1)..(i - 1)
          BY <2>1
        <5> QED
          BY <1>3, <2>1, <5>1
      <4> QED
        BY <4>1, <4>2
    <3> QED
      BY <3>1
  <2>3. i - 1 \in Starts(i - 1) /\ first(i - 1) \in Starts(i - 1) /\ first(i - 1) \in 1..(i - 1)
    <3>1. first(i - 1) \in Starts(i - 1) /\ i - 1 \in Starts(i - 1)
      BY <1>1, <2>1
    <3>2. Starts(i - 1) \subseteq 1..(i - 1)
      OBVIOUS
    <3> QED
      BY <3>1, <3>2
  <2>4. first(i) \in Starts(i) /\ first(i) \in 1..i
    <3>1. first(i) \in Starts(i)
      BY <1>1
    <3>2. Starts(i) \subseteq 1..i
      OBVIOUS
    <3> QED
      BY <3>1, <3>2
  <2>5. first(i - 1) \in Starts(i)
    BY <2>2, <2>3
  <2>6. first(i) <= first(i - 1)
    BY <1>1, <2>5
  <2>7. first(i) \in 1..(i - 1)
    <3> HIDE DEF first
    <3> QED
      BY <2>1, <2>3, <2>4, <2>6
  <2>8. first(i) \in Starts(i - 1)
    <3> HIDE DEF first, Starts
    <3> QED
      BY <2>2, <2>4, <2>7
  <2>9. first(i - 1) <= first(i)
    BY <1>1, <2>1, <2>8
  <2> HIDE DEF first, Starts
  <2> QED
    BY <2>1, <2>3, <2>4, <2>6, <2>9
<1> HIDE DEF first, Starts
<1>4. \A i \in 0..n : f[i] = IF i = 0 THEN 0 ELSE IF Level(s, i) THEN f[i - 1] ELSE PlaceAfter(i - 1, f[i - 1])
  <2>1. ASSUME NEW i \in 1..n
        PROVE  f[i] = IF Level(s, i) THEN f[i - 1] ELSE PlaceAfter(i - 1, f[i - 1])
    <3>1. CASE Level(s, i)
      <4>1. i - 1 \in 1..n /\ first(i) = first(i - 1)
        BY <1>3, <3>1
      <4>2. f[i] = first(i) /\ f[i - 1] = first(i - 1)
        BY <4>1
      <4> QED
        BY <3>1, <4>1, <4>2
    <3>2. CASE ~Level(s, i)
      <4>1. f[i] = i /\ PlaceAfter(i - 1, f[i - 1]) = i
        BY <1>2, <3>2 DEF PlaceAfter
      <4> QED
        BY <3>2, <4>1
    <3> QED
      BY <3>1, <3>2
  <2>2. \A i \in 0..n : i = 0 \/ i \in 1..n
    OBVIOUS
  <2>3. f[0] = 0
    OBVIOUS
  <2> QED
    BY <2>1, <2>2, <2>3
<1>5. f = [i \in 0..n |-> f[i]]
  OBVIOUS
<1> HIDE DEF f
<1>6. GoesDown(s, n, f)
  <2> DEFINE g == [i \in 0..n |-> IF i = 0 THEN 0 ELSE IF Level(s, i) THEN f[i - 1] ELSE PlaceAfter(i - 1, f[i - 1])]
  <2>1. \A i \in 0..n : g[i] = f[i]
    BY <1>4
  <2>2. DOMAIN f = 0..n /\ DOMAIN g = 0..n
    BY <1>5
  <2>3. f = g
    BY <1>5, <2>1, <2>2
  <2> QED
    BY <2>3 DEF GoesDown
<1> QED
  BY <1>6

(* What PlacesDown comes to, place by place.                               *)
LEMMA PlacesDownIs ==
    ASSUME NEW s, Len(s) \in Nat
    PROVE  /\ PlacesDown(s)[0] = 0
           /\ \A i \in 1..Len(s) : PlacesDown(s)[i] =
                 IF Level(s, i) THEN PlacesDown(s)[i - 1] ELSE i
<1> DEFINE n == Len(s)
           p == PlacesDown(s)
<1>1. p = CHOOSE f : GoesDown(s, n, f)
  BY Zenon DEF PlacesDown, GoesDown, Level
<1>2. GoesDown(s, n, p)
  <2>1. \E f : GoesDown(s, n, f)
    BY SomethingGoesDown
  <2> QED
    BY <1>1, <2>1, Zenon
<1> HIDE DEF p
<1>3. \A i \in 0..n : p[i] =
         IF i = 0 THEN 0 ELSE IF Level(s, i) THEN p[i - 1] ELSE PlaceAfter(i - 1, p[i - 1])
  BY <1>2 DEF GoesDown
<1> QED
  BY <1>3 DEF p, PlaceAfter

(* A place is where the runners who are level begin.                       *)
LEMMA LevelFromThePlace ==
    ASSUME NEW s, Len(s) \in Nat, NEW i \in 1..Len(s)
    PROVE  /\ PlacesDown(s)[i] \in 1..i
           /\ \A j \in PlacesDown(s)[i]..i : s[j].time = s[i].time
           /\ ~Level(s, PlacesDown(s)[i])
<1> DEFINE n == Len(s)
           p == PlacesDown(s)
           Good(k) == /\ p[k] \in 1..k
                      /\ \A j \in p[k]..k : s[j].time = s[k].time
                      /\ ~Level(s, p[k])
           Bad == {k \in 1..n : ~Good(k)}
<1>1. \A k \in 1..n : p[k] = IF Level(s, k) THEN p[k - 1] ELSE k
  BY PlacesDownIs
<1> HIDE DEF p
<1>2. ASSUME NEW k \in 1..n, ~Level(s, k)
      PROVE  Good(k)
  <2>1. p[k] = k
    BY <1>1, <1>2
  <2> QED
    BY <1>2, <2>1
<1>3. ASSUME NEW k \in 1..n, Level(s, k), Good(k - 1)
      PROVE  Good(k)
  <2>1. k > 1 /\ s[k].time = s[k - 1].time /\ p[k] = p[k - 1] /\ k \in Nat
    BY <1>1, <1>3 DEF Level
  <2>2. p[k] \in 1..k
    BY <1>3, <2>1
  <2>3. \A j \in p[k]..k : j = k \/ j \in p[k - 1]..(k - 1)
    BY <2>1, <2>2
  <2>4. \A j \in p[k]..k : s[j].time = s[k].time
    BY <1>3, <2>1, <2>3
  <2> QED
    BY <1>3, <2>1, <2>2, <2>4
<1>4. Bad = {}
  <2>1. SUFFICES ASSUME Bad # {} PROVE FALSE
    OBVIOUS
  <2>2. PICK k \in Bad : \A y \in Bad : k <= y
    <3>1. Bad \in SUBSET Nat
      OBVIOUS
    <3> HIDE DEF Bad
    <3> QED
      BY <2>1, <3>1, LeastOf
  <2>3. k \in 1..n /\ ~Good(k)
    OBVIOUS
  <2>4. Level(s, k)
    BY <1>2, <2>3
  <2>5. k - 1 \in 1..n
    BY <2>3, <2>4 DEF Level
  <2>6. k - 1 \notin Bad
    <3> HIDE DEF Bad
    <3> QED
      BY <2>2, <2>3
  <2>7. Good(k - 1)
    BY <2>5, <2>6
  <2> QED
    BY <1>3, <2>3, <2>4, <2>7
<1>5. Good(i)
  BY <1>4
<1> QED
  BY <1>5 DEF p

(* What is given row by row.                                               *)
LEMMA LenIs ==
    ASSUME NEW n \in Nat, NEW s, DOMAIN s = 1..n, s = [i \in 1..n |-> s[i]]
    PROVE  Len(s) = n
<1>1. s \in Seq({s[i] : i \in 1..n})
  BY SeqDef
<1> QED
  BY <1>1

(* A place is a number, or there is none.                                  *)
LEMMA PlacesAre ==
    ASSUME NEW entries, IsFiniteSet(entries), NEW e \in entries
    PROVE  Places(entries)[e] \in Nat \/ Places(entries)[e] = None
<1> DEFINE timed == {f \in entries : IsPlaced(f.status) /\ Some(f.time)}
           s == InOrder(timed, Pairs(timed, Faster))
           n == Cardinality(timed)
           at == {i \in DOMAIN s : s[i] = e}
<1>1. n \in Nat
  <2>1. timed \subseteq entries
    OBVIOUS
  <2> HIDE DEF timed
  <2> QED
    BY <2>1, FS_Subset, FS_CardinalityType
<1>2. Places(entries)[e] = IF at = {} THEN None ELSE PlacesDown(s)[CHOOSE i \in at : TRUE]
  BY Zenon DEF Places
<1>3. DOMAIN s = 1..n /\ s = [i \in 1..n |-> s[i]]
  <2> DEFINE r(i) == CHOOSE f \in timed : Cardinality({g \in timed : <<g, f>> \in Pairs(timed, Faster)}) = i - 1
  <2>1. s = [i \in 1..n |-> r(i)]
    BY Zenon DEF InOrder
  <2> HIDE DEF r, s, timed
  <2> QED
    BY <2>1
<1> HIDE DEF s, n
<1>4. Len(s) = n
  BY <1>1, <1>3, LenIs, Zenon
<1>5. CASE at # {}
  <2>1. (CHOOSE i \in at : TRUE) \in at
    BY <1>5
  <2>2. (CHOOSE i \in at : TRUE) \in 1..n
    BY <1>3, <2>1
  <2> HIDE DEF at
  <2>3. PlacesDown(s)[CHOOSE i \in at : TRUE] \in 1..(CHOOSE i \in at : TRUE)
    BY <1>1, <1>4, <2>2, LevelFromThePlace
  <2>4. \A x \in 1..(CHOOSE i \in at : TRUE) : x \in Nat
    OBVIOUS
  <2> QED
    BY <1>2, <1>5, <2>3, <2>4
<1> QED
  BY <1>2, <1>5

(* What a sheet's order looks at.                                          *)
Printed(e) == e.bib \in Int /\ (e.place \in Nat \/ e.place = None)

PlaceKey(e) == IF Some(e.place) THEN e.place ELSE 0

(* Listed, key by key.                                                     *)
LEMMA ListedIs ==
    ASSUME NEW a, NEW b
    PROVE  Listed(a, b) <=>
              \/ Some(a.place) /\ ~Some(b.place)
              \/ /\ Some(a.place) <=> Some(b.place)
                 /\ \/ PlaceKey(a) < PlaceKey(b)
                    \/ PlaceKey(a) = PlaceKey(b) /\ Rank(a.status) < Rank(b.status)
                    \/ /\ PlaceKey(a) = PlaceKey(b) /\ Rank(a.status) = Rank(b.status)
                       /\ a.bib < b.bib
<1> DEFINE Key(e) == <<IF Some(e.place) THEN 0 ELSE 1, PlaceKey(e), Rank(e.status), e.bib>>
           AlikeTo(i) == \A j \in 1..(i - 1) : Key(a)[j] = Key(b)[j]
<1>1. Listed(a, b) <=> \E i \in 1..4 : Key(a)[i] < Key(b)[i] /\ AlikeTo(i)
  BY Zenon DEF Listed, PlaceKey
<1>2. AlikeTo(1) /\ (AlikeTo(2) <=> Key(a)[1] = Key(b)[1])
      /\ (AlikeTo(3) <=> Key(a)[1] = Key(b)[1] /\ Key(a)[2] = Key(b)[2])
      /\ (AlikeTo(4) <=> Key(a)[1] = Key(b)[1] /\ Key(a)[2] = Key(b)[2] /\ Key(a)[3] = Key(b)[3])
  <2> HIDE DEF Key
  <2>1. 1..0 = {} /\ 1..1 = {1} /\ 1..2 = {1, 2} /\ 1..3 = {1, 2, 3}
    OBVIOUS
  <2>2. 1 - 1 = 0 /\ 2 - 1 = 1 /\ 3 - 1 = 2 /\ 4 - 1 = 3
    OBVIOUS
  <2> QED
    BY <2>1, <2>2
<1>3. 1..4 = {1, 2, 3, 4}
  OBVIOUS
<1>4. Key(a)[1] = (IF Some(a.place) THEN 0 ELSE 1) /\ Key(a)[2] = PlaceKey(a)
      /\ Key(a)[3] = Rank(a.status) /\ Key(a)[4] = a.bib
  OBVIOUS
<1>5. Key(b)[1] = (IF Some(b.place) THEN 0 ELSE 1) /\ Key(b)[2] = PlaceKey(b)
      /\ Key(b)[3] = Rank(b.status) /\ Key(b)[4] = b.bib
  OBVIOUS
<1> HIDE DEF Key, AlikeTo
<1>6. Listed(a, b) <=>
         \/ Key(a)[1] < Key(b)[1]
         \/ Key(a)[2] < Key(b)[2] /\ Key(a)[1] = Key(b)[1]
         \/ Key(a)[3] < Key(b)[3] /\ Key(a)[1] = Key(b)[1] /\ Key(a)[2] = Key(b)[2]
         \/ Key(a)[4] < Key(b)[4] /\ Key(a)[1] = Key(b)[1] /\ Key(a)[2] = Key(b)[2] /\ Key(a)[3] = Key(b)[3]
  BY <1>1, <1>2, <1>3
<1>7. (Key(a)[1] < Key(b)[1] <=> Some(a.place) /\ ~Some(b.place))
      /\ (Key(a)[1] = Key(b)[1] <=> (Some(a.place) <=> Some(b.place)))
  BY <1>4, <1>5
<1> QED
  BY <1>4, <1>5, <1>6, <1>7

(* It is an order of lines of which no two have one bib.                   *)
LEMMA ListedOrders ==
    /\ \A a : Printed(a) => ~Listed(a, a)
    /\ \A a, b : Printed(a) /\ Printed(b) /\ a.bib # b.bib => Listed(a, b) \/ Listed(b, a)
    /\ \A a, b, c : Printed(a) /\ Printed(b) /\ Printed(c) /\ Listed(a, b) /\ Listed(b, c) => Listed(a, c)
<1>1. \A a : Printed(a) => PlaceKey(a) \in Nat /\ a.bib \in Int
  BY DEF Printed, PlaceKey, Some
<1>2. \A a : Rank(a.status) \in Nat
  BY DEF Rank
<1>3. ASSUME NEW a, Printed(a)
      PROVE  ~Listed(a, a)
  BY <1>1, <1>2, <1>3, ListedIs
<1>4. ASSUME NEW a, NEW b, Printed(a), Printed(b), a.bib # b.bib
      PROVE  Listed(a, b) \/ Listed(b, a)
  <2>1. /\ PlaceKey(a) \in Nat /\ a.bib \in Int /\ Rank(a.status) \in Nat
        /\ PlaceKey(b) \in Nat /\ b.bib \in Int /\ Rank(b.status) \in Nat
    BY <1>1, <1>2, <1>4
  <2> QED
    BY <1>4, <2>1, ListedIs
<1>5. ASSUME NEW a, NEW b, NEW c, Printed(a), Printed(b), Printed(c), Listed(a, b), Listed(b, c)
      PROVE  Listed(a, c)
  <2>1. /\ PlaceKey(a) \in Nat /\ a.bib \in Int /\ Rank(a.status) \in Nat
        /\ PlaceKey(b) \in Nat /\ b.bib \in Int /\ Rank(b.status) \in Nat
        /\ PlaceKey(c) \in Nat /\ c.bib \in Int /\ Rank(c.status) \in Nat
    BY <1>1, <1>2, <1>5
  <2> QED
    BY <1>5, <2>1, ListedIs
<1> QED
  BY <1>3, <1>4, <1>5

(* What a function comes to on finitely many values.                       *)
LEMMA ImageFinite ==
    ASSUME NEW f, IsFiniteSet(DOMAIN f)
    PROVE  IsFiniteSet({f[x] : x \in DOMAIN f})
<1> DEFINE T == {f[x] : x \in DOMAIN f}
           g == [x \in DOMAIN f |-> f[x]]
<1>1. g \in Surjection(DOMAIN f, T)
  BY DEF Surjection
<1> QED
  BY <1>1, FS_Surjection

-----------------------------------------------------------------------------
(***************************************************************************)
(* Places follow times.                                                    *)
(***************************************************************************)

(* The events of a race: no two of one kind have one identifier.           *)
AreEvents(events) ==
    /\ IsFiniteSet(events)
    /\ \A e \in events : e.at \in Int /\ e.id \in Int /\ e.manual \in BOOLEAN
    /\ \A e, f \in events : e.manual = f.manual /\ e.id = f.id => e = f

(* The first of them, and the last, is one of them.                        *)
LEMMA FirstIs ==
    ASSUME NEW events, AreEvents(events), NEW handsFirst \in BOOLEAN
    PROVE  /\ FirstOf(handsFirst, events) \in events \cup {None}
           /\ LastOf(handsFirst, events) \in events \cup {None}
           /\ events = {} => FirstOf(handsFirst, events) = None /\ LastOf(handsFirst, events) = None
           /\ events # {} => /\ FirstOf(handsFirst, events) \in events
                             /\ \A f \in events : FirstOf(handsFirst, events).at <= f.at
                             /\ LastOf(handsFirst, events) \in events
<1> DEFINE Before(e, f) == Sooner(handsFirst, e, f)
           R == {pair \in events \X events : Before(pair[1], pair[2])}
           n == Cardinality(events)
           s == InOrder(events, R)
<1>1. ASSUME events # {}
      PROVE  /\ \E e \in events : \A f \in events \ {e} : Before(e, f)
             /\ \E e \in events : \A f \in events \ {e} : Before(f, e)
  <2>1. \A e, f \in events : <<e, f>> \in R <=> Before(e, f)
    BY Zenon
  <2>2. /\ \A e \in events : ~Before(e, e)
        /\ \A e, f \in events : e # f => Before(e, f) \/ Before(f, e)
        /\ \A e, f, g \in events : Before(e, f) /\ Before(f, g) => Before(e, g)
    BY DEF AreEvents, Sooner
  <2> HIDE DEF R, Before
  <2>3. Orders(events, R)
    BY <2>1, <2>2 DEF Orders
  <2>4. /\ n \in Nat
        /\ s \in [1..n -> events]
        /\ \A x \in events : \E i \in 1..n : s[i] = x
        /\ \A i, j \in 1..n : i < j => <<s[i], s[j]>> \in R
    <3>1. IsFiniteSet(events)
      BY DEF AreEvents
    <3> QED
      BY <2>3, <3>1, InOrderIs, Zenon
  <2> HIDE DEF n, s
  <2>5. n > 0
    BY <1>1, <2>4
  <2>6. 1 \in 1..n /\ n \in 1..n /\ s[1] \in events /\ s[n] \in events
    BY <2>4, <2>5
  <2>7. ASSUME NEW f \in events \ {s[1]}
        PROVE  Before(s[1], f)
    <3>1. PICK i \in 1..n : s[i] = f
      BY <2>4
    <3>2. 1 < i
      BY <2>4, <3>1
    <3> QED
      BY <2>1, <2>4, <2>6, <3>1, <3>2
  <2>8. ASSUME NEW f \in events \ {s[n]}
        PROVE  Before(f, s[n])
    <3>1. PICK i \in 1..n : s[i] = f
      BY <2>4
    <3>2. i < n
      BY <2>4, <3>1
    <3> QED
      BY <2>1, <2>4, <2>6, <3>1, <3>2
  <2> QED
    BY <2>6, <2>7, <2>8
<1>0. \A e, f \in events : Before(e, f) => e.at <= f.at
  BY DEF Sooner, AreEvents
<1> HIDE DEF Before
<1>2. FirstOf(handsFirst, events) = IF events = {} THEN None ELSE CHOOSE e \in events : \A f \in events \ {e} : Before(e, f)
  BY Zenon DEF FirstOf, Before
<1>3. LastOf(handsFirst, events) = IF events = {} THEN None ELSE CHOOSE e \in events : \A f \in events \ {e} : Before(f, e)
  BY Zenon DEF LastOf, Before
<1>4. events # {} => FirstOf(handsFirst, events) \in events
  BY <1>1, <1>2
<1>5. events # {} => LastOf(handsFirst, events) \in events
  BY <1>1, <1>3
<1>6. ASSUME events # {}
      PROVE  \A f \in events : FirstOf(handsFirst, events).at <= f.at
  <2>1. PICK e : e = FirstOf(handsFirst, events)
    OBVIOUS
  <2>2. e \in events /\ \A f \in events \ {e} : Before(e, f)
    BY <1>1, <1>2, <1>6, <2>1
  <2>3. e.at \in Int
    BY <2>2 DEF AreEvents
  <2> QED
    BY <1>0, <2>1, <2>2, <2>3
<1> QED
  BY <1>2, <1>3, <1>4, <1>5, <1>6

(* What score is given of a race.                                          *)
IsRace(input) ==
    /\ IsRoster(input.roster) /\ AreEvents(input.events)
    /\ input.gun \in Int \cup {None} /\ input.handsFirst \in BOOLEAN

(* A crossing, or none.                                                    *)
LEMMA CrossingsAre ==
    ASSUME NEW input, IsRace(input), NEW p, NEW c
    PROVE  /\ Crossings(input, p, c).counted = None \/ Crossings(input, p, c).counted.at \in Int
           /\ Crossings(input, p, c).beforeGun = None \/ Crossings(input, p, c).beforeGun.at \in Int
<1> DEFINE here == {e \in input.events : e.participant = p /\ e.checkpoint = c}
           racing == {e \in here : DuringTheRace(input.gun, e.at)}
<1>1. AreEvents(racing) /\ AreEvents(here \ racing)
  <2>1. \A T \in SUBSET input.events : AreEvents(T)
    <3>1. ASSUME NEW T \in SUBSET input.events
          PROVE  AreEvents(T)
      <4>1. IsFiniteSet(T)
        BY FS_Subset DEF IsRace, AreEvents
      <4> QED
        BY <4>1 DEF IsRace, AreEvents
    <3> QED
      BY <3>1
  <2>2. racing \subseteq input.events /\ here \ racing \subseteq input.events
    OBVIOUS
  <2> HIDE DEF here, racing
  <2> QED
    BY <2>1, <2>2
<1>2. Crossings(input, p, c).counted = FirstOf(input.handsFirst, racing)
      /\ Crossings(input, p, c).beforeGun = LastOf(input.handsFirst, here \ racing)
  BY DEF Crossings
<1>3. input.handsFirst \in BOOLEAN
  BY DEF IsRace
<1> HIDE DEF here, racing
<1>4. FirstOf(input.handsFirst, racing) \in racing \cup {None}
      /\ LastOf(input.handsFirst, here \ racing) \in (here \ racing) \cup {None}
  BY <1>1, <1>3, FirstIs
<1> QED
  BY <1>1, <1>2, <1>4 DEF AreEvents

(* The time of an entry is a number, or there is none.                     *)
LEMMA TimesAre ==
    ASSUME NEW input, IsRace(input), NEW p
    PROVE  EntryOf(input, p).time \in Int \cup {None}
<1> DEFINE line == Sole(input.course, "start")
           atStart == IF Some(line) THEN Crossings(input, p, line) ELSE NoCrossings
           start == StartOf(atStart, input.gun)
           atFinish == Crossings(input, p, Sole(input.course, "finish"))
<1>1. EntryOf(input, p) = Entry(input, p, start, atStart, atFinish)
  BY Zenon DEF EntryOf
<1>2. /\ atStart.counted = None \/ atStart.counted.at \in Int
      /\ atStart.beforeGun = None \/ atStart.beforeGun.at \in Int
  BY CrossingsAre DEF NoCrossings
<1>3. atFinish.counted = None \/ atFinish.counted.at \in Int
  BY CrossingsAre
<1> HIDE DEF atStart, atFinish
<1>4. start.at \in Int \cup {None}
  BY <1>2 DEF StartOf, Some, IsRace
<1> HIDE DEF start
<1> DEFINE finishAt == IF Some(atFinish.counted) THEN atFinish.counted.at ELSE None
           gunTime == Minus(finishAt, input.gun)
           chipTime == Minus(finishAt, start.at)
           measured == IF input.mode = "chip" /\ Some(chipTime) THEN chipTime ELSE gunTime
<1>5. finishAt \in Int \cup {None}
  BY <1>3 DEF Some
<1>6. Entry(input, p, start, atStart, atFinish).time = IF Some(measured) /\ measured < 0 THEN None ELSE measured
  BY DEF Entry
<1> HIDE DEF finishAt
<1>7. gunTime \in Int \cup {None} /\ chipTime \in Int \cup {None}
  BY <1>4, <1>5 DEF Minus, Some, IsRace
<1> HIDE DEF gunTime, chipTime
<1> QED
  BY <1>1, <1>6, <1>7

(* As many as come to a place, one by one.                                 *)
LEMMA AsMany ==
    ASSUME NEW S, NEW T, IsFiniteSet(S), NEW g \in [S -> T],
           \A x, y \in S : g[x] = g[y] => x = y, \A y \in T : \E x \in S : g[x] = y
    PROVE  IsFiniteSet(T) /\ Cardinality(T) = Cardinality(S)
<1>1. g \in Bijection(S, T)
  BY DEF Bijection, Injection, Surjection, IsInjective
<1> QED
  BY <1>1, FS_Bijection DEF ExistsBijection

(* assign_places: a place counts those who were faster.                    *)
Timed(entries) == {e \in entries : IsPlaced(e.status) /\ Some(e.time)}
PlaceAmong(timed, e) == 1 + Cardinality({f \in timed : f.time < e.time})

LEMMA PlacesCount ==
    ASSUME NEW entries, IsFiniteSet(entries),
           \A e \in entries : e.bib \in Int /\ e.time \in Int \cup {None},
           \A e, f \in entries : e.bib = f.bib => e = f,
           NEW e \in entries
    PROVE  Places(entries)[e] = IF e \in Timed(entries) THEN PlaceAmong(Timed(entries), e) ELSE None
<1> DEFINE timed == Timed(entries)
           R == Pairs(timed, Faster)
           s == InOrder(timed, R)
           n == Cardinality(timed)
           at == {i \in DOMAIN s : s[i] = e}
<1>1. IsFiniteSet(timed)
  <2>1. timed \subseteq entries
    BY DEF Timed
  <2> QED
    BY <2>1, FS_Subset
<1>2. Places(entries)[e] = IF at = {} THEN None ELSE PlacesDown(s)[CHOOSE i \in at : TRUE]
  BY Zenon DEF Places, Timed
<1>3. \A f, g \in timed : <<f, g>> \in R <=> Faster(f, g)
  BY DEF Pairs
<1>4. \A f \in timed : f.time \in Int /\ f.bib \in Int
  BY DEF Timed, Some
<1>5. \A f, g \in timed : f # g => f.bib # g.bib
  BY DEF Timed
<1> HIDE DEF R, timed
<1>6. Orders(timed, R)
  BY <1>3, <1>4, <1>5 DEF Orders, Faster
<1>7. /\ n \in Nat
      /\ s \in [1..n -> timed]
      /\ \A x \in timed : \E i \in 1..n : s[i] = x
      /\ \A i, j \in 1..n : i < j => <<s[i], s[j]>> \in R
  BY <1>1, <1>6, InOrderIs, Zenon
<1> HIDE DEF s, n
<1>8. DOMAIN s = 1..n /\ Len(s) = n
  <2>1. DOMAIN s = 1..n /\ s = [i \in 1..n |-> s[i]]
    BY <1>7
  <2> QED
    BY <1>7, <2>1, LenIs, Zenon
<1>9. \A i \in 1..n : s[i] \in timed /\ s[i].time \in Int
  BY <1>4, <1>7
<1>10. \A i, j \in 1..n : i <= j => s[i].time <= s[j].time
  <2>1. ASSUME NEW i \in 1..n, NEW j \in 1..n, i <= j
        PROVE  s[i].time <= s[j].time
    <3>1. CASE i = j
      BY <1>9, <3>1
    <3>2. CASE i < j
      <4>1. Faster(s[i], s[j])
        BY <1>3, <1>7, <1>9, <3>2
      <4> QED
        BY <1>9, <4>1 DEF Faster
    <3> QED
      BY <1>7, <2>1, <3>1, <3>2
  <2> QED
    BY <2>1
<1>11. CASE e \notin timed
  <2>1. at = {}
    BY <1>7, <1>8, <1>11
  <2> QED
    BY <1>2, <1>11, <2>1 DEF timed
<1>12. CASE e \in timed
  <2>1. at # {}
    BY <1>7, <1>8, <1>12
  <2>2. PICK k \in at : k = CHOOSE i \in at : TRUE
    BY <2>1
  <2>3. k \in 1..n /\ s[k] = e
    BY <1>8
  <2>4. Places(entries)[e] = PlacesDown(s)[k]
    BY <1>2, <2>1, <2>2
  <2>5. PICK p : p = PlacesDown(s)[k]
    OBVIOUS
  <2>6. /\ p \in 1..k /\ (\A j \in p..k : s[j].time = s[k].time) /\ ~Level(s, p)
    BY <1>7, <1>8, <2>3, <2>5, LevelFromThePlace
  <2>7. p \in 1..n /\ k \in Nat
    BY <1>7, <2>3, <2>6
  <2>8. s[p].time = e.time
    BY <2>3, <2>6, <2>7
  <2>9. \A j \in 1..n : s[j].time < e.time <=> j < p
    <3>1. ASSUME NEW j \in 1..n, j < p
          PROVE  s[j].time < e.time
      <4>1. p > 1 /\ p - 1 \in 1..n /\ j <= p - 1 /\ p - 1 <= p
        BY <1>7, <2>7, <3>1
      <4>2. s[p].time # s[p - 1].time
        BY <2>6, <4>1 DEF Level
      <4>3. s[j].time <= s[p - 1].time /\ s[p - 1].time <= s[p].time
        BY <1>10, <2>7, <4>1
      <4>4. s[j].time \in Int /\ s[p - 1].time \in Int /\ s[p].time \in Int
        BY <1>9, <2>7, <4>1
      <4> QED
        BY <2>8, <4>2, <4>3, <4>4
    <3>2. ASSUME NEW j \in 1..n, p <= j
          PROVE  ~(s[j].time < e.time)
      <4>1. s[p].time <= s[j].time /\ s[p].time \in Int /\ s[j].time \in Int
        BY <1>9, <1>10, <2>7, <3>2
      <4> QED
        BY <2>8, <4>1
    <3> QED
      BY <1>7, <2>7, <3>1, <3>2
  <2>10. \A i, j \in 1..n : s[i] = s[j] => i = j
    <3>1. ASSUME NEW i \in 1..n, NEW j \in 1..n, s[i] = s[j], i < j
          PROVE  FALSE
      <4>1. <<s[i], s[i]>> \in R
        BY <1>7, <3>1
      <4> QED
        BY <1>6, <1>9, <4>1 DEF Orders
    <3> QED
      BY <1>7, <3>1
  <2> DEFINE faster == {f \in timed : f.time < e.time}
             g == [j \in 1..(p - 1) |-> s[j]]
  <2>11. IsFiniteSet(1..(p - 1)) /\ Cardinality(1..(p - 1)) = p - 1
    <3>1. PICK m \in Int : m = p - 1 /\ (1 > m => m = 0) /\ (1 <= m => m - 1 + 1 = m)
      BY <2>7
    <3>2. IsFiniteSet(1..m) /\ Cardinality(1..m) = IF 1 > m THEN 0 ELSE m - 1 + 1
      BY FS_Interval
    <3>3. IsFiniteSet(1..m) /\ Cardinality(1..m) = m
      BY <3>1, <3>2
    <3> QED
      BY <3>1, <3>3
  <2>12. \A j \in 1..(p - 1) : j \in 1..n /\ j < p
    BY <1>7, <2>7
  <2>13. g \in [1..(p - 1) -> faster]
    BY <1>9, <2>9, <2>12
  <2>14. \A x, y \in 1..(p - 1) : g[x] = g[y] => x = y
    BY <2>10, <2>12
  <2>15. \A f \in faster : \E j \in 1..(p - 1) : g[j] = f
    <3>1. ASSUME NEW f \in faster
          PROVE  \E j \in 1..(p - 1) : g[j] = f
      <4>1. PICK j \in 1..n : s[j] = f
        BY <1>7
      <4>2. j < p
        BY <2>9, <3>1, <4>1
      <4>3. j \in 1..(p - 1)
        BY <1>7, <2>7, <4>2
      <4> QED
        BY <4>1, <4>3
    <3> QED
      BY <3>1
  <2>16. Cardinality(faster) = p - 1
    <3> HIDE DEF faster, g
    <3> QED
      BY <2>11, <2>13, <2>14, <2>15, AsMany
  <2>17. PlaceAmong(timed, e) = 1 + Cardinality(faster)
    BY DEF PlaceAmong
  <2> HIDE DEF faster
  <2>18. PlaceAmong(timed, e) = p
    BY <2>7, <2>16, <2>17
  <2> QED
    BY <1>12, <2>4, <2>5, <2>18 DEF timed
<1> QED
  BY <1>11, <1>12 DEF timed

(* A line keeps its status and its time, and gets its bib ...              *)
LEMMA BibAdded ==
    ASSUME NEW e, NEW b, "status" \in DOMAIN e, "time" \in DOMAIN e
    PROVE  LET f == Having(e, "bib", b) IN
           /\ f.bib = b /\ f.status = e.status /\ f.time = e.time
           /\ {"bib", "status", "time"} \subseteq DOMAIN f
  BY DEF Having

(* ... and its place.                                                      *)
LEMMA PlaceAdded ==
    ASSUME NEW e, NEW p, {"bib", "status", "time"} \subseteq DOMAIN e
    PROVE  LET f == Having(e, "place", p) IN
           f.place = p /\ f.bib = e.bib /\ f.status = e.status /\ f.time = e.time
  BY DEF Having

LEMMA EntryHas ==
    ASSUME NEW input, NEW p
    PROVE  "status" \in DOMAIN EntryOf(input, p) /\ "time" \in DOMAIN EntryOf(input, p)
<1>1. ASSUME NEW start, NEW atStart, NEW atFinish
      PROVE  /\ "status" \in DOMAIN Entry(input, p, start, atStart, atFinish)
             /\ "time" \in DOMAIN Entry(input, p, start, atStart, atFinish)
  BY DEF Entry
<1> QED
  BY <1>1 DEF EntryOf

(* The entries of a race, of which no two have one bib, and their lines.   *)
AreEntries(entries) ==
    /\ IsFiniteSet(entries)
    /\ \A e \in entries : /\ e.bib \in Int /\ e.time \in Int \cup {None}
                          /\ {"bib", "status", "time"} \subseteq DOMAIN e
    /\ \A e, f \in entries : e.bib = f.bib => e = f

Lines(entries) == {Having(e, "place", Places(entries)[e]) : e \in entries}

(* A line for an entry, and the place of a line counts the lines before.   *)
LEMMA LinesCount ==
    ASSUME NEW entries, AreEntries(entries)
    PROVE  /\ IsFiniteSet(Lines(entries))
           /\ Cardinality(Lines(entries)) = Cardinality(entries)
           /\ \A l \in Lines(entries) : l.bib \in Int /\ (l.place \in Nat \/ l.place = None)
           /\ \A l, m \in Lines(entries) : l.bib = m.bib => l = m
           /\ \A l \in Lines(entries) :
                 l.place = IF l \in Timed(Lines(entries)) THEN PlaceAmong(Timed(Lines(entries)), l) ELSE None
<1> DEFINE line(e) == Having(e, "place", Places(entries)[e])
           lines == Lines(entries)
           g == [e \in entries |-> line(e)]
<1>1. \A e \in entries : /\ line(e).place = Places(entries)[e] /\ line(e).bib = e.bib
                         /\ line(e).status = e.status /\ line(e).time = e.time
  <2>1. ASSUME NEW e \in entries
        PROVE  /\ line(e).place = Places(entries)[e] /\ line(e).bib = e.bib
               /\ line(e).status = e.status /\ line(e).time = e.time
    <3>1. PICK p : p = Places(entries)[e]
      OBVIOUS
    <3>2. {"bib", "status", "time"} \subseteq DOMAIN e
      BY DEF AreEntries
    <3>3. Having(e, "place", p).place = p /\ Having(e, "place", p).bib = e.bib
          /\ Having(e, "place", p).status = e.status /\ Having(e, "place", p).time = e.time
      BY <3>2, PlaceAdded
    <3> QED
      BY <3>1, <3>3
  <2> QED
    BY <2>1
<1>2. lines = {line(e) : e \in entries}
  BY DEF Lines
<1>3. \A e \in entries : /\ e.bib \in Int
                         /\ Places(entries)[e] = IF e \in Timed(entries) THEN PlaceAmong(Timed(entries), e) ELSE None
                         /\ Places(entries)[e] \in Nat \/ Places(entries)[e] = None
  <2>1. \A e \in entries : e.bib \in Int /\ e.time \in Int \cup {None}
    BY DEF AreEntries
  <2>2. \A e, f \in entries : e.bib = f.bib => e = f
    BY DEF AreEntries
  <2>3. IsFiniteSet(entries)
    BY DEF AreEntries
  <2> QED
    BY <2>1, <2>2, <2>3, PlacesCount, PlacesAre
<1>4. \A e, f \in entries : e.bib = f.bib => e = f
  BY DEF AreEntries
<1> HIDE DEF line, lines
<1>5. \A e, f \in entries : line(e) = line(f) => e = f
  BY <1>1, <1>4
<1>6. IsFiniteSet(lines) /\ Cardinality(lines) = Cardinality(entries)
  <2>1. IsFiniteSet(entries)
    BY DEF AreEntries
  <2>2. g \in [entries -> lines] /\ (\A x, y \in entries : g[x] = g[y] => x = y)
        /\ \A y \in lines : \E x \in entries : g[x] = y
    BY <1>2, <1>5
  <2> HIDE DEF g
  <2> QED
    BY <2>1, <2>2, AsMany
<1>7. \A e \in entries : line(e) \in lines /\ (line(e) \in Timed(lines) <=> e \in Timed(entries))
  BY <1>1, <1>2 DEF Timed
<1>8. ASSUME NEW e \in entries
      PROVE  PlaceAmong(Timed(lines), line(e)) = PlaceAmong(Timed(entries), e)
  <2> DEFINE S == {f \in Timed(entries) : f.time < e.time}
             T == {l \in Timed(lines) : l.time < line(e).time}
             h == [f \in S |-> line(f)]
  <2>1. IsFiniteSet(S)
    <3>1. S \subseteq entries
      BY DEF Timed
    <3>2. IsFiniteSet(entries)
      BY DEF AreEntries
    <3> HIDE DEF S
    <3> QED
      BY <3>1, <3>2, FS_Subset
  <2>2. S \subseteq entries /\ Timed(lines) \subseteq lines
    BY DEF Timed
  <2>3. \A f \in entries : f \in S <=> line(f) \in T
    BY <1>1, <1>7
  <2>4. \A l \in T : l \in lines
    BY <2>2
  <2> HIDE DEF S, T
  <2>5. h \in [S -> T] /\ \A x, y \in S : h[x] = h[y] => x = y
    BY <1>5, <2>2, <2>3
  <2>6. \A y \in T : \E x \in S : h[x] = y
    BY <1>2, <2>2, <2>3, <2>4
  <2>7. Cardinality(T) = Cardinality(S)
    <3> HIDE DEF h
    <3> QED
      BY <2>1, <2>5, <2>6, AsMany
  <2> QED
    BY <2>7 DEF PlaceAmong, S, T
<1>9. \A l \in lines : l.bib \in Int /\ (l.place \in Nat \/ l.place = None)
  BY <1>1, <1>2, <1>3
<1>10. \A l, m \in lines : l.bib = m.bib => l = m
  BY <1>1, <1>2, <1>4
<1>11. \A l \in lines : l.place = IF l \in Timed(lines) THEN PlaceAmong(Timed(lines), l) ELSE None
  BY <1>1, <1>2, <1>3, <1>7, <1>8
<1> QED
  BY <1>6, <1>9, <1>10, <1>11 DEF lines

(* The lines of a sheet are all in it, once each, and in their order.      *)
LEMMA LinesInOrder ==
    ASSUME NEW lines, IsFiniteSet(lines),
           \A l \in lines : l.bib \in Int /\ (l.place \in Nat \/ l.place = None),
           \A l, m \in lines : l.bib = m.bib => l = m
    PROVE  LET s == InOrder(lines, Pairs(lines, Listed)) IN
           /\ Len(s) = Cardinality(lines) /\ Range(s) = lines
           /\ \A i, j \in DOMAIN s : i < j => Listed(s[i], s[j])
<1> DEFINE R == Pairs(lines, Listed)
           s == InOrder(lines, R)
           n == Cardinality(lines)
<1>1. \A l, m \in lines : <<l, m>> \in R <=> Listed(l, m)
  BY DEF Pairs
<1>2. \A l \in lines : Printed(l)
  BY DEF Printed
<1> HIDE DEF R
<1>3. Orders(lines, R)
  BY <1>1, <1>2, ListedOrders DEF Orders
<1>4. /\ n \in Nat
      /\ s \in [1..n -> lines]
      /\ \A x \in lines : \E i \in 1..n : s[i] = x
      /\ \A i, j \in 1..n : i < j => <<s[i], s[j]>> \in R
  BY <1>3, InOrderIs, Zenon
<1> HIDE DEF s, n
<1>5. DOMAIN s = 1..n /\ s = [i \in 1..n |-> s[i]]
  BY <1>4
<1>6. Len(s) = n
  BY <1>4, <1>5, LenIs, Zenon
<1>7. Range(s) = lines
  BY <1>4, <1>5 DEF Range
<1>8. \A i, j \in DOMAIN s : i < j => Listed(s[i], s[j])
  BY <1>1, <1>4, <1>5
<1> QED
  BY <1>6, <1>7, <1>8 DEF s, n, R

(* What score makes of everybody, before it places them.                   *)
EntryWithBib(input, p) == Having(EntryOf(input, p), "bib", input.roster[p])

EntriesOf(input) == {EntryWithBib(input, p) : p \in DOMAIN input.roster}

LEMMA EntriesAre ==
    ASSUME NEW input, IsRace(input)
    PROVE  /\ AreEntries(EntriesOf(input))
           /\ IsFiniteSet(DOMAIN input.roster)
           /\ Cardinality(EntriesOf(input)) = Cardinality(DOMAIN input.roster)
           /\ \A p \in DOMAIN input.roster :
                 /\ EntryWithBib(input, p).bib = input.roster[p]
                 /\ EntryWithBib(input, p).time = EntryOf(input, p).time
                 /\ EntryWithBib(input, p).status = EntryOf(input, p).status
           /\ \A p, q \in DOMAIN input.roster : input.roster[p] = input.roster[q] => p = q
<1> DEFINE bibs == input.roster
           runners == DOMAIN bibs
           entry(p) == EntryWithBib(input, p)
           entries == EntriesOf(input)
<1>2. IsFiniteSet(runners) /\ \A p \in runners : bibs[p] \in Int
  BY DEF IsRace, IsRoster, Range
<1>3. \A p, q \in runners : bibs[p] = bibs[q] => p = q
  BY DEF IsRace, IsRoster, IsInjective
<1>4. \A p \in runners : /\ entry(p).bib = bibs[p] /\ entry(p).time \in Int \cup {None}
                         /\ entry(p).time = EntryOf(input, p).time
                         /\ entry(p).status = EntryOf(input, p).status
                         /\ {"bib", "status", "time"} \subseteq DOMAIN entry(p)
  <2>1. ASSUME NEW p \in runners
        PROVE  /\ entry(p).bib = bibs[p] /\ entry(p).time \in Int \cup {None}
               /\ entry(p).time = EntryOf(input, p).time
               /\ entry(p).status = EntryOf(input, p).status
               /\ {"bib", "status", "time"} \subseteq DOMAIN entry(p)
    <3>1. PICK e : e = EntryOf(input, p)
      OBVIOUS
    <3>2. PICK b : b = bibs[p]
      OBVIOUS
    <3>3. e.time \in Int \cup {None} /\ "status" \in DOMAIN e /\ "time" \in DOMAIN e
      BY <3>1, TimesAre, EntryHas
    <3>4. LET f == Having(e, "bib", b) IN
          /\ f.bib = b /\ f.status = e.status /\ f.time = e.time
          /\ {"bib", "status", "time"} \subseteq DOMAIN f
      BY <3>3, BibAdded
    <3>5. entry(p) = Having(e, "bib", b)
      BY <3>1, <3>2 DEF EntryWithBib
    <3> HIDE DEF entry
    <3> QED
      BY <3>1, <3>2, <3>3, <3>4, <3>5
  <2> QED
    BY <2>1
<1>5. entries = {entry(p) : p \in runners}
  BY DEF EntriesOf
<1> HIDE DEF entry, bibs, entries
<1>6. IsFiniteSet(entries) /\ Cardinality(entries) = Cardinality(runners)
  <2> DEFINE g == [p \in runners |-> entry(p)]
  <2>1. /\ g \in [runners -> entries] /\ \A x, y \in runners : g[x] = g[y] => x = y
        /\ \A y \in entries : \E x \in runners : g[x] = y
    BY <1>3, <1>4, <1>5
  <2> HIDE DEF g
  <2> QED
    BY <1>2, <2>1, AsMany
<1>7. AreEntries(entries)
  BY <1>2, <1>3, <1>4, <1>5, <1>6 DEF AreEntries
<1> QED
  BY <1>2, <1>3, <1>4, <1>6, <1>7 DEF entry, bibs, entries

(* score, for every race: a sheet lists everybody registered, and places   *)
(* them by their times (results.rs, score, assign_places and               *)
(* sort_for_publication).                                                  *)
THEOREM PlacesAreByTime ==
    ASSUME NEW input, IsRace(input)
    PROVE  Len(Score(input)) = Cardinality(DOMAIN input.roster) /\ PlacedByTime(Score(input))
<1> DEFINE entries == EntriesOf(input)
           lines == Lines(entries)
           s == Score(input)
<1>1. s = InOrder(lines, Pairs(lines, Listed))
  BY Zenon DEF Score, Lines, EntriesOf, EntryWithBib
<1>6. AreEntries(entries) /\ Cardinality(entries) = Cardinality(DOMAIN input.roster)
  BY EntriesAre
<1> HIDE DEF entries
<1>7. /\ IsFiniteSet(lines)
      /\ Cardinality(lines) = Cardinality(entries)
      /\ \A l \in lines : l.bib \in Int /\ (l.place \in Nat \/ l.place = None)
      /\ \A l, m \in lines : l.bib = m.bib => l = m
      /\ \A l \in lines : l.place = IF l \in Timed(lines) THEN PlaceAmong(Timed(lines), l) ELSE None
  BY <1>6, LinesCount
<1> HIDE DEF lines, s
<1>8. /\ Len(s) = Cardinality(lines) /\ Range(s) = lines
      /\ \A i, j \in DOMAIN s : i < j => Listed(s[i], s[j])
  BY <1>1, <1>7, LinesInOrder
<1>9. \A i \in DOMAIN s : s[i].place \in Nat \/ s[i].place = None
  BY <1>7, <1>8 DEF Range
<1>10. ASSUME NEW i \in DOMAIN s, NEW j \in DOMAIN s, i < j, Some(s[j].place)
       PROVE  Some(s[i].place) /\ s[i].place <= s[j].place
  <2>1. PICK a : a = s[i]
    OBVIOUS
  <2>2. PICK b : b = s[j]
    OBVIOUS
  <2>3. Listed(a, b) /\ Some(b.place)
    BY <1>8, <1>10, <2>1, <2>2
  <2>4. Some(a.place) /\ PlaceKey(a) <= PlaceKey(b)
    <3>1. PlaceKey(a) \in Nat /\ PlaceKey(b) \in Nat
      BY <1>9, <2>1, <2>2 DEF PlaceKey, Some
    <3> QED
      BY <2>3, <3>1, ListedIs
  <2> QED
    BY <2>1, <2>2, <2>3, <2>4 DEF PlaceKey
<1>11. Timed(lines) = {e \in Range(s) : e.status = "finished" /\ Some(e.time)}
  BY <1>8 DEF Timed, IsPlaced
<1>12. PlacedByTime(s)
  BY <1>7, <1>8, <1>10, <1>11 DEF PlacedByTime, PlaceAmong
<1>13. Len(s) = Cardinality(DOMAIN input.roster)
  BY <1>6, <1>7, <1>8
<1> QED
  BY <1>12, <1>13 DEF s

-----------------------------------------------------------------------------
(***************************************************************************)
(* What derivation makes of the evidence.                                  *)
(***************************************************************************)

(* Reads, of which no two have one place in the journal.                   *)
AreReads(reads) ==
    /\ IsFiniteSet(reads)
    /\ \A r \in reads : r.at \in Int /\ r.seq \in Int
    /\ \A r, s \in reads : r.seq = s.seq => r = s

(* A set in an order, by what it comes to.                                 *)
IsListOf(s, S, R) ==
    /\ Len(s) \in Nat /\ s \in [1..Len(s) -> S]
    /\ \A x \in S : \E i \in 1..Len(s) : s[i] = x
    /\ \A i, j \in 1..Len(s) : i < j => <<s[i], s[j]>> \in R

LEMMA InOrderLists ==
    ASSUME NEW S, IsFiniteSet(S), NEW R, Orders(S, R)
    PROVE  IsListOf(InOrder(S, R), S, R) /\ Len(InOrder(S, R)) = Cardinality(S)
<1> DEFINE n == Cardinality(S)
           s == InOrder(S, R)
<1>1. /\ n \in Nat
      /\ s \in [1..n -> S]
      /\ \A x \in S : \E i \in 1..n : s[i] = x
      /\ \A i, j \in 1..n : i < j => <<s[i], s[j]>> \in R
  BY InOrderIs, Zenon
<1> HIDE DEF n, s
<1>2. DOMAIN s = 1..n /\ s = [i \in 1..n |-> s[i]]
  BY <1>1
<1>3. Len(s) = n
  BY <1>1, <1>2, LenIs, Zenon
<1>4. IsListOf(s, S, R)
  BY <1>1, <1>3, Zenon DEF IsListOf
<1> QED
  BY <1>3, <1>4 DEF s, n

(* Nothing is in a list twice.                                             *)
LEMMA ListedOnce ==
    ASSUME NEW S, NEW R, Orders(S, R), NEW s, IsListOf(s, S, R),
           NEW i \in 1..Len(s), NEW j \in 1..Len(s), s[i] = s[j]
    PROVE  i = j
<1>1. s[i] \in S /\ <<s[i], s[i]>> \notin R /\ Len(s) \in Nat
  BY DEF IsListOf, Orders
<1>2. ~(i < j) /\ ~(j < i)
  BY <1>1 DEF IsListOf
<1> QED
  BY <1>1, <1>2

(* The reads of a chip at a checkpoint, by time.                           *)
Here(input, chip, checkpoint) ==
    {r \in Range(input.reads) : r.chip = chip /\ Resolve(input.antennas, r) = checkpoint}

InTime(reads) == Pairs(reads, Earlier)

LEMMA EarlierOrders ==
    ASSUME NEW reads, AreReads(reads)
    PROVE  Orders(reads, InTime(reads))
<1> DEFINE R == InTime(reads)
<1>1. \A r, s \in reads : <<r, s>> \in R <=> Earlier(r, s)
  BY DEF Pairs, InTime
<1> HIDE DEF R
<1>2. Orders(reads, R)
  BY <1>1 DEF Orders, AreReads, Earlier
<1> QED
  BY <1>2 DEF R

LEMMA FewerReads ==
    ASSUME NEW reads, AreReads(reads), NEW some \in SUBSET reads
    PROVE  AreReads(some)
<1>1. IsFiniteSet(some)
  BY FS_Subset DEF AreReads
<1> QED
  BY <1>1 DEF AreReads

LEMMA GroupIs ==
    ASSUME NEW input, AreReads(Range(input.reads)), NEW chip, NEW checkpoint
    PROVE  LET here == Here(input, chip, checkpoint) IN
           /\ AreReads(here)
           /\ IsListOf(Group(input, chip, checkpoint), here, InTime(here))
<1> DEFINE here == Here(input, chip, checkpoint)
<1>1. AreReads(here)
  BY FewerReads DEF Here
<1>2. Group(input, chip, checkpoint) = InOrder(here, InTime(here))
  BY Zenon DEF Group, Here, InTime
<1> HIDE DEF here
<1>3. IsFiniteSet(here) /\ Orders(here, InTime(here))
  BY <1>1, EarlierOrders DEF AreReads
<1> QED
  BY <1>1, <1>2, <1>3, InOrderLists DEF here

(* The bursts of a group: from each read that begins one to the next.      *)
Ends(b, n, k) == IF k < Len(b) THEN b[k + 1] - 1 ELSE n

(* Where the bursts of a group begin.                                      *)
Cuts(b, group, window) ==
    /\ Len(b) \in Nat
    /\ b \in [1..Len(b) -> 1..Len(group)]
    /\ \A k, l \in 1..Len(b) : k < l => b[k] < b[l]
    /\ \A i \in 1..Len(group) : BeginsBurst(group, i, window) <=> \E k \in 1..Len(b) : b[k] = i

BurstAt(b, group, k) == SubSeq(group, b[k], Ends(b, Len(group), k))

LEMMA BurstsAre ==
    ASSUME NEW group, Len(group) \in Nat, DOMAIN group = 1..Len(group), NEW window
    PROVE  \E b : /\ Cuts(b, group, window) /\ Len(Bursts(group, window)) = Len(b)
                  /\ Bursts(group, window) = [k \in 1..Len(b) |-> BurstAt(b, group, k)]
<1> DEFINE first == {i \in DOMAIN group : BeginsBurst(group, i, window)}
           R == Pairs(first, <)
           b == InOrder(first, R)
           n == Len(group)
<1>1. \A i, j \in first : <<i, j>> \in R <=> i < j
  BY DEF Pairs
<1>2. IsFiniteSet(1..n)
  BY FS_Interval
<1>3. first \subseteq 1..n
  OBVIOUS
<1>4. \A i \in 1..n : i \in first <=> BeginsBurst(group, i, window)
  OBVIOUS
<1>5. Bursts(group, window) = [k \in DOMAIN b |-> SubSeq(group, b[k], IF k < Len(b) THEN b[k + 1] - 1 ELSE n)]
  BY Zenon DEF Bursts
<1> HIDE DEF first, R
<1>6. Orders(first, R)
  BY <1>1, <1>3 DEF Orders
<1>7. IsListOf(b, first, R)
  BY <1>2, <1>3, <1>6, FS_Subset, InOrderLists
<1> HIDE DEF b
<1>8. /\ Len(b) \in Nat /\ b \in [1..Len(b) -> 1..n] /\ DOMAIN b = 1..Len(b)
      /\ \A k, l \in 1..Len(b) : k < l => b[k] < b[l]
      /\ \A i \in 1..n : BeginsBurst(group, i, window) <=> \E k \in 1..Len(b) : b[k] = i
  BY <1>1, <1>3, <1>4, <1>7 DEF IsListOf
<1>9. Bursts(group, window) = [k \in 1..Len(b) |-> SubSeq(group, b[k], Ends(b, n, k))]
  BY <1>5, <1>8 DEF Ends
<1>10. Len(Bursts(group, window)) = Len(b)
  <2> DEFINE s == Bursts(group, window)
  <2>1. DOMAIN s = 1..Len(b) /\ s = [k \in 1..Len(b) |-> s[k]]
    BY <1>9
  <2> HIDE DEF s
  <2>2. Len(s) = Len(b)
    BY <1>8, <2>1, LenIs, Zenon
  <2> QED
    BY <2>2 DEF s
<1>11. Cuts(b, group, window)
  BY <1>8 DEF Cuts
<1> QED
  BY <1>9, <1>10, <1>11 DEF BurstAt

(* A burst is what its group has from where it begins to where it ends ... *)
LEMMA BurstIs ==
    ASSUME NEW group, Len(group) \in Nat, NEW window, NEW b, Cuts(b, group, window), NEW k \in 1..Len(b)
    PROVE  LET burst == BurstAt(b, group, k)
               ends == Ends(b, Len(group), k)
           IN  /\ b[k] \in 1..Len(group) /\ ends \in b[k]..Len(group)
               /\ Len(burst) = ends - b[k] + 1 /\ DOMAIN burst = 1..Len(burst)
               /\ \A i \in 1..Len(burst) : burst[i] = group[b[k] + i - 1]
<1> DEFINE n == Len(group)
           ends == Ends(b, n, k)
           burst == BurstAt(b, group, k)
<1>1. b[k] \in 1..n /\ Len(b) \in Nat
  BY DEF Cuts
<1>2. ends \in b[k]..n
  <2>1. CASE k < Len(b)
    <3>1. k + 1 \in 1..Len(b) /\ k < k + 1
      BY <1>1, <2>1
    <3>2. b[k] < b[k + 1] /\ b[k + 1] \in 1..n
      BY <3>1 DEF Cuts
    <3> QED
      BY <1>1, <2>1, <3>2 DEF Ends
  <2> QED
    BY <1>1, <2>1 DEF Ends
<1> HIDE DEF ends
<1>3. PICK m \in Int : m = b[k]
  BY <1>1
<1>4. m <= ends /\ ends \in Int /\ ends - m + 1 \in Nat
  BY <1>1, <1>2, <1>3
<1> DEFINE S == {group[i] : i \in m..ends}
<1>5. \A i \in m..ends : group[i] \in S
  OBVIOUS
<1> HIDE DEF S
<1>6. SubSeq(group, m, ends) \in Seq(S)
      /\ Len(SubSeq(group, m, ends)) = (IF m <= ends THEN ends - m + 1 ELSE 0)
      /\ \A i \in 1..(ends - m + 1) : SubSeq(group, m, ends)[i] = group[m + i - 1]
  BY SMTT(60), <1>4, <1>5, SubSeqProperties
<1>7. burst = SubSeq(group, m, ends)
  BY <1>3 DEF BurstAt, ends
<1> HIDE DEF burst
<1>8. Len(burst) = ends - m + 1 /\ DOMAIN burst = 1..Len(burst)
      /\ \A i \in 1..Len(burst) : burst[i] = group[m + i - 1]
  BY <1>4, <1>6, <1>7
<1> QED
  BY <1>1, <1>2, <1>3, <1>8 DEF burst, ends

(* ... which is before the next begins.                                    *)
LEMMA BurstsAreApart ==
    ASSUME NEW group, Len(group) \in Nat, NEW window, NEW b, Cuts(b, group, window),
           NEW k \in 1..Len(b), NEW l \in 1..Len(b), k < l
    PROVE  Ends(b, Len(group), k) < b[l]
<1>1. Len(b) \in Nat /\ k < Len(b) /\ k + 1 \in 1..Len(b) /\ k + 1 <= l
  BY DEF Cuts
<1>2. b[k + 1] \in 1..Len(group) /\ b[l] \in 1..Len(group)
  BY <1>1 DEF Cuts
<1>3. b[k + 1] <= b[l]
  BY <1>1, <1>2 DEF Cuts
<1> QED
  BY <1>1, <1>2, <1>3 DEF Ends

(* What is chosen of a burst is the first that the rule accepts.           *)
Accepts(burst, rule, i) ==
    CASE rule.is = "first" -> TRUE
      [] rule.is = "first above" -> burst[i].rssi >= rule.floor
      [] rule.is = "peak" -> \A j \in DOMAIN burst : burst[j].rssi <= burst[i].rssi

LEMMA SelectIs ==
    ASSUME NEW burst, Len(burst) \in Nat, DOMAIN burst = 1..Len(burst), NEW rule
    PROVE  LET wanted == {i \in DOMAIN burst : Accepts(burst, rule, i)} IN
           IF wanted = {} THEN Select(burst, rule) = None
           ELSE \E i \in wanted : (\A j \in wanted : i <= j) /\ Select(burst, rule) = burst[i]
<1> DEFINE wanted == {i \in DOMAIN burst : Accepts(burst, rule, i)}
<1>1. Select(burst, rule) =
         IF wanted = {} THEN None ELSE burst[CHOOSE i \in wanted : \A j \in wanted : i <= j]
  BY Zenon DEF Select, Accepts
<1>2. wanted \in SUBSET Nat
  OBVIOUS
<1> HIDE DEF wanted
<1>3. wanted # {} => \E i \in wanted : \A j \in wanted : i <= j
  BY <1>2, LeastOf
<1> QED
  BY <1>1, <1>3 DEF wanted

(* What the loop of derive goes on with from a burst: itself, or what it   *)
(* had.                                                                    *)
Credit(gun, choices, bursts, k) ==
    [burst |-> k, at |-> choices[k].at, raceSide |-> OnTheRaceSide(bursts[k], gun)]

GoOn(policy, gun, choices, bursts, earlier, k) ==
    IF ~Some(choices[k])
       \/ TooSoon(policy.minLap, earlier, choices[k].at, OnTheRaceSide(bursts[k], gun))
    THEN earlier ELSE Credit(gun, choices, bursts, k)

GoesOn(policy, gun, choices, bursts, n, f) ==
    f = [k \in 0..n |-> IF k = 0 THEN None ELSE GoOn(policy, gun, choices, bursts, f[k - 1], k)]

(* The loop comes to an end, however many bursts there are.                *)
LEMMA SomethingGoesOn ==
    ASSUME NEW policy, NEW gun, NEW choices, NEW bursts, NEW n \in Nat
    PROVE  \E f : GoesOn(policy, gun, choices, bursts, n, f)
<1> DEFINE AndOn(earlier, k) == GoOn(policy, gun, choices, bursts, earlier, k)
           Good(m) == \E f : f = [k \in 0..m |-> IF k = 0 THEN None ELSE AndOn(f[k - 1], k)]
           Bad == {m \in Nat : ~Good(m)}
<1> HIDE DEF AndOn
<1>1. Good(0)
  <2> DEFINE f == [k \in 0..0 |-> None]
  <2>1. 0..0 = {0} /\ f[0] = None
    OBVIOUS
  <2>2. f = [k \in 0..0 |-> IF k = 0 THEN None ELSE AndOn(f[k - 1], k)]
    BY <2>1
  <2> QED
    BY <2>2
<1>2. ASSUME NEW m \in Nat, Good(m)
      PROVE  Good(m + 1)
  <2>1. PICK f : f = [k \in 0..m |-> IF k = 0 THEN None ELSE AndOn(f[k - 1], k)]
    BY <1>2
  <2> DEFINE g == [k \in 0..(m + 1) |-> IF k = m + 1 THEN AndOn(f[m], m + 1) ELSE f[k]]
             h == [k \in 0..(m + 1) |-> IF k = 0 THEN None ELSE AndOn(g[k - 1], k)]
  <2>2. \A k \in 0..m : g[k] = f[k] /\ f[k] = IF k = 0 THEN None ELSE AndOn(f[k - 1], k)
    BY <2>1
  <2>3. g[m + 1] = AndOn(f[m], m + 1)
    OBVIOUS
  <2>4. DOMAIN g = 0..(m + 1) /\ g = [k \in 0..(m + 1) |-> g[k]]
    OBVIOUS
  <2> HIDE DEF g
  <2>5. ASSUME NEW k \in 0..(m + 1)
        PROVE  g[k] = IF k = 0 THEN None ELSE AndOn(g[k - 1], k)
    <3>1. CASE k = m + 1
      <4>1. k - 1 = m /\ m \in 0..m /\ k # 0
        BY <3>1
      <4> QED
        BY <2>2, <2>3, <3>1, <4>1
    <3>2. CASE k \in 0..m /\ k # 0
      <4>1. k - 1 \in 0..m
        BY <3>2
      <4> QED
        BY <2>2, <3>2, <4>1
    <3>3. CASE k = 0
      BY <2>2, <3>3
    <3> QED
      BY <3>1, <3>2, <3>3
  <2>6. g = [k \in 0..(m + 1) |-> IF k = 0 THEN None ELSE AndOn(g[k - 1], k)]
    BY <2>4, <2>5
  <2> QED
    BY <2>6
<1>3. Bad = {}
  <2>1. SUFFICES ASSUME Bad # {} PROVE FALSE
    OBVIOUS
  <2>2. PICK m \in Bad : \A y \in Bad : m <= y
    <3>1. Bad \in SUBSET Nat
      OBVIOUS
    <3> HIDE DEF Bad
    <3> QED
      BY <2>1, <3>1, LeastOf
  <2> HIDE DEF Good
  <2>3. m \in Nat /\ ~Good(m)
    OBVIOUS
  <2>4. m # 0 /\ m - 1 \in Nat /\ (m - 1) + 1 = m /\ ~(m <= m - 1)
    BY <1>1, <2>3
  <2>5. Good(m - 1)
    BY <2>2, <2>4
  <2>6. Good((m - 1) + 1)
    BY <1>2, <2>4, <2>5
  <2> QED
    BY <2>3, <2>4, <2>6
<1>4. Good(n)
  BY <1>3
<1> QED
  BY <1>4 DEF GoesOn, AndOn

(* A burst is credited if something was chosen of it that is not too soon  *)
(* after the one credited before, which is the last of those that were.    *)
Keeps(policy, gun, choices, bursts, last, k) ==
    /\ Some(choices[k])
    /\ ~TooSoon(policy.minLap, last[k - 1], choices[k].at, OnTheRaceSide(bursts[k], gun))

IsLast(policy, gun, choices, bursts, last, k) ==
    \/ last[k] = None /\ \A j \in 1..k : ~Keeps(policy, gun, choices, bursts, last, j)
    \/ \E j \in 1..k : /\ Keeps(policy, gun, choices, bursts, last, j)
                       /\ last[k] = Credit(gun, choices, bursts, j)
                       /\ \A i \in (j + 1)..k : ~Keeps(policy, gun, choices, bursts, last, i)

LEMMA CreditsAre ==
    ASSUME NEW policy, NEW gun, NEW choices, NEW bursts, Len(bursts) \in Nat,
           DOMAIN bursts = 1..Len(bursts),
           \A k \in 1..Len(bursts) : Some(choices[k]) => choices[k].at \in Int
    PROVE  \E last :
              /\ \A k \in 0..Len(bursts) : IsLast(policy, gun, choices, bursts, last, k)
              /\ Credits(policy, gun, choices, bursts) =
                    {k \in 1..Len(bursts) : Keeps(policy, gun, choices, bursts, last, k)}
<1> DEFINE m == Len(bursts)
           last == CHOOSE f : GoesOn(policy, gun, choices, bursts, m, f)
           Kept(k) == Keeps(policy, gun, choices, bursts, last, k)
           Credit1(k) == Credit(gun, choices, bursts, k)
           Good(k) == \/ last[k] = None /\ \A j \in 1..k : ~Kept(j)
                      \/ \E j \in 1..k : /\ Kept(j) /\ last[k] = Credit1(j)
                                         /\ \A i \in (j + 1)..k : ~Kept(i)
           Bad == {k \in 0..m : ~Good(k)}
<1>1. Credits(policy, gun, choices, bursts) = {last[k].burst : k \in {i \in DOMAIN bursts : Some(last[i])}}
  BY Zenon DEF Credits, GoesOn, GoOn, Credit
<1>2. GoesOn(policy, gun, choices, bursts, m, last)
  BY SomethingGoesOn, Zenon
<1> HIDE DEF last
<1>3. last[0] = None /\ \A k \in 1..m : last[k] = IF Kept(k) THEN Credit1(k) ELSE last[k - 1]
  <2>1. \A k \in 0..m : last[k] = IF k = 0 THEN None ELSE GoOn(policy, gun, choices, bursts, last[k - 1], k)
    BY <1>2 DEF GoesOn
  <2>2. \A k \in 1..m : GoOn(policy, gun, choices, bursts, last[k - 1], k) = IF Kept(k) THEN Credit1(k) ELSE last[k - 1]
    BY DEF GoOn, Keeps
  <2> QED
    BY <2>1, <2>2
<1> HIDE DEF Kept, Credit1
<1>4. ASSUME NEW k \in 1..m, Good(k - 1)
      PROVE  Good(k)
  <2>1. CASE Kept(k)
    <3>1. last[k] = Credit1(k) /\ k \in 1..k /\ (k + 1)..k = {}
      BY <1>3, <2>1
    <3> QED
      BY <2>1, <3>1
  <2>2. CASE ~Kept(k)
    <3>1. last[k] = last[k - 1]
      BY <1>3, <2>2
    <3>2. \A j \in 1..k : j = k \/ j \in 1..(k - 1)
      OBVIOUS
    <3>3. CASE last[k - 1] = None /\ \A j \in 1..(k - 1) : ~Kept(j)
      BY <2>2, <3>1, <3>2, <3>3
    <3>4. CASE \E j \in 1..(k - 1) : /\ Kept(j) /\ last[k - 1] = Credit1(j)
                                     /\ \A i \in (j + 1)..(k - 1) : ~Kept(i)
      <4>1. PICK j \in 1..(k - 1) : /\ Kept(j) /\ last[k - 1] = Credit1(j)
                                    /\ \A i \in (j + 1)..(k - 1) : ~Kept(i)
        BY <3>4
      <4>2. \A i \in (j + 1)..k : i = k \/ i \in (j + 1)..(k - 1)
        OBVIOUS
      <4>3. j \in 1..k /\ \A i \in (j + 1)..k : ~Kept(i)
        BY <2>2, <4>1, <4>2
      <4> QED
        BY <3>1, <4>1, <4>3
    <3> QED
      BY <1>4, <3>3, <3>4
  <2> QED
    BY <2>1, <2>2
<1>5. Good(0)
  BY <1>3
<1>6. Bad = {}
  <2>1. SUFFICES ASSUME Bad # {} PROVE FALSE
    OBVIOUS
  <2>2. PICK k \in Bad : \A y \in Bad : k <= y
    <3>1. Bad \in SUBSET Nat
      OBVIOUS
    <3> HIDE DEF Bad
    <3> QED
      BY <2>1, <3>1, LeastOf
  <2> HIDE DEF Good
  <2>3. k \in 0..m /\ ~Good(k)
    OBVIOUS
  <2>4. k \in 1..m /\ k - 1 \in 0..m /\ ~(k <= k - 1)
    BY <1>5, <2>3
  <2>5. Good(k - 1)
    BY <2>2, <2>4
  <2> QED
    BY <1>4, <2>3, <2>4, <2>5
<1>7. \A k \in 0..m : Good(k)
  BY <1>6
<1>8. \A k \in 1..m : Kept(k) => Credit1(k) # None
  <2>1. ASSUME NEW k \in 1..m, Kept(k)
        PROVE  Credit1(k) \in [burst : Nat, at : Int, raceSide : BOOLEAN]
    <3>1. choices[k].at \in Int
      BY <2>1 DEF Kept, Keeps
    <3>2. OnTheRaceSide(bursts[k], gun) \in BOOLEAN
      BY DEF OnTheRaceSide
    <3> QED
      BY <3>1, <3>2 DEF Credit1, Credit
  <2> QED
    BY <2>1, NoneIsNothing
<1>9. \A k \in 1..m : Credit1(k).burst = k
  BY DEF Credit1, Credit
<1>10. Credits(policy, gun, choices, bursts) = {k \in 1..m : Kept(k)}
  <2>1. ASSUME NEW k \in 1..m, Some(last[k])
        PROVE  last[k].burst \in 1..m /\ Kept(last[k].burst)
    <3>1. PICK j \in 1..k : Kept(j) /\ last[k] = Credit1(j)
      BY <1>7, <2>1 DEF Some
    <3>2. j \in 1..m
      OBVIOUS
    <3> QED
      BY <1>9, <3>1, <3>2
  <2>2. ASSUME NEW k \in 1..m, Kept(k)
        PROVE  Some(last[k]) /\ last[k].burst = k
    BY <1>3, <1>8, <1>9, <2>2 DEF Some
  <2> QED
    BY <1>1, <2>1, <2>2
<1>11. \A k \in 0..m : IsLast(policy, gun, choices, bursts, last, k)
  BY <1>7 DEF IsLast, Kept, Credit1
<1> QED
  BY <1>10, <1>11 DEF Kept

(* The bursts of a group as sets of reads: they part it, what is in two of *)
(* them is more than a window apart, and in one of them there is always    *)
(* another read within the window, if there is a later one at all.         *)
Part(b, group, k) == {group[i] : i \in b[k]..Ends(b, Len(group), k)}

Parted(part, m, here, window) ==
    /\ m \in Nat
    /\ \A k \in 1..m : part[k] \subseteq here /\ part[k] # {}
    /\ \A r \in here : \E k \in 1..m : r \in part[k]
    /\ \A k, l \in 1..m : k < l => \A r \in part[k], s \in part[l] : s.at - r.at > window
    /\ \A k \in 1..m : \A r, s \in part[k] :
          r.at < s.at => \E u \in part[k] : r.at < u.at /\ u.at <= r.at + window

PartsOf(b, group) == [k \in 1..Len(b) |-> Part(b, group, k)]

(* A list by time is.                                                      *)
LEMMA ByTime ==
    ASSUME NEW reads, AreReads(reads), NEW group, IsListOf(group, reads, InTime(reads))
    PROVE  /\ Len(group) \in Nat /\ DOMAIN group = 1..Len(group)
           /\ \A i \in 1..Len(group) : group[i] \in reads /\ group[i].at \in Int
           /\ \A i, j \in 1..Len(group) : i < j => Earlier(group[i], group[j])
           /\ \A i, j \in 1..Len(group) : i <= j => group[i].at <= group[j].at
<1> DEFINE R == InTime(reads)
<1>1. \A r, s \in reads : <<r, s>> \in R <=> Earlier(r, s)
  BY DEF Pairs, InTime
<1> HIDE DEF R
<1>2. /\ Len(group) \in Nat /\ group \in [1..Len(group) -> reads]
      /\ \A i, j \in 1..Len(group) : i < j => <<group[i], group[j]>> \in R
  BY DEF IsListOf, R
<1>3. \A i \in 1..Len(group) : group[i] \in reads /\ group[i].at \in Int
  BY <1>2 DEF AreReads
<1>4. \A i, j \in 1..Len(group) : i < j => Earlier(group[i], group[j])
  BY <1>1, <1>2
<1>5. \A i, j \in 1..Len(group) : i <= j => group[i].at <= group[j].at
  <2>1. ASSUME NEW i \in 1..Len(group), NEW j \in 1..Len(group), i < j
        PROVE  group[i].at <= group[j].at
    <3>1. Earlier(group[i], group[j])
      BY <1>4, <2>1
    <3>2. group[i].at \in Int /\ group[j].at \in Int
      BY <1>3
    <3> QED
      BY <3>1, <3>2 DEF Earlier
  <2>2. \A i \in 1..Len(group) : group[i].at <= group[i].at
    BY <1>3
  <2> QED
    BY <1>2, <2>1, <2>2
<1> QED
  BY <1>2, <1>3, <1>4, <1>5

LEMMA PartsPart ==
    ASSUME NEW reads, AreReads(reads), NEW group, IsListOf(group, reads, InTime(reads)),
           NEW window \in Nat, NEW b, Cuts(b, group, window)
    PROVE  Parted(PartsOf(b, group), Len(b), reads, window)
<1> DEFINE n == Len(group)
           m == Len(b)
           ends(k) == Ends(b, n, k)
           part == PartsOf(b, group)
<1>1. /\ n \in Nat
      /\ \A i \in 1..n : group[i] \in reads /\ group[i].at \in Int
      /\ \A i, j \in 1..n : i <= j => group[i].at <= group[j].at
  BY ByTime
<1>2. /\ m \in Nat
      /\ \A k \in 1..m : b[k] \in 1..n /\ ends(k) \in b[k]..n
  BY <1>1, BurstIs DEF Cuts
<1>3. \A k \in 1..m : part[k] = {group[i] : i \in b[k]..ends(k)}
  BY DEF PartsOf, Part
<1>4. \A k, l \in 1..m : k < l => ends(k) < b[l]
  BY <1>1, BurstsAreApart
<1>5. \A i \in 1..n : BeginsBurst(group, i, window) <=> \E k \in 1..m : b[k] = i
  BY DEF Cuts
<1>6. \A k \in 1..m : IF k < m THEN ends(k) = b[k + 1] - 1 ELSE ends(k) = n
  BY DEF Ends
<1>7. \A r \in reads : \E i \in 1..n : group[i] = r
  BY DEF IsListOf
<1> HIDE DEF n, m, ends, part
<1>8. \A k \in 1..m : part[k] \subseteq reads /\ part[k] # {}
  <2>1. ASSUME NEW k \in 1..m
        PROVE  part[k] \subseteq reads /\ part[k] # {}
    <3>1. b[k] \in b[k]..ends(k) /\ \A i \in b[k]..ends(k) : i \in 1..n
      BY <1>1, <1>2
    <3>2. part[k] = {group[i] : i \in b[k]..ends(k)}
      BY <1>3
    <3>3. \A i \in b[k]..ends(k) : group[i] \in reads
      BY <1>1, <3>1
    <3>4. part[k] \subseteq reads
      BY <3>2, <3>3, Zenon
    <3>5. group[b[k]] \in part[k]
      BY <3>1, <3>2, Zenon
    <3> QED
      BY <3>4, <3>5, Zenon
  <2> QED
    BY <2>1
<1>9. \A i \in 1..n : \E k \in 1..m : i \in b[k]..ends(k)
  <2>1. ASSUME NEW i \in 1..n
        PROVE  \E k \in 1..m : i \in b[k]..ends(k)
    <3> DEFINE before == {m - k : k \in {l \in 1..m : b[l] <= i}}
    <3>1. 1 \in 1..n /\ BeginsBurst(group, 1, window)
      BY <1>1 DEF BeginsBurst
    <3>2. PICK f \in 1..m : b[f] = 1
      BY <1>5, <3>1
    <3>3. m - f \in before /\ before \in SUBSET Nat
      BY <1>2, <3>2
    <3>4. PICK x \in before : \A y \in before : x <= y
      <4> HIDE DEF before
      <4> QED
        BY <3>3, LeastOf
    <3>5. PICK k \in 1..m : b[k] <= i /\ x = m - k
      OBVIOUS
    <3>6. CASE k = m
      BY <1>1, <1>2, <1>6, <3>5, <3>6
    <3>7. CASE k < m
      <4>1. k + 1 \in 1..m /\ m - (k + 1) < m - k
        BY <1>2, <3>7
      <4>2. ~(b[k + 1] <= i)
        <5>1. b[k + 1] <= i => m - (k + 1) \in before
          BY <4>1
        <5> HIDE DEF before
        <5> QED
          BY <1>2, <3>4, <3>5, <4>1, <5>1
      <4> QED
        BY <1>1, <1>2, <1>6, <3>5, <3>7, <4>1, <4>2
    <3> QED
      BY <1>2, <3>6, <3>7
  <2> QED
    BY <2>1
<1>10. \A r \in reads : \E k \in 1..m : r \in part[k]
  BY <1>3, <1>7, <1>9
<1>11. \A l \in 1..m : b[l] # 1 => group[b[l]].at - group[b[l] - 1].at > window
  <2>1. \A l \in 1..m : BeginsBurst(group, b[l], window)
    BY <1>2, <1>5
  <2> QED
    BY <2>1 DEF BeginsBurst
<1>12. ASSUME NEW k \in 1..m, NEW l \in 1..m, k < l, NEW r \in part[k], NEW s \in part[l]
       PROVE  s.at - r.at > window
  <2>1. PICK i \in b[k]..ends(k) : r = group[i]
    BY <1>3
  <2>2. PICK j \in b[l]..ends(l) : s = group[j]
    BY <1>3
  <2>3. i < b[l] /\ i \in 1..n /\ j \in 1..n /\ b[l] \in 1..n /\ b[l] - 1 \in 1..n
        /\ i <= b[l] - 1 /\ b[l] <= j /\ b[l] # 1
    BY <1>1, <1>2, <1>4, <1>12
  <2>4. group[i].at <= group[b[l] - 1].at /\ group[b[l]].at <= group[j].at
    BY <1>1, <2>3
  <2>5. group[b[l]].at - group[b[l] - 1].at > window
    BY <1>11, <2>3
  <2>6. group[i].at \in Int /\ group[j].at \in Int /\ group[b[l]].at \in Int /\ group[b[l] - 1].at \in Int
    BY <1>1, <2>3
  <2> QED
    BY <2>1, <2>2, <2>4, <2>5, <2>6
<1>13. ASSUME NEW k \in 1..m, NEW r \in part[k], NEW s \in part[k], r.at < s.at
       PROVE  \E u \in part[k] : r.at < u.at /\ u.at <= r.at + window
  <2>1. PICK i \in b[k]..ends(k) : r = group[i]
    BY <1>3
  <2>2. PICK j \in b[k]..ends(k) : s = group[j]
    BY <1>3
  <2> DEFINE later == {q \in b[k]..ends(k) : r.at < group[q].at}
  <2>3. j \in later /\ later \in SUBSET Nat
    BY <1>1, <1>2, <1>13, <2>2
  <2>4. PICK q \in later : \A y \in later : q <= y
    <3> HIDE DEF later
    <3> QED
      BY <2>3, LeastOf
  <2>5. q \in b[k]..ends(k) /\ r.at < group[q].at /\ q \in 1..n /\ i \in 1..n
    BY <1>1, <1>2
  <2>6. ~(q <= i)
    <3>1. q <= i => group[q].at <= group[i].at
      BY <1>1, <2>5
    <3>2. group[q].at \in Int /\ group[i].at \in Int
      BY <1>1, <2>5
    <3> QED
      BY <2>1, <2>5, <3>1, <3>2
  <2>7. q - 1 \in b[k]..ends(k) /\ ~(q <= q - 1) /\ b[k] < q /\ q - 1 \in 1..n
    BY <1>1, <1>2, <2>5, <2>6
  <2>8. group[q - 1].at <= r.at
    <3>1. q - 1 \notin later
      <4> HIDE DEF later
      <4> QED
        BY <2>4, <2>7
    <3>2. ~(r.at < group[q - 1].at)
      BY <2>7, <3>1
    <3> QED
      BY <1>1, <2>1, <2>5, <2>7, <3>2
  <2>9. ~BeginsBurst(group, q, window)
    <3>1. ASSUME NEW l \in 1..m, b[l] = q
          PROVE  FALSE
      <4>1. k < l \/ l < k \/ l = k
        BY <1>2
      <4>2. ~(k < l)
        BY <1>2, <1>4, <2>5, <3>1
      <4>3. ~(l < k)
        BY <1>2, <1>4, <2>7, <3>1
      <4> QED
        BY <1>2, <2>7, <3>1, <4>1, <4>2, <4>3
    <3> QED
      BY <1>5, <2>5, <3>1
  <2>10. group[q].at - group[q - 1].at <= window
    BY <1>1, <2>5, <2>7, <2>9 DEF BeginsBurst
  <2>11. group[q].at \in Int /\ group[q - 1].at \in Int /\ r.at \in Int
    BY <1>1, <2>1, <2>5, <2>7
  <2>12. group[q].at <= r.at + window
    BY <2>8, <2>10, <2>11
  <2> QED
    BY <1>3, <2>5, <2>12
<1>14. Parted(part, m, reads, window)
  BY <1>2, <1>8, <1>10, <1>12, <1>13 DEF Parted
<1> QED
  BY <1>14 DEF part, m

(* What is chosen of a set of reads: the earliest that the rule accepts.   *)
Chosen(part, rule, choice) ==
    IF Wanted(part, rule) = {} THEN choice = None
    ELSE choice \in Wanted(part, rule) /\ \A r \in Wanted(part, rule) : r = choice \/ Earlier(choice, r)

Sided(part, gun) == Some(gun) => \E r \in part : r.at >= gun

(* A burst as a set, what is chosen of it, and whether it is of the race.  *)
IsPartOf(b, group, k, rule, gun) ==
    /\ Range(BurstAt(b, group, k)) = Part(b, group, k)
    /\ Chosen(Part(b, group, k), rule, Select(BurstAt(b, group, k), rule))
    /\ OnTheRaceSide(BurstAt(b, group, k), gun) = Sided(Part(b, group, k), gun)

LEMMA BurstAsPart ==
    ASSUME NEW reads, AreReads(reads), NEW group, IsListOf(group, reads, InTime(reads)),
           NEW window, NEW b, Cuts(b, group, window), NEW k \in 1..Len(b), NEW rule, NEW gun \in Int \cup {None}
    PROVE  IsPartOf(b, group, k, rule, gun)
<1> DEFINE n == Len(group)
           ends == Ends(b, n, k)
           burst == BurstAt(b, group, k)
           part == Part(b, group, k)
           length == Len(burst)
           wanted == {i \in DOMAIN burst : Accepts(burst, rule, i)}
<1>1. /\ n \in Nat
      /\ \A i \in 1..n : group[i] \in reads /\ group[i].at \in Int
      /\ \A i, j \in 1..n : i < j => Earlier(group[i], group[j])
      /\ \A i, j \in 1..n : i <= j => group[i].at <= group[j].at
  BY ByTime
<1>2. /\ b[k] \in 1..n /\ ends \in b[k]..n
      /\ length = ends - b[k] + 1 /\ DOMAIN burst = 1..length
      /\ \A i \in 1..length : burst[i] = group[b[k] + i - 1]
  BY <1>1, BurstIs
<1>3. part = {group[i] : i \in b[k]..ends}
  BY DEF Part
<1> HIDE DEF n, ends, burst, part, length
<1>4. length \in Nat /\ length \in 1..length
  BY <1>1, <1>2
<1>5. \A i \in 1..length : b[k] + i - 1 \in b[k]..ends /\ b[k] + i - 1 \in 1..n
  BY <1>1, <1>2
<1>6. \A j \in b[k]..ends : j - b[k] + 1 \in 1..length /\ b[k] + (j - b[k] + 1) - 1 = j
  BY SMTT(60), <1>1, <1>2
<1>7. Range(burst) = part
  <2>1. \A i \in 1..length : burst[i] \in part
    BY <1>2, <1>3, <1>5
  <2>2. \A r \in part : \E i \in 1..length : burst[i] = r
    BY SMTT(60), <1>2, <1>3, <1>6
  <2> QED
    BY <1>2, <2>1, <2>2 DEF Range
<1>8. \A i, j \in 1..length : i < j => Earlier(burst[i], burst[j])
  <2>1. ASSUME NEW i \in 1..length, NEW j \in 1..length, i < j
        PROVE  Earlier(burst[i], burst[j])
    <3>1. b[k] + i - 1 < b[k] + j - 1
      BY <1>2, <1>4, <2>1
    <3>2. Earlier(group[b[k] + i - 1], group[b[k] + j - 1])
      BY <1>1, <1>5, <3>1
    <3> QED
      BY <1>2, <3>2
  <2> QED
    BY <2>1
<1>9. \A i \in 1..length : burst[i].at \in Int /\ burst[i].at <= burst[length].at
  <2>1. ASSUME NEW i \in 1..length
        PROVE  burst[i].at \in Int /\ burst[i].at <= burst[length].at
    <3>1. b[k] + i - 1 <= b[k] + length - 1
      BY <1>2, <1>4
    <3>2. group[b[k] + i - 1].at <= group[b[k] + length - 1].at
      BY <1>1, <1>4, <1>5, <3>1
    <3>3. burst[i] = group[b[k] + i - 1] /\ burst[length] = group[b[k] + length - 1]
      BY <1>2, <1>4
    <3> QED
      BY <1>1, <1>5, <3>2, <3>3
  <2> QED
    BY <2>1
<1>10. \A i \in 1..length : burst[i] \in Wanted(part, rule) <=> Accepts(burst, rule, i)
  <2>1. \A r \in part : r \in Wanted(part, rule) <=>
           CASE rule.is = "first" -> TRUE
             [] rule.is = "first above" -> r.rssi >= rule.floor
             [] rule.is = "peak" -> \A s \in part : s.rssi <= r.rssi
    BY DEF Wanted
  <2>2. ASSUME NEW i \in 1..length
        PROVE  (\A s \in part : s.rssi <= burst[i].rssi) = \A j \in DOMAIN burst : burst[j].rssi <= burst[i].rssi
    BY <1>2, <1>7 DEF Range
  <2>3. \A i \in 1..length : burst[i] \in part
    BY <1>2, <1>7 DEF Range
  <2>4. ASSUME NEW i \in 1..length
        PROVE  burst[i] \in Wanted(part, rule) <=> Accepts(burst, rule, i)
    <3> DEFINE floored == burst[i].rssi >= rule.floor
               loudest == \A j \in DOMAIN burst : burst[j].rssi <= burst[i].rssi
    <3>1. burst[i] \in Wanted(part, rule) <=>
             CASE rule.is = "first" -> TRUE [] rule.is = "first above" -> floored [] rule.is = "peak" -> loudest
      BY <2>1, <2>2, <2>3
    <3>2. Accepts(burst, rule, i) = CASE rule.is = "first" -> TRUE [] rule.is = "first above" -> floored [] rule.is = "peak" -> loudest
      BY DEF Accepts
    <3> HIDE DEF floored, loudest
    <3> QED
      BY <3>1, <3>2
  <2> QED
    BY <2>4
<1>11. Chosen(part, rule, Select(burst, rule))
  <2>1. IF wanted = {} THEN Select(burst, rule) = None
        ELSE \E i \in wanted : (\A j \in wanted : i <= j) /\ Select(burst, rule) = burst[i]
    BY <1>2, <1>4, SelectIs DEF length
  <2>2. \A i \in 1..length : i \in wanted <=> burst[i] \in Wanted(part, rule)
    BY <1>2, <1>10
  <2>3. Wanted(part, rule) \subseteq part
    BY DEF Wanted
  <2>4. \A r \in part : \E i \in 1..length : burst[i] = r
    BY <1>2, <1>7 DEF Range
  <2>5. wanted \subseteq 1..length
    BY <1>2
  <2> HIDE DEF wanted
  <2>6. CASE wanted = {}
    <3>1. Wanted(part, rule) = {}
      BY <2>2, <2>3, <2>4, <2>6
    <3> QED
      BY <2>1, <2>6, <3>1 DEF Chosen
  <2>7. CASE wanted # {}
    <3>1. PICK i \in wanted : (\A j \in wanted : i <= j) /\ Select(burst, rule) = burst[i]
      BY <2>1, <2>7
    <3>2. burst[i] \in Wanted(part, rule)
      BY <2>2, <2>5, <3>1
    <3>3. ASSUME NEW r \in Wanted(part, rule)
          PROVE  r = burst[i] \/ Earlier(burst[i], r)
      <4>1. PICK j \in 1..length : burst[j] = r
        BY <2>3, <2>4
      <4>2. j \in wanted /\ i <= j /\ i \in 1..length
        BY <2>2, <2>5, <3>1, <4>1
      <4>3. i = j \/ i < j
        BY <1>4, <4>2
      <4> QED
        BY <1>8, <4>1, <4>2, <4>3
    <3> QED
      BY <3>1, <3>2, <3>3 DEF Chosen
  <2> QED
    BY <2>6, <2>7
<1>12. OnTheRaceSide(burst, gun) = Sided(part, gun)
  <2>1. Last(burst) = burst[length]
    BY DEF Last, length
  <2>2. burst[length] \in part /\ \A r \in part : r.at <= burst[length].at /\ r.at \in Int
    BY <1>2, <1>4, <1>7, <1>9 DEF Range
  <2>3. Some(gun) => ((burst[length].at >= gun) <=> \E r \in part : r.at >= gun)
    <3>1. Some(gun) => gun \in Int
      BY DEF Some
    <3>2. \A r \in part : Some(gun) /\ r.at >= gun => burst[length].at >= gun
      BY <2>2, <3>1
    <3> QED
      BY <2>2, <3>2
  <2> QED
    BY <2>1, <2>3 DEF OnTheRaceSide, Sided
<1> QED
  BY <1>7, <1>11, <1>12 DEF burst, part, IsPartOf

(* Evidence and rules as derive is given them.                             *)
IsEvidence(input) ==
    /\ AreReads(Range(input.reads)) /\ None \notin Range(input.reads)
    /\ input.gun \in Int \cup {None} /\ input.policy.minLap \in Int \cup {None}
    /\ \A checkpoint : WindowFor(input.policy, checkpoint) \in Nat

(* What becomes of a group, by its bursts as sets of reads: a burst is     *)
(* credited if something is chosen of it, and it is not too soon after any *)
(* of those credited before.                                               *)
IsSoon(input, part, chosen, j, k) ==
    /\ Some(input.policy.minLap)
    /\ Sided(part[j], input.gun) \/ ~Sided(part[k], input.gun)
    /\ chosen[k].at - chosen[j].at < input.policy.minLap

CrossingOf(input, chip, checkpoint, part, chosen, k) ==
    [chip |-> chip, checkpoint |-> checkpoint, at |-> chosen[k].at,
     participant |-> ParticipantAt(input.chips, chip, chosen[k].at),
     source |-> chosen[k].seq, burst |-> {r.seq : r \in part[k]},
     raceSide |-> Sided(part[k], input.gun)]

LeftOf(part, chosen, kept, k) ==
    IF ~Some(chosen[k]) THEN Rejected(part[k], "below the floor", None)
    ELSE IF k \notin kept THEN Rejected(part[k], "below the minimum lap", None)
    ELSE Rejected(part[k] \ {chosen[k]}, "duplicate", chosen[k].seq)

Accounts(input, chip, checkpoint, part, m, chosen, kept) ==
    /\ Parted(part, m, Here(input, chip, checkpoint), WindowFor(input.policy, checkpoint))
    /\ \A k \in 1..m : Chosen(part[k], RuleFor(input.policy, checkpoint), chosen[k])
    /\ kept \subseteq 1..m
    /\ \A k \in 1..m : k \in kept <=>
          Some(chosen[k]) /\ ~\E j \in kept : j < k /\ IsSoon(input, part, chosen, j, k)
    /\ Credited(input, chip, checkpoint).accepted =
          {CrossingOf(input, chip, checkpoint, part, chosen, k) : k \in kept}
    /\ Credited(input, chip, checkpoint).rejected =
          UNION {LeftOf(part, chosen, kept, k) : k \in 1..m}

(* Of two bursts, all of the one is before all of the other.               *)
AreInTime(part, chosen, gun, j, k) ==
    /\ \A r \in part[j], s \in part[k] : r.at < s.at
    /\ Sided(part[j], gun) => Sided(part[k], gun)
    /\ Some(chosen[j]) /\ Some(chosen[k]) => chosen[j].at < chosen[k].at

LEMMA PartsInTime ==
    ASSUME NEW reads, AreReads(reads), NEW window \in Nat, NEW part, NEW m, Parted(part, m, reads, window),
           NEW rule, NEW chosen, \A k \in 1..m : Chosen(part[k], rule, chosen[k]),
           NEW gun \in Int \cup {None}, NEW j \in 1..m, NEW k \in 1..m, j < k
    PROVE  AreInTime(part, chosen, gun, j, k)
<1>1. \A r \in part[j], s \in part[k] : r.at < s.at
  <2>1. ASSUME NEW r \in part[j], NEW s \in part[k]
        PROVE  r.at < s.at
    <3>1. s.at - r.at > window /\ r \in reads /\ s \in reads
      BY DEF Parted
    <3>2. s.at \in Int /\ r.at \in Int
      BY <3>1 DEF AreReads
    <3> QED
      BY <3>1, <3>2
  <2> QED
    BY <2>1
<1>2. part[k] # {} /\ part[j] \subseteq reads /\ part[k] \subseteq reads
  BY DEF Parted
<1>3. Sided(part[j], gun) => Sided(part[k], gun)
  <2>1. \A r \in reads : r.at \in Int
    BY DEF AreReads
  <2>2. ASSUME Some(gun), NEW r \in part[j], r.at >= gun
        PROVE  \E s \in part[k] : s.at >= gun
    <3>1. PICK s \in part[k] : TRUE
      BY <1>2
    <3>2. r.at < s.at /\ r.at \in Int /\ s.at \in Int /\ gun \in Int
      BY <1>1, <1>2, <2>1, <2>2 DEF Some
    <3> QED
      BY <2>2, <3>2
  <2> QED
    BY <2>2 DEF Sided
<1>4. Some(chosen[j]) => chosen[j] \in part[j]
  BY DEF Chosen, Wanted, Some
<1>5. Some(chosen[k]) => chosen[k] \in part[k]
  BY DEF Chosen, Wanted, Some
<1> QED
  BY <1>1, <1>3, <1>4, <1>5 DEF AreInTime

(* Not soon after the last one credited is not soon after any.             *)
LEMMA SoonAfterTheLast ==
    ASSUME NEW reads, AreReads(reads), None \notin reads, NEW window \in Nat, NEW part, NEW m,
           Parted(part, m, reads, window),
           NEW rule, NEW chosen, \A k \in 1..m : Chosen(part[k], rule, chosen[k]),
           NEW input, input.gun \in Int \cup {None}, input.policy.minLap \in Int \cup {None},
           NEW bursts, \A k \in 1..m : OnTheRaceSide(bursts[k], input.gun) = Sided(part[k], input.gun),
           NEW last, \A k \in 0..m : IsLast(input.policy, input.gun, chosen, bursts, last, k),
           NEW k \in 1..m
    PROVE  Keeps(input.policy, input.gun, chosen, bursts, last, k) <=>
              /\ Some(chosen[k])
              /\ ~\E j \in 1..m : /\ Keeps(input.policy, input.gun, chosen, bursts, last, j)
                                  /\ j < k /\ IsSoon(input, part, chosen, j, k)
<1> DEFINE gun == input.gun
           minLap == input.policy.minLap
           Kept(j) == Keeps(input.policy, gun, chosen, bursts, last, j)
           soon == TooSoon(minLap, last[k - 1], chosen[k].at, Sided(part[k], gun))
           after(j) == IsSoon(input, part, chosen, j, k)
<1>1. Kept(k) <=> Some(chosen[k]) /\ ~soon
  BY DEF Keeps
<1>2. \A j \in 1..m : Kept(j) => Some(chosen[j])
  BY DEF Keeps
<1>3. \A j \in 1..m : Some(chosen[j]) => chosen[j].at \in Int
  <2>1. \A j \in 1..m : part[j] \subseteq reads
    BY DEF Parted
  <2> QED
    BY <2>1 DEF Chosen, Wanted, Some, AreReads
<1>4. \A j, l \in 1..m : j < l => /\ Sided(part[j], gun) => Sided(part[l], gun)
                                  /\ Some(chosen[j]) /\ Some(chosen[l]) => chosen[j].at < chosen[l].at
  <2>1. ASSUME NEW j \in 1..m, NEW l \in 1..m, j < l
        PROVE  AreInTime(part, chosen, gun, j, l)
    BY <2>1, PartsInTime
  <2> QED
    BY <2>1 DEF AreInTime
<1>5. m \in Nat
  BY DEF Parted
<1>6. \/ last[k - 1] = None /\ \A j \in 1..(k - 1) : ~Kept(j)
      \/ \E j \in 1..(k - 1) : /\ Kept(j) /\ last[k - 1] = Credit(gun, chosen, bursts, j)
                               /\ \A i \in (j + 1)..(k - 1) : ~Kept(i)
  <2>1. k - 1 \in 0..m
    BY <1>5
  <2>2. IsLast(input.policy, gun, chosen, bursts, last, k - 1)
    BY <2>1
  <2> QED
    BY <2>2 DEF IsLast
<1>7. \A j \in 1..m : j < k <=> j \in 1..(k - 1)
  BY <1>5
<1>8. \A j \in 1..m : Credit(gun, chosen, bursts, j).at = chosen[j].at
                      /\ Credit(gun, chosen, bursts, j).raceSide = Sided(part[j], gun)
  BY DEF Credit
<1>9. \A j \in 1..m : Some(chosen[j]) => Some(Credit(gun, chosen, bursts, j))
  <2>1. ASSUME NEW j \in 1..m, Some(chosen[j])
        PROVE  Credit(gun, chosen, bursts, j) \in [burst : Nat, at : Int, raceSide : BOOLEAN]
    <3>1. chosen[j].at \in Int /\ j \in Nat
      BY <1>3, <1>5, <2>1
    <3>2. OnTheRaceSide(bursts[j], gun) \in BOOLEAN
      BY DEF OnTheRaceSide
    <3> QED
      BY <3>1, <3>2 DEF Credit
  <2> QED
    BY <2>1, NoneIsNothing DEF Some
<1> HIDE DEF Kept
<1>10. CASE last[k - 1] = None /\ \A j \in 1..(k - 1) : ~Kept(j)
  <2>1. ~soon
    BY <1>10 DEF TooSoon, Some
  <2> QED
    BY <1>1, <1>7, <1>10, <2>1 DEF Kept
<1>11. ASSUME NEW j \in 1..(k - 1), Kept(j), last[k - 1] = Credit(gun, chosen, bursts, j),
              \A i \in (j + 1)..(k - 1) : ~Kept(i), Some(chosen[k])
       PROVE  soon <=> \E i \in 1..m : Kept(i) /\ i < k /\ after(i)
  <2>1. j \in 1..m /\ j < k
    BY <1>5
  <2>2. soon <=> after(j)
    BY <1>2, <1>8, <1>9, <1>11, <2>1 DEF TooSoon, IsSoon
  <2>3. ASSUME NEW i \in 1..m, Kept(i), i < k, after(i)
        PROVE  after(j)
    <3>1. i <= j
      <4>1. i \notin (j + 1)..(k - 1)
        BY <1>11, <2>3
      <4> QED
        BY <1>5, <2>1, <2>3, <4>1
    <3>2. CASE i = j
      BY <2>3, <3>2
    <3>3. CASE i < j
      <4>1. Some(minLap) /\ (Sided(part[i], gun) \/ ~Sided(part[k], gun)) /\ chosen[k].at - chosen[i].at < minLap
        BY <2>3 DEF IsSoon
      <4>2. Some(chosen[i]) /\ Some(chosen[j])
        BY <1>2, <1>11, <2>1, <2>3
      <4>3. chosen[i].at < chosen[j].at /\ (Sided(part[i], gun) => Sided(part[j], gun))
        BY <1>4, <2>1, <3>3, <4>2
      <4>4. chosen[i].at \in Int /\ chosen[j].at \in Int /\ chosen[k].at \in Int /\ minLap \in Int
        BY <1>3, <1>11, <2>1, <4>1, <4>2 DEF Some
      <4>5. chosen[k].at - chosen[j].at < minLap
        BY <4>1, <4>3, <4>4
      <4> QED
        BY <4>1, <4>3, <4>5 DEF IsSoon
    <3> QED
      BY <1>5, <2>1, <3>1, <3>2, <3>3
  <2> HIDE DEF soon, after
  <2> QED
    BY <1>11, <2>1, <2>2, <2>3
<1>12. CASE \E j \in 1..(k - 1) : /\ Kept(j) /\ last[k - 1] = Credit(gun, chosen, bursts, j)
                                  /\ \A i \in (j + 1)..(k - 1) : ~Kept(i)
  <2>1. Some(chosen[k]) => (soon <=> \E i \in 1..m : Kept(i) /\ i < k /\ after(i))
    BY <1>11, <1>12
  <2> HIDE DEF soon, after
  <2>2. Kept(k) <=> Some(chosen[k]) /\ ~\E i \in 1..m : Kept(i) /\ i < k /\ after(i)
    BY <1>1, <2>1
  <2> QED
    BY <2>2 DEF after, Kept
<1> QED
  BY <1>6, <1>10, <1>12

(* So is every group accounted for.                                        *)
LEMMA GroupAccounts ==
    ASSUME NEW input, IsEvidence(input), NEW chip, NEW checkpoint
    PROVE  \E part, m, chosen, kept : Accounts(input, chip, checkpoint, part, m, chosen, kept)
<1> DEFINE here == Here(input, chip, checkpoint)
           group == Group(input, chip, checkpoint)
           window == WindowFor(input.policy, checkpoint)
           rule == RuleFor(input.policy, checkpoint)
           gun == input.gun
           bursts == Bursts(group, window)
           chosen == [k \in DOMAIN bursts |-> Select(bursts[k], rule)]
           credits == Credits(input.policy, gun, chosen, bursts)
<1>1. AreReads(here) /\ IsListOf(group, here, InTime(here)) /\ None \notin here
  BY GroupIs DEF IsEvidence, Here
<1>2. Credited(input, chip, checkpoint) = Outcome(input, chip, checkpoint, bursts, chosen, credits)
  BY Zenon DEF Credited, CreditedOf
<1>3. window \in Nat /\ gun \in Int \cup {None} /\ input.policy.minLap \in Int \cup {None}
  BY DEF IsEvidence
<1> HIDE DEF here, group, window, rule, bursts
<1>4. Len(group) \in Nat /\ DOMAIN group = 1..Len(group)
  BY <1>1 DEF IsListOf
<1>5. PICK b : /\ Cuts(b, group, window) /\ Len(Bursts(group, window)) = Len(b)
               /\ Bursts(group, window) = [k \in 1..Len(b) |-> BurstAt(b, group, k)]
  BY <1>4, BurstsAre
<1> DEFINE m == Len(b)
           part == PartsOf(b, group)
<1>6. Len(bursts) = m /\ DOMAIN bursts = 1..m /\ m \in Nat /\ \A k \in 1..m : bursts[k] = BurstAt(b, group, k)
  BY <1>5 DEF bursts, Cuts
<1>7. \A k \in 1..m : part[k] = Part(b, group, k)
  BY DEF PartsOf
<1>8. Parted(part, m, here, window)
  BY <1>1, <1>3, <1>5, PartsPart
<1>9. \A k \in 1..m : /\ Range(bursts[k]) = part[k] /\ Chosen(part[k], rule, chosen[k])
                      /\ OnTheRaceSide(bursts[k], gun) = Sided(part[k], gun)
  <2>1. ASSUME NEW k \in 1..m
        PROVE  /\ Range(bursts[k]) = part[k] /\ Chosen(part[k], rule, chosen[k])
               /\ OnTheRaceSide(bursts[k], gun) = Sided(part[k], gun)
    <3>1. IsPartOf(b, group, k, rule, gun)
      BY <1>1, <1>3, <1>5, BurstAsPart
    <3>2. chosen[k] = Select(BurstAt(b, group, k), rule)
      BY <1>6
    <3> QED
      BY <1>6, <1>7, <3>1, <3>2 DEF IsPartOf
  <2> QED
    BY <2>1
<1>10. \A k \in 1..m : Some(chosen[k]) => chosen[k].at \in Int /\ chosen[k] \in part[k]
  <2>1. \A k \in 1..m : part[k] \subseteq here
    BY <1>8 DEF Parted
  <2> QED
    BY <1>1, <1>9, <2>1 DEF Chosen, Wanted, Some, AreReads
<1> HIDE DEF m, part, chosen
<1>11. PICK last :
          /\ \A k \in 0..m : IsLast(input.policy, gun, chosen, bursts, last, k)
          /\ credits = {k \in 1..m : Keeps(input.policy, gun, chosen, bursts, last, k)}
  BY <1>6, <1>10, CreditsAre
<1> HIDE DEF credits
<1>12. \A k \in 1..m : Keeps(input.policy, gun, chosen, bursts, last, k) <=>
          /\ Some(chosen[k])
          /\ ~\E j \in 1..m : /\ Keeps(input.policy, gun, chosen, bursts, last, j)
                              /\ j < k /\ IsSoon(input, part, chosen, j, k)
  BY <1>1, <1>3, <1>8, <1>9, <1>11, SoonAfterTheLast
<1>13. \A k \in 1..m : k \in credits <=> Some(chosen[k]) /\ ~\E j \in credits : j < k /\ IsSoon(input, part, chosen, j, k)
  BY <1>11, <1>12
<1>14. Outcome(input, chip, checkpoint, bursts, chosen, credits).accepted =
          {CrossingOf(input, chip, checkpoint, part, chosen, k) : k \in credits}
  <2> DEFINE Crossing(k) ==
            [chip |-> chip, checkpoint |-> checkpoint, at |-> chosen[k].at,
             participant |-> ParticipantAt(input.chips, chip, chosen[k].at),
             source |-> chosen[k].seq, burst |-> {r.seq : r \in Range(bursts[k])},
             raceSide |-> OnTheRaceSide(bursts[k], input.gun)]
  <2>1. Outcome(input, chip, checkpoint, bursts, chosen, credits).accepted = {Crossing(k) : k \in credits}
    BY DEF Outcome
  <2>2. \A k \in 1..m : Crossing(k) = CrossingOf(input, chip, checkpoint, part, chosen, k)
    BY <1>9 DEF CrossingOf
  <2>3. credits \subseteq 1..m
    BY <1>11
  <2> HIDE DEF Crossing
  <2> QED
    BY <2>1, <2>2, <2>3
<1>15. Outcome(input, chip, checkpoint, bursts, chosen, credits).rejected =
          UNION {LeftOf(part, chosen, credits, k) : k \in 1..m}
  <2> DEFINE Left(k) ==
            IF ~Some(chosen[k]) THEN Rejected(Range(bursts[k]), "below the floor", None)
            ELSE IF k \notin credits THEN Rejected(Range(bursts[k]), "below the minimum lap", None)
            ELSE Rejected(Range(bursts[k]) \ {chosen[k]}, "duplicate", chosen[k].seq)
  <2>1. Outcome(input, chip, checkpoint, bursts, chosen, credits).rejected = UNION {Left(k) : k \in DOMAIN bursts}
    BY DEF Outcome
  <2>2. \A k \in 1..m : Left(k) = LeftOf(part, chosen, credits, k)
    BY <1>9 DEF LeftOf
  <2> HIDE DEF Left
  <2>3. {Left(k) : k \in DOMAIN bursts} = {LeftOf(part, chosen, credits, k) : k \in 1..m}
    BY <1>6, <2>2
  <2> QED
    BY <2>1, <2>3
<1>16. Accounts(input, chip, checkpoint, part, m, chosen, credits)
  <2>1. credits \subseteq 1..m
    BY <1>11
  <2> QED
    BY <1>2, <1>8, <1>9, <1>13, <1>14, <1>15, <2>1 DEF Accounts, here, window, rule
<1> QED
  BY <1>16

(* derive: a crossing rests on a read that was at its mat, and on others   *)
(* there; and no two crossings have a read in common.                      *)
IsCrossing(input, c) ==
    /\ \E r \in Here(input, c.chip, c.checkpoint) : c.source = r.seq /\ c.at = r.at
    /\ c.source \in c.burst /\ c.burst \subseteq {r.seq : r \in Here(input, c.chip, c.checkpoint)}
    /\ c.raceSide = Sided({r \in Range(input.reads) : r.seq \in c.burst}, input.gun)

Groups(input) ==
    {<<r.chip, Resolve(input.antennas, r)>> :
        r \in {s \in Range(input.reads) : Some(Resolve(input.antennas, s))}}

LEMMA DeriveIs ==
    ASSUME NEW input
    PROVE  LET unmapped == {r \in Range(input.reads) : ~Some(Resolve(input.antennas, r))} IN
           /\ \A c : c \in Derive(input).accepted <=>
                \E g \in Groups(input) : c \in Credited(input, g[1], g[2]).accepted
           /\ \A x : x \in Derive(input).rejected <=>
                \/ \E g \in Groups(input) : x \in Credited(input, g[1], g[2]).rejected
                \/ x \in Rejected(unmapped, "unmapped", None)
           /\ Derive(input).events = Events(Sources(input, Derive(input).accepted))
<1> DEFINE unmapped == {r \in Range(input.reads) : ~Some(Resolve(input.antennas, r))}
           groups == {<<r.chip, Resolve(input.antennas, r)>> : r \in Range(input.reads) \ unmapped}
           credited == {Credited(input, g[1], g[2]) : g \in groups}
           accepted == UNION {c.accepted : c \in credited}
           rejected == (UNION {c.rejected : c \in credited}) \cup Rejected(unmapped, "unmapped", None)
<1>1. Derive(input) = [accepted |-> accepted, rejected |-> rejected, events |-> Events(Sources(input, accepted))]
  BY Zenon DEF Derive
<1>2. groups = Groups(input)
  <2>1. Range(input.reads) \ unmapped = {s \in Range(input.reads) : Some(Resolve(input.antennas, s))}
    OBVIOUS
  <2> QED
    BY <2>1, Zenon DEF Groups
<1>3. \A c : c \in accepted <=> \E g \in groups : c \in Credited(input, g[1], g[2]).accepted
  <2> HIDE DEF groups
  <2> QED
    OBVIOUS
<1>4. \A x : x \in rejected <=> \/ \E g \in groups : x \in Credited(input, g[1], g[2]).rejected
                                \/ x \in Rejected(unmapped, "unmapped", None)
  <2> HIDE DEF groups, unmapped
  <2> QED
    OBVIOUS
<1> HIDE DEF accepted, rejected, groups, unmapped
<1>5. Derive(input).accepted = accepted /\ Derive(input).rejected = rejected
      /\ Derive(input).events = Events(Sources(input, accepted))
  BY <1>1
<1> QED
  BY <1>2, <1>3, <1>4, <1>5, Zenon DEF unmapped

LEMMA GroupsCross ==
    ASSUME NEW input, IsEvidence(input), NEW chip, NEW checkpoint, NEW part, NEW m, NEW chosen, NEW kept,
           Accounts(input, chip, checkpoint, part, m, chosen, kept), NEW k \in kept
    PROVE  LET c == CrossingOf(input, chip, checkpoint, part, chosen, k) IN
           /\ c.chip = chip /\ c.checkpoint = checkpoint
           /\ IsCrossing(input, c)
           /\ \A r \in Range(input.reads) : r.seq \in c.burst <=> r \in part[k]
<1> DEFINE c == CrossingOf(input, chip, checkpoint, part, chosen, k)
           here == Here(input, chip, checkpoint)
           reads == Range(input.reads)
<1>1. /\ c.chip = chip /\ c.checkpoint = checkpoint /\ c.at = chosen[k].at /\ c.source = chosen[k].seq
      /\ c.burst = {r.seq : r \in part[k]} /\ c.raceSide = Sided(part[k], input.gun)
  BY DEF CrossingOf
<1> HIDE DEF c
<1>2. k \in 1..m /\ Some(chosen[k]) /\ Chosen(part[k], RuleFor(input.policy, checkpoint), chosen[k])
  BY DEF Accounts
<1>3. chosen[k] \in part[k]
  BY <1>2 DEF Chosen, Wanted, Some
<1>4. part[k] \subseteq here
  BY <1>2 DEF Accounts, Parted
<1>5. here \subseteq reads /\ \A r, s \in reads : r.seq = s.seq => r = s
  BY DEF Here, IsEvidence, AreReads
<1>6. \A r \in reads : r.seq \in c.burst <=> r \in part[k]
  BY <1>1, <1>4, <1>5
<1>7. part[k] = {r \in reads : r.seq \in c.burst}
  BY <1>4, <1>5, <1>6
<1>8. IsCrossing(input, c)
  <2>1. \E r \in here : c.source = r.seq /\ c.at = r.at
    BY <1>1, <1>3, <1>4
  <2>2. c.source \in c.burst /\ c.burst \subseteq {r.seq : r \in here}
    BY <1>1, <1>3, <1>4
  <2> QED
    BY <1>1, <1>7, <2>1, <2>2 DEF IsCrossing
<1> QED
  BY <1>1, <1>6, <1>8 DEF c

(* A crossing of derive is of a group.                                     *)
IsOf(input, c, g, part, m, chosen, kept, k) ==
    /\ g \in Groups(input)
    /\ Accounts(input, g[1], g[2], part, m, chosen, kept) /\ k \in kept
    /\ c = CrossingOf(input, g[1], g[2], part, chosen, k)
    /\ c.chip = g[1] /\ c.checkpoint = g[2] /\ IsCrossing(input, c)
    /\ \A r \in Range(input.reads) : r.seq \in c.burst <=> r \in part[k]

LEMMA CrossingIsOf ==
    ASSUME NEW input, IsEvidence(input), NEW c \in Derive(input).accepted
    PROVE  \E g, part, m, chosen, kept, k : IsOf(input, c, g, part, m, chosen, kept, k)
<1>1. PICK g \in Groups(input) : c \in Credited(input, g[1], g[2]).accepted
  BY DeriveIs
<1>2. PICK part, m, chosen, kept : Accounts(input, g[1], g[2], part, m, chosen, kept)
  BY GroupAccounts
<1>3. PICK k \in kept : c = CrossingOf(input, g[1], g[2], part, chosen, k)
  BY <1>1, <1>2 DEF Accounts
<1>4. /\ c.chip = g[1] /\ c.checkpoint = g[2] /\ IsCrossing(input, c)
      /\ \A r \in Range(input.reads) : r.seq \in c.burst <=> r \in part[k]
  BY <1>2, <1>3, GroupsCross
<1> QED
  BY <1>1, <1>2, <1>3, <1>4 DEF IsOf

LEMMA PartsAreApart ==
    ASSUME NEW window \in Nat, NEW reads, AreReads(reads), NEW part, NEW m, Parted(part, m, reads, window),
           NEW j \in 1..m, NEW k \in 1..m, NEW r \in part[j], r \in part[k]
    PROVE  j = k
<1>1. r.at \in Int /\ m \in Nat
  BY DEF Parted, AreReads
<1>2. ~(j < k)
  BY <1>1 DEF Parted
<1>3. ~(k < j)
  BY <1>1 DEF Parted
<1> QED
  BY <1>1, <1>2, <1>3

LEMMA CrossingsAreApart ==
    ASSUME NEW input, IsEvidence(input)
    PROVE  /\ \A c \in Derive(input).accepted : IsCrossing(input, c)
           /\ \A c, d \in Derive(input).accepted : c.burst \cap d.burst # {} => c = d
<1>1. ASSUME NEW c \in Derive(input).accepted
      PROVE  IsCrossing(input, c)
  BY CrossingIsOf DEF IsOf
<1>2. ASSUME NEW c \in Derive(input).accepted, NEW d \in Derive(input).accepted, c.burst \cap d.burst # {}
      PROVE  c = d
  <2>1. PICK g, part, m, chosen, kept, k : IsOf(input, c, g, part, m, chosen, kept, k)
    BY CrossingIsOf
  <2>2. PICK seq : seq \in c.burst /\ seq \in d.burst
    BY <1>2
  <2>3. PICK r \in Here(input, c.chip, c.checkpoint) : seq = r.seq
    BY <1>1, <2>2 DEF IsCrossing
  <2>4. PICK s \in Here(input, d.chip, d.checkpoint) : seq = s.seq
    BY <1>1, <2>2 DEF IsCrossing
  <2>5. r = s /\ r \in Range(input.reads)
    BY <2>3, <2>4 DEF Here, IsEvidence, AreReads
  <2>6. c.chip = d.chip /\ c.checkpoint = d.checkpoint
    BY <2>3, <2>4, <2>5 DEF Here
  <2>7. PICK h, part1, m1, chosen1, kept1, k1 : IsOf(input, d, h, part1, m1, chosen1, kept1, k1)
    BY CrossingIsOf
  <2>8. h[1] = g[1] /\ h[2] = g[2]
    BY <2>1, <2>6, <2>7 DEF IsOf
  <2>9. d \in Credited(input, g[1], g[2]).accepted
    BY <2>7, <2>8 DEF IsOf, Accounts
  <2>10. PICK l \in kept : d = CrossingOf(input, g[1], g[2], part, chosen, l)
    BY <2>1, <2>9 DEF IsOf, Accounts
  <2>11. \A t \in Range(input.reads) : t.seq \in d.burst <=> t \in part[l]
    BY <2>1, <2>10, GroupsCross DEF IsOf
  <2>12. r \in part[k] /\ r \in part[l]
    BY <2>1, <2>2, <2>3, <2>5, <2>11 DEF IsOf
  <2>13. k = l
    <3>1. Parted(part, m, Here(input, g[1], g[2]), WindowFor(input.policy, g[2])) /\ k \in 1..m /\ l \in 1..m
      BY <2>1, <2>10 DEF IsOf, Accounts
    <3>2. WindowFor(input.policy, g[2]) \in Nat
      BY DEF IsEvidence
    <3>3. AreReads(Here(input, g[1], g[2]))
      BY GroupIs DEF IsEvidence
    <3> QED
      BY <2>12, <3>1, <3>2, <3>3, PartsAreApart
  <2> QED
    BY <2>1, <2>10, <2>13 DEF IsOf
<1> QED
  BY <1>1, <1>2

(* There are no more crossings than reads.                                 *)
LEMMA AcceptedFinite ==
    ASSUME NEW input, IsEvidence(input)
    PROVE  IsFiniteSet(Derive(input).accepted)
<1> DEFINE accepted == Derive(input).accepted
           reads == Range(input.reads)
           read(c) == CHOOSE r \in reads : r.seq = c.source
           f == [c \in accepted |-> read(c)]
<1>1. \A c \in accepted : IsCrossing(input, c)
  BY CrossingsAreApart
<1>2. \A c, d \in accepted : c.source = d.source => c = d
  <2>1. ASSUME NEW c \in accepted, NEW d \in accepted, c.source = d.source
        PROVE  c = d
    <3>1. c.source \in c.burst /\ d.source \in d.burst
      BY <1>1 DEF IsCrossing
    <3>2. c.burst \cap d.burst # {}
      BY <2>1, <3>1
    <3> QED
      BY <3>2, CrossingsAreApart
  <2> QED
    BY <2>1
<1>3. \A c \in accepted : read(c) \in reads /\ read(c).seq = c.source
  BY <1>1 DEF IsCrossing, Here
<1> HIDE DEF accepted, reads, read
<1>4. f \in Injection(accepted, reads)
  BY <1>2, <1>3 DEF Injection, IsInjective
<1>5. IsFiniteSet(reads)
  BY DEF IsEvidence, AreReads, reads
<1>6. IsFiniteSet(accepted)
  <2> HIDE DEF f
  <2> QED
    BY <1>4, <1>5, FS_Injection
<1> QED
  BY <1>6 DEF accepted

(* What the events are made of: crossings of somebody, and hands.          *)
CrossedOf(accepted) ==
    {[at |-> c.at, participant |-> c.participant, checkpoint |-> c.checkpoint,
      raceSide |-> c.raceSide, manual |-> FALSE, id |-> c.source]
        : c \in {a \in accepted : Some(a.participant)}}

WrittenOf(input) ==
    {[at |-> e.at, participant |-> e.participant, checkpoint |-> e.checkpoint,
      raceSide |-> Some(input.gun) => e.at >= input.gun,
      manual |-> TRUE, id |-> e.seq] : e \in Range(input.manual)}

SourceBefore(s, t) ==
    \/ s.at < t.at
    \/ s.at = t.at /\ ~s.manual /\ t.manual
    \/ s.at = t.at /\ s.manual = t.manual /\ s.id < t.id

InSourceOrder(S) == Pairs(S, SourceBefore)

AreSources(S) ==
    /\ IsFiniteSet(S)
    /\ \A s \in S : s.at \in Int /\ s.id \in Int /\ s.manual \in BOOLEAN
    /\ \A s, t \in S : s.manual = t.manual /\ s.id = t.id => s = t

LEMMA SourcesOrdered ==
    ASSUME NEW S, AreSources(S)
    PROVE  Orders(S, InSourceOrder(S))
<1> DEFINE R == InSourceOrder(S)
<1>1. \A s, t \in S : <<s, t>> \in R <=> SourceBefore(s, t)
  BY DEF Pairs, InSourceOrder
<1> HIDE DEF R
<1>2. \A s \in S : ~SourceBefore(s, s)
  BY DEF AreSources, SourceBefore
<1>3. \A s, t, u \in S : SourceBefore(s, t) /\ SourceBefore(t, u) => SourceBefore(s, u)
  BY DEF AreSources, SourceBefore
<1>4. \A s, t \in S : s # t => SourceBefore(s, t) \/ SourceBefore(t, s)
  BY DEF AreSources, SourceBefore
<1>5. Orders(S, R)
  BY <1>1, <1>2, <1>3, <1>4 DEF Orders
<1> QED
  BY <1>5 DEF R

LEMMA SourcesAre ==
    ASSUME NEW input, IsEvidence(input), AreReads(Range(input.manual))
    PROVE  LET S == CrossedOf(Derive(input).accepted) \cup WrittenOf(input)
               sources == Sources(input, Derive(input).accepted)
           IN  AreSources(S) /\ IsListOf(sources, S, InSourceOrder(S))
<1> DEFINE accepted == Derive(input).accepted
           some == {a \in accepted : Some(a.participant)}
           crossing(c) == [at |-> c.at, participant |-> c.participant, checkpoint |-> c.checkpoint,
                           raceSide |-> c.raceSide, manual |-> FALSE, id |-> c.source]
           hand(e) == [at |-> e.at, participant |-> e.participant, checkpoint |-> e.checkpoint,
                       raceSide |-> Some(input.gun) => e.at >= input.gun, manual |-> TRUE, id |-> e.seq]
           crossed == CrossedOf(accepted)
           written1 == WrittenOf(input)
           S == crossed \cup written1
           sources == Sources(input, accepted)
<1>1. sources = InOrder(S, InSourceOrder(S))
  BY Zenon DEF Sources, CrossedOf, WrittenOf, InSourceOrder, SourceBefore
<1>2. crossed = {crossing(c) : c \in some}
  BY DEF CrossedOf
<1>3. written1 = {hand(e) : e \in Range(input.manual)}
  BY DEF WrittenOf
<1>4. \A c : crossing(c).at = c.at /\ crossing(c).id = c.source /\ crossing(c).manual = FALSE
  OBVIOUS
<1>5. \A e : hand(e).at = e.at /\ hand(e).id = e.seq /\ hand(e).manual = TRUE
  OBVIOUS
<1>6. \A c \in some : c.at \in Int /\ c.source \in Int
  <2>1. ASSUME NEW c \in some
        PROVE  c.at \in Int /\ c.source \in Int
    <3>1. IsCrossing(input, c)
      BY CrossingsAreApart
    <3>2. PICK r \in Here(input, c.chip, c.checkpoint) : c.source = r.seq /\ c.at = r.at
      BY <3>1 DEF IsCrossing
    <3>3. r \in Range(input.reads)
      BY DEF Here
    <3> QED
      BY <3>2, <3>3 DEF IsEvidence, AreReads
  <2> QED
    BY <2>1
<1>7. \A c, d \in some : c.source = d.source => c = d
  <2>1. ASSUME NEW c \in some, NEW d \in some, c.source = d.source
        PROVE  c = d
    <3>1. c.source \in c.burst /\ d.source \in d.burst
      BY CrossingsAreApart DEF IsCrossing
    <3>2. c.burst \cap d.burst # {}
      BY <2>1, <3>1
    <3> QED
      BY <3>2, CrossingsAreApart
  <2> QED
    BY <2>1
<1>8. \A e \in Range(input.manual) : e.at \in Int /\ e.seq \in Int
  BY DEF AreReads
<1>9. \A e, f \in Range(input.manual) : e.seq = f.seq => e = f
  BY DEF AreReads
<1>10. IsFiniteSet(some) /\ IsFiniteSet(Range(input.manual))
  <2>1. IsFiniteSet(accepted) /\ some \subseteq accepted
    BY AcceptedFinite
  <2> HIDE DEF accepted, some
  <2> QED
    BY <2>1, FS_Subset DEF AreReads
<1> HIDE DEF accepted, some, crossing, hand, crossed, written1, sources
<1>11. IsFiniteSet(crossed)
  <2> DEFINE f == [c \in some |-> crossing(c)]
  <2>1. DOMAIN f = some /\ crossed = {f[c] : c \in DOMAIN f}
    BY <1>2
  <2> HIDE DEF f
  <2> QED
    BY <1>10, <2>1, ImageFinite
<1>12. IsFiniteSet(written1)
  <2> DEFINE f == [e \in Range(input.manual) |-> hand(e)]
  <2>1. DOMAIN f = Range(input.manual) /\ written1 = {f[e] : e \in DOMAIN f}
    BY <1>3
  <2> HIDE DEF f
  <2> QED
    BY <1>10, <2>1, ImageFinite
<1>13. AreSources(S)
  <2>1. IsFiniteSet(S)
    BY <1>11, <1>12, FS_Union
  <2>2. \A s \in crossed : s.at \in Int /\ s.id \in Int /\ s.manual = FALSE
    BY <1>2, <1>4, <1>6
  <2>3. \A s \in written1 : s.at \in Int /\ s.id \in Int /\ s.manual = TRUE
    BY <1>3, <1>5, <1>8
  <2>4. \A s, t \in crossed : s.id = t.id => s = t
    BY <1>2, <1>4, <1>7
  <2>5. \A s, t \in written1 : s.id = t.id => s = t
    BY <1>3, <1>5, <1>9
  <2> QED
    BY <2>1, <2>2, <2>3, <2>4, <2>5 DEF AreSources
<1> HIDE DEF S
<1>14. IsListOf(sources, S, InSourceOrder(S))
  BY <1>1, <1>13, SourcesOrdered, InOrderLists DEF AreSources
<1> QED
  BY <1>13, <1>14 DEF sources, S, crossed, written1, accepted

(* The events of derive are the events of a race.                          *)
LEMMA EventsAre ==
    ASSUME NEW input, IsEvidence(input), AreReads(Range(input.manual))
    PROVE  LET S == CrossedOf(Derive(input).accepted) \cup WrittenOf(input)
               sources == Sources(input, Derive(input).accepted)
               events == Derive(input).events
           IN  /\ DOMAIN events = 1..Len(sources)
               /\ \A i \in 1..Len(sources) :
                     /\ events[i].participant = sources[i].participant
                     /\ events[i].checkpoint = sources[i].checkpoint
                     /\ events[i].at = sources[i].at /\ events[i].manual = sources[i].manual
                     /\ events[i].id = sources[i].id /\ events[i].lap = Lap(sources, i)
               /\ AreEvents(Range(events))
<1> DEFINE S == CrossedOf(Derive(input).accepted) \cup WrittenOf(input)
           sources == Sources(input, Derive(input).accepted)
           events == Derive(input).events
           n == Len(sources)
           event(i) ==
              [participant |-> sources[i].participant, checkpoint |-> sources[i].checkpoint,
               at |-> sources[i].at, manual |-> sources[i].manual, id |-> sources[i].id,
               lap |-> Lap(sources, i)]
<1>1. AreSources(S) /\ IsListOf(sources, S, InSourceOrder(S))
  BY SourcesAre
<1>2. events = Events(sources)
  BY DeriveIs
<1> HIDE DEF S, sources, events
<1>3. n \in Nat /\ DOMAIN sources = 1..n /\ \A i \in 1..n : sources[i] \in S
  BY <1>1 DEF IsListOf
<1>4. events = [i \in 1..n |-> event(i)]
  BY <1>2, <1>3 DEF Events
<1>5. DOMAIN events = 1..n /\ \A i \in 1..n : events[i] = event(i)
  <2> HIDE DEF event
  <2> QED
    BY <1>4
<1>6. \A i \in 1..n : /\ events[i].participant = sources[i].participant
                      /\ events[i].checkpoint = sources[i].checkpoint
                      /\ events[i].at = sources[i].at /\ events[i].manual = sources[i].manual
                      /\ events[i].id = sources[i].id /\ events[i].lap = Lap(sources, i)
  BY <1>5
<1>7. IsFiniteSet(Range(events))
  <2>1. IsFiniteSet(1..n)
    BY <1>3, FS_Interval
  <2>2. Range(events) = {events[i] : i \in DOMAIN events}
    BY DEF Range
  <2> QED
    BY <1>5, <2>1, <2>2, ImageFinite
<1>8. \A i, j \in 1..n : events[i].manual = events[j].manual /\ events[i].id = events[j].id => i = j
  <2>1. ASSUME NEW i \in 1..n, NEW j \in 1..n, events[i].manual = events[j].manual, events[i].id = events[j].id
        PROVE  i = j
    <3>1. sources[i] = sources[j]
      BY <1>1, <1>3, <1>6, <2>1 DEF AreSources
    <3> QED
      BY <1>1, <3>1, SourcesOrdered, ListedOnce
  <2> QED
    BY <2>1
<1>9. \A i \in 1..n : events[i].at \in Int /\ events[i].id \in Int /\ events[i].manual \in BOOLEAN
  BY <1>1, <1>3, <1>6 DEF AreSources
<1>10. AreEvents(Range(events))
  BY <1>5, <1>7, <1>8, <1>9 DEF AreEvents, Range
<1> QED
  BY <1>5, <1>6, <1>10 DEF events, sources

-----------------------------------------------------------------------------
(***************************************************************************)
(* A race as the evidence comes in.                                        *)
(***************************************************************************)

(* A log: rows that were given, each with its place.                       *)
RowsGiven(rows, most) == {Having(row, "seq", n) : row \in rows, n \in 1..most}

IsLog(log, rows, most) ==
    /\ log \in Seq(RowsGiven(rows, most)) /\ Len(log) <= most
    /\ \A i \in 1..Len(log) : log[i].seq = i

LEMMA LogGrows ==
    ASSUME NEW rows, NEW most \in Nat, NEW log, IsLog(log, rows, most), Len(log) < most, NEW row \in rows
    PROVE  IsLog(WithSeq(log, row), rows, most)
<1> DEFINE n == Len(log) + 1
           new == Having(row, "seq", n)
<1>1. n \in 1..most /\ log \in Seq(RowsGiven(rows, most)) /\ \A i \in 1..Len(log) : log[i].seq = i
  BY DEF IsLog
<1>2. new \in RowsGiven(rows, most)
  BY <1>1 DEF RowsGiven
<1>3. new.seq = n
  BY DEF Having
<1>4. WithSeq(log, row) = Append(log, new)
  BY DEF WithSeq
<1> HIDE DEF new
<1>5. Append(log, new) \in Seq(RowsGiven(rows, most)) /\ Len(Append(log, new)) = n
      /\ \A i \in 1..n : Append(log, new)[i] = IF i = n THEN new ELSE log[i]
  BY <1>1, <1>2
<1>6. \A i \in 1..n : Append(log, new)[i].seq = i
  BY <1>1, <1>3, <1>5
<1> QED
  BY <1>1, <1>4, <1>5, <1>6 DEF IsLog

LEMMA LogIsReads ==
    ASSUME NEW rows, NEW most \in Nat, NEW log, IsLog(log, rows, most),
           \A row \in rows : "at" \in DOMAIN row /\ row.at \in Int
    PROVE  AreReads(Range(log)) /\ Range(log) \subseteq RowsGiven(rows, most)
<1>1. log \in Seq(RowsGiven(rows, most)) /\ \A i \in 1..Len(log) : log[i].seq = i
  BY DEF IsLog
<1>2. Len(log) \in Nat /\ DOMAIN log = 1..Len(log) /\ Range(log) = {log[i] : i \in DOMAIN log}
      /\ \A i \in 1..Len(log) : log[i] \in RowsGiven(rows, most)
  BY <1>1 DEF Range
<1>3. IsFiniteSet(Range(log))
  <2>1. IsFiniteSet(1..Len(log))
    BY <1>2, FS_Interval
  <2> QED
    BY <1>2, <2>1, ImageFinite
<1>4. \A r \in RowsGiven(rows, most) : r.at \in Int
  <2>1. ASSUME NEW row \in rows, NEW n
        PROVE  Having(row, "seq", n).at \in Int
    <3>1. Having(row, "seq", n).at = row.at
      BY DEF Having
    <3> QED
      BY <3>1
  <2> QED
    BY <2>1 DEF RowsGiven
<1> QED
  BY <1>1, <1>2, <1>3, <1>4 DEF AreReads

(* What a race is made of, whatever has come in.                           *)
TimingShape ==
    /\ setup \in Setups
    /\ IsLog(journal, Readings, MaxReads) /\ IsLog(written, Hands, MaxHands)
    /\ started \in Seq(Guns) /\ declared \in Seq(Words)

LEMMA TimingShapeHolds == TimingShape /\ [TimingNext]_timingVars => TimingShape'
<1> SUFFICES ASSUME TimingShape, [TimingNext]_timingVars
             PROVE  TimingShape'
  OBVIOUS
<1>1. MaxReads \in Nat /\ MaxHands \in Nat
  BY Bounded
<1>2. CASE ReadIsStored
  <2>1. PICK reading \in Readings : journal' = WithSeq(journal, reading)
    BY <1>2 DEF ReadIsStored
  <2>2. IsLog(journal', Readings, MaxReads)
    BY <1>1, <1>2, <2>1, LogGrows DEF ReadIsStored, TimingShape
  <2> QED
    BY <1>2, <2>2 DEF ReadIsStored, TimingShape
<1>3. CASE EntryIsWritten
  <2>1. PICK hand \in Hands : written' = WithSeq(written, hand)
    BY <1>3 DEF EntryIsWritten
  <2>2. IsLog(written', Hands, MaxHands)
    BY <1>1, <1>3, <2>1, LogGrows DEF EntryIsWritten, TimingShape
  <2> QED
    BY <1>3, <2>2 DEF EntryIsWritten, TimingShape
<1>4. CASE StatusIsDeclared
  BY <1>4 DEF StatusIsDeclared, TimingShape
<1>5. CASE GunIsRecorded
  BY <1>5 DEF GunIsRecorded, TimingShape
<1>6. CASE UNCHANGED timingVars
  BY <1>6 DEF timingVars, TimingShape
<1> QED
  BY <1>2, <1>3, <1>4, <1>5, <1>6 DEF TimingNext

LEMMA TimingShapeAtFirst == TimingInit => TimingShape
<1> SUFFICES ASSUME TimingInit
             PROVE  TimingShape
  OBVIOUS
<1>1. \A rows, most : most \in Nat => IsLog(<<>>, rows, most)
  BY DEF IsLog
<1> QED
  BY <1>1, Bounded DEF TimingInit, TimingShape

(* The evidence and rules of a race are those derive can do with.          *)
InputOf(reads, entries, starts) ==
    [reads |-> reads, policy |-> setup.policy, chips |-> setup.chips,
     antennas |-> setup.antennas, manual |-> entries, gun |-> GunOf(setup, starts)]

LEMMA EvidenceIs ==
    ASSUME TimingShape,
           NEW reads, IsLog(reads, Readings, MaxReads), NEW entries, IsLog(entries, Hands, MaxHands),
           NEW starts \in Seq(Guns)
    PROVE  /\ IsEvidence(InputOf(reads, entries, starts))
           /\ AreReads(Range(InputOf(reads, entries, starts).manual))
           /\ DerivationOf(reads, entries, starts) = Derive(InputOf(reads, entries, starts))
<1> DEFINE input == InputOf(reads, entries, starts)
<1>1. /\ input.reads = reads /\ input.policy = setup.policy /\ input.chips = setup.chips
      /\ input.antennas = setup.antennas /\ input.manual = entries /\ input.gun = GunOf(setup, starts)
  BY DEF InputOf
<1>2. DerivationOf(reads, entries, starts) = Derive(input)
  BY Zenon DEF InputOf, DerivationOf
<1> HIDE DEF input
<1>3. setup \in Setups /\ MaxReads \in Nat /\ MaxHands \in Nat
  BY Bounded DEF TimingShape
<1>4. AreReads(Range(reads)) /\ Range(reads) \subseteq RowsGiven(Readings, MaxReads)
  BY <1>3, LogIsReads, Given
<1>5. AreReads(Range(entries))
  BY <1>3, LogIsReads, Given
<1>6. None \notin Range(reads)
  BY <1>4, Given DEF RowsGiven
<1>7. GunOf(setup, starts) \in Int \cup {None}
  <2>1. starts # <<>> => Last(starts) \in Guns
    BY DEF Last
  <2> QED
    BY <1>3, <2>1, Given DEF GunOf
<1>8. setup.policy.minLap \in Int \cup {None} /\ \A c : WindowFor(setup.policy, c) \in Nat
  BY <1>3, Given DEF WindowFor
<1>9. IsEvidence(input)
  BY <1>1, <1>4, <1>6, <1>7, <1>8 DEF IsEvidence
<1> QED
  BY <1>1, <1>2, <1>5, <1>9 DEF input

(* What the sheet is scored from is a race, whatever has been derived.     *)
ScoredFrom(events, words, starts) ==
    [events |-> events, roster |-> setup.roster, course |-> setup.course,
     mode |-> setup.mode, declarations |-> words, gun |-> GunOf(setup, starts),
     handsFirst |-> setup.handsFirst]

LEMMA RaceIs ==
    ASSUME TimingShape,
           NEW reads, IsLog(reads, Readings, MaxReads), NEW entries, IsLog(entries, Hands, MaxHands),
           NEW starts \in Seq(Guns), NEW words
    PROVE  LET events == Range(DerivationOf(reads, entries, starts).events) IN
           /\ IsRace(ScoredFrom(events, words, starts))
           /\ ScoreOf(events, words, starts) = Score(ScoredFrom(events, words, starts))
           /\ ScoredFrom(events, words, starts).roster = setup.roster
<1> DEFINE input == InputOf(reads, entries, starts)
           events == Range(DerivationOf(reads, entries, starts).events)
           race == ScoredFrom(events, words, starts)
<1>1. IsEvidence(input) /\ AreReads(Range(input.manual)) /\ DerivationOf(reads, entries, starts) = Derive(input)
  BY EvidenceIs
<1>2. input.gun = GunOf(setup, starts)
  BY DEF InputOf
<1> HIDE DEF input
<1>3. AreEvents(events)
  BY <1>1, EventsAre
<1> HIDE DEF events
<1>4. /\ race.events = events /\ race.roster = setup.roster /\ race.gun = GunOf(setup, starts)
      /\ race.handsFirst = setup.handsFirst
  BY DEF ScoredFrom
<1>5. ScoreOf(events, words, starts) = Score(race)
  BY Zenon DEF ScoreOf, ScoredFrom
<1> HIDE DEF race
<1>6. setup \in Setups
  BY DEF TimingShape
<1>7. IsRace(race)
  BY <1>1, <1>2, <1>3, <1>4, <1>6, Given DEF IsRace, IsEvidence
<1> QED
  BY <1>4, <1>5, <1>7 DEF race, events

LEMMA PlacesStand == TimingShape => PlacesFollowTimes
<1> SUFFICES ASSUME TimingShape
             PROVE  PlacesFollowTimes
  OBVIOUS
<1> DEFINE events == Range(DerivationOf(journal, written, started).events)
           race == ScoredFrom(events, declared, started)
<1>1. IsRace(race) /\ ScoreOf(events, declared, started) = Score(race) /\ race.roster = setup.roster
  BY RaceIs DEF TimingShape
<1>2. results = ScoreOf(events, declared, started)
  BY DEF results, SheetOf, derivation
<1> HIDE DEF events, race
<1>3. Len(Score(race)) = Cardinality(DOMAIN race.roster) /\ PlacedByTime(Score(race))
  BY <1>1, PlacesAreByTime
<1> QED
  BY <1>1, <1>2, <1>3 DEF PlacesFollowTimes

(* Whatever evidence comes in, in whatever order, and whatever is declared *)
(* of whom: the sheet of a race that can be scored lists everybody once,   *)
(* places those who finished in a time that can be defended by that time   *)
(* and nobody else, and lists them in that order.                          *)
THEOREM PlacesAreFair == TimingSpec => []PlacesFollowTimes
<1>1. TimingInit => TimingShape
  BY TimingShapeAtFirst
<1>2. TimingShape /\ [TimingNext]_timingVars => TimingShape'
  BY TimingShapeHolds
<1>3. TimingShape => PlacesFollowTimes
  BY PlacesStand
<1> QED
  BY <1>1, <1>2, <1>3, PTL DEF TimingSpec

-----------------------------------------------------------------------------
(***************************************************************************)
(* Laps count the race.                                                    *)
(***************************************************************************)

(* Numbers that count those before them count themselves.                  *)
LEMMA Counted ==
    ASSUME NEW n \in Nat, NEW T \in SUBSET (1..n), NEW lap,
           \A i \in T : lap[i] = 1 + Cardinality({j \in 1..(i - 1) : j \in T})
    PROVE  /\ {lap[i] : i \in T} = 1..Cardinality(T)
           /\ \A i, j \in T : lap[i] < lap[j] => i < j
           /\ \A i \in T : lap[i] \in Nat /\ lap[i] # 0
<1> DEFINE R == {pair \in T \X T : pair[1] < pair[2]}
           m == Cardinality(T)
           rank(i) == RankIn(T, R, i)
<1>1. \A i, j \in T : <<i, j>> \in R <=> i < j
  OBVIOUS
<1>2. IsFiniteSet(T)
  <2>1. IsFiniteSet(1..n)
    BY FS_Interval
  <2> QED
    BY <2>1, FS_Subset
<1> HIDE DEF R
<1>3. Orders(T, R)
  BY <1>1 DEF Orders
<1>4. \A i \in T : lap[i] = 1 + rank(i)
  <2>1. ASSUME NEW i \in T
        PROVE  {j \in T : <<j, i>> \in R} = {j \in 1..(i - 1) : j \in T}
    <3>1. \A j \in T : j \in 1..n
      OBVIOUS
    <3>2. \A j \in T : <<j, i>> \in R <=> j \in 1..(i - 1)
      BY <1>1, <3>1
    <3> QED
      BY <3>2
  <2> QED
    BY <2>1 DEF RankIn
<1>5. /\ m \in Nat
      /\ \A i \in T : rank(i) \in 0..(m - 1)
      /\ \A i, j \in T : <<i, j>> \in R => rank(i) < rank(j)
      /\ \A k \in 1..m : \E i \in T : rank(i) = k - 1
  <2>1. m \in Nat
    BY <1>2, <1>3, Ranked
  <2>2. \A i \in T : rank(i) \in 0..(m - 1)
    BY <1>2, <1>3, Ranked
  <2>3. \A i, j \in T : <<i, j>> \in R => rank(i) < rank(j)
    BY <1>2, <1>3, Ranked
  <2>4. \A k \in 1..m : \E i \in T : rank(i) = k - 1
    BY <1>2, <1>3, Ranked
  <2> QED
    BY <2>1, <2>2, <2>3, <2>4
<1> HIDE DEF m, rank
<1>6. \A i \in T : lap[i] \in 1..m
  BY <1>4, <1>5
<1>7. \A k \in 1..m : \E i \in T : lap[i] = k
  <2>1. ASSUME NEW k \in 1..m
        PROVE  \E i \in T : lap[i] = k
    <3>1. PICK i \in T : rank(i) = k - 1
      BY <1>5
    <3> QED
      BY <1>4, <3>1
  <2> QED
    BY <2>1
<1>8. ASSUME NEW i \in T, NEW j \in T, lap[i] < lap[j]
      PROVE  i < j
  <2>1. rank(i) \in Int /\ rank(j) \in Int /\ rank(i) < rank(j)
    BY <1>4, <1>5, <1>8
  <2>2. ~(rank(j) < rank(i)) /\ rank(i) # rank(j)
    BY <2>1
  <2>3. ~(j < i) /\ i # j
    BY <1>1, <1>5, <2>2
  <2> QED
    BY <2>3
<1> QED
  BY <1>5, <1>6, <1>7, <1>8 DEF m

(* What was over before the gun, of a crossing all its reads.              *)
IsOver(input, e) ==
    /\ Some(input.gun)
    /\ IF e.manual THEN e.at < input.gun
       ELSE \A c \in Derive(input).accepted : c.source = e.id =>
               \A r \in Range(input.reads) : r.seq \in c.burst => r.at < input.gun

LEMMA OverIs ==
    ASSUME NEW input, IsEvidence(input), AreReads(Range(input.manual)),
           NEW s \in CrossedOf(Derive(input).accepted) \cup WrittenOf(input),
           NEW e, e.manual = s.manual, e.id = s.id, e.at = s.at
    PROVE  IsOver(input, e) <=> ~s.raceSide
<1> DEFINE accepted == Derive(input).accepted
           gun == input.gun
<1>1. gun \in Int \cup {None} /\ \A r \in Range(input.reads) : r.at \in Int
  BY DEF IsEvidence, AreReads
<1>2. CASE s \in WrittenOf(input)
  <2>1. PICK hand \in Range(input.manual) :
          s.at = hand.at /\ s.manual = TRUE /\ s.raceSide = (Some(gun) => hand.at >= gun)
    BY <1>2 DEF WrittenOf
  <2>2. hand.at \in Int
    BY DEF AreReads
  <2>3. ~s.raceSide <=> ~(Some(gun) => hand.at >= gun)
    BY <2>1, Zenon
  <2>4. IsOver(input, e) <=> Some(gun) /\ hand.at < gun
    BY <2>1 DEF IsOver
  <2> QED
    BY <1>1, <2>2, <2>3, <2>4 DEF Some
<1>3. CASE s \in CrossedOf(accepted)
  <2>1. PICK c \in accepted : s.manual = FALSE /\ s.id = c.source /\ s.raceSide = c.raceSide
    BY <1>3 DEF CrossedOf
  <2>2. \A d \in accepted : d.source = c.source => d = c
    <3>1. ASSUME NEW d \in accepted, d.source = c.source
          PROVE  d = c
      <4>1. c.source \in c.burst /\ d.source \in d.burst
        BY CrossingsAreApart DEF IsCrossing
      <4>2. c.burst \cap d.burst # {}
        BY <3>1, <4>1
      <4> QED
        BY <4>2, CrossingsAreApart
    <3> QED
      BY <3>1
  <2>3. c.raceSide = Sided({r \in Range(input.reads) : r.seq \in c.burst}, gun)
    BY CrossingsAreApart DEF IsCrossing
  <2>4. ~c.raceSide <=> Some(gun) /\ \A r \in Range(input.reads) : r.seq \in c.burst => r.at < gun
    <3>1. ~c.raceSide <=> ~(Some(gun) => \E r \in {r \in Range(input.reads) : r.seq \in c.burst} : r.at >= gun)
      BY <2>3, Zenon DEF Sided
    <3> QED
      BY <1>1, <3>1 DEF Some
  <2>5. IsOver(input, e) <=> Some(gun) /\ \A d \in accepted : d.source = c.source =>
            \A r \in Range(input.reads) : r.seq \in d.burst => r.at < gun
    BY <2>1 DEF IsOver
  <2>6. ~s.raceSide <=> ~c.raceSide
    BY <2>1, Zenon
  <2> HIDE DEF accepted
  <2> QED
    BY <2>2, <2>4, <2>5, <2>6
<1> QED
  BY <1>2, <1>3

(* The laps of the runner and the checkpoint of an event.                  *)
OfRunner(input, events, i) ==
    {j \in DOMAIN events :
        /\ events[j].participant = events[i].participant
        /\ events[j].checkpoint = events[i].checkpoint
        /\ ~IsOver(input, events[j])}

LapsFit(input, events, i) ==
    LET ofRunner == OfRunner(input, events, i) IN
    /\ events[i].lap = 0 <=> IsOver(input, events[i])
    /\ {events[j].lap : j \in ofRunner} = 1..Cardinality(ofRunner)
    /\ \A j, k \in ofRunner : events[j].lap < events[k].lap => events[j].at <= events[k].at

LEMMA LapsAreCounted ==
    ASSUME NEW input, IsEvidence(input), AreReads(Range(input.manual)),
           NEW events, events = Derive(input).events, NEW i \in DOMAIN events
    PROVE  LapsFit(input, events, i)
<1> DEFINE S == CrossedOf(Derive(input).accepted) \cup WrittenOf(input)
           sources == Sources(input, Derive(input).accepted)
           n == Len(sources)
           SameRunner(j, k) == /\ sources[j].participant = sources[k].participant
                               /\ sources[j].checkpoint = sources[k].checkpoint
           runner == {j \in 1..n : SameRunner(j, i) /\ sources[j].raceSide}
           ofRunner == OfRunner(input, events, i)
<1>1. AreSources(S) /\ IsListOf(sources, S, InSourceOrder(S))
  BY SourcesAre
<1>2. /\ DOMAIN events = 1..n
      /\ \A j \in 1..n :
            /\ events[j].participant = sources[j].participant
            /\ events[j].checkpoint = sources[j].checkpoint
            /\ events[j].at = sources[j].at /\ events[j].manual = sources[j].manual
            /\ events[j].id = sources[j].id /\ events[j].lap = Lap(sources, j)
  BY EventsAre
<1>3. \A s, e : s \in S /\ e.manual = s.manual /\ e.id = s.id /\ e.at = s.at
                  => (IsOver(input, e) <=> ~s.raceSide)
  BY OverIs
<1> HIDE DEF S, sources
<1>4. n \in Nat /\ \A j \in 1..n : sources[j] \in S /\ sources[j].at \in Int
  BY <1>1 DEF IsListOf, AreSources
<1>5. \A j \in 1..n : IsOver(input, events[j]) <=> ~sources[j].raceSide
  BY <1>2, <1>3, <1>4
<1>6. runner = ofRunner /\ i \in 1..n
  BY <1>2, <1>5 DEF OfRunner
<1>7. \A j \in runner : events[j].lap = 1 + Cardinality({k \in 1..(j - 1) : k \in runner})
  <2>1. ASSUME NEW j \in runner
        PROVE  events[j].lap = 1 + Cardinality({k \in 1..(j - 1) : k \in runner})
    <3>1. \A k \in 1..(j - 1) : k \in runner <=>
             /\ sources[k].participant = sources[j].participant
             /\ sources[k].checkpoint = sources[j].checkpoint /\ sources[k].raceSide
      BY <1>4
    <3>2. {k \in 1..(j - 1) : k \in runner} =
          {k \in 1..(j - 1) : /\ sources[k].participant = sources[j].participant
                              /\ sources[k].checkpoint = sources[j].checkpoint /\ sources[k].raceSide}
      BY <3>1
    <3>3. sources[j].raceSide /\ j \in 1..n
      OBVIOUS
    <3> HIDE DEF runner
    <3> QED
      BY <1>2, <3>2, <3>3 DEF Lap
  <2> QED
    BY <2>1
<1>8. runner \subseteq 1..n
  OBVIOUS
<1>9. \A j \in 1..n : ~sources[j].raceSide => events[j].lap = 0
  BY <1>2 DEF Lap
<1>10. sources[i].raceSide => i \in runner
  BY <1>6
<1>11. \A j, k \in 1..n : j < k => events[j].at <= events[k].at
  <2>1. ASSUME NEW j \in 1..n, NEW k \in 1..n, j < k
        PROVE  events[j].at <= events[k].at
    <3>1. <<sources[j], sources[k]>> \in InSourceOrder(S)
      BY <1>1, <2>1 DEF IsListOf
    <3>2. SourceBefore(sources[j], sources[k])
      BY <3>1 DEF InSourceOrder, Pairs
    <3>3. sources[j].at \in Int /\ sources[k].at \in Int
      BY <1>4
    <3> QED
      BY <1>2, <3>2, <3>3 DEF SourceBefore
  <2> QED
    BY <2>1
<1>12. i \in 1..n /\ (IsOver(input, events[i]) <=> ~sources[i].raceSide)
  BY <1>5, <1>6
<1> HIDE DEF runner, ofRunner, n
<1> DEFINE lap == [j \in runner |-> events[j].lap]
<1>13. \A j \in runner : lap[j] = events[j].lap
  OBVIOUS
<1> HIDE DEF lap
<1>14. \A j \in runner : lap[j] = 1 + Cardinality({k \in 1..(j - 1) : k \in runner})
  BY <1>7, <1>13
<1>15. /\ {lap[j] : j \in runner} = 1..Cardinality(runner)
       /\ \A j, k \in runner : lap[j] < lap[k] => j < k
       /\ \A j \in runner : lap[j] \in Nat /\ lap[j] # 0
  BY <1>4, <1>8, <1>14, Counted DEF n
<1>16. {events[j].lap : j \in runner} = {lap[j] : j \in runner}
  BY <1>13
<1>17. \A j, k \in runner : events[j].lap < events[k].lap => events[j].at <= events[k].at
  BY <1>8, <1>11, <1>13, <1>15
<1>18. events[i].lap = 0 <=> IsOver(input, events[i])
  BY <1>9, <1>10, <1>12, <1>13, <1>15
<1> QED
  BY <1>6, <1>15, <1>16, <1>17, <1>18 DEF ofRunner, LapsFit

LEMMA LapsStand == TimingShape => LapsCountTheRace
<1> SUFFICES ASSUME TimingShape
             PROVE  LapsCountTheRace
  OBVIOUS
<1> DEFINE input == InputOf(journal, written, started)
           found == derivation
           events == found.events
           over(e) == Some(Gun) /\ IF e.manual THEN e.at < Gun
                      ELSE \A c \in found.accepted : c.source = e.id =>
                           \A r \in Range(journal) : r.seq \in c.burst => r.at < Gun
<1>1. IsEvidence(input) /\ AreReads(Range(input.manual)) /\ found = Derive(input)
  BY EvidenceIs DEF TimingShape, derivation
<1>2. input.gun = Gun /\ input.reads = journal
  BY DEF InputOf, Gun
<1> HIDE DEF input
<1>3. \A e : IsOver(input, e) <=> over(e)
  BY <1>1, <1>2 DEF IsOver
<1> HIDE DEF found, over
<1>4. ASSUME NEW i \in DOMAIN events
      PROVE  LET ofRunner == {j \in DOMAIN events :
                                /\ events[j].participant = events[i].participant
                                /\ events[j].checkpoint = events[i].checkpoint
                                /\ ~over(events[j])}
             IN  /\ (events[i].lap = 0) = over(events[i])
                 /\ {events[j].lap : j \in ofRunner} = 1..Cardinality(ofRunner)
                 /\ \A j, k \in ofRunner : events[j].lap < events[k].lap => events[j].at <= events[k].at
  <2> DEFINE theirs == OfRunner(input, events, i)
             ofRunner == {j \in DOMAIN events :
                          /\ events[j].participant = events[i].participant
                          /\ events[j].checkpoint = events[i].checkpoint
                          /\ ~over(events[j])}
  <2>1. /\ events[i].lap = 0 <=> IsOver(input, events[i])
        /\ {events[j].lap : j \in theirs} = 1..Cardinality(theirs)
        /\ \A j, k \in theirs : events[j].lap < events[k].lap => events[j].at <= events[k].at
    <3>1. LapsFit(input, events, i)
      BY <1>1, <1>4, LapsAreCounted
    <3> QED
      BY <3>1, Zenon DEF LapsFit
  <2>2. theirs = ofRunner
    BY <1>3 DEF OfRunner
  <2>3. (events[i].lap = 0) = over(events[i])
    <3>1. over(events[i]) \in BOOLEAN
      BY DEF over
    <3> QED
      BY <1>3, <2>1, <3>1
  <2> QED
    BY <2>1, <2>2, <2>3
<1> QED
  BY <1>4, Zenon DEF LapsCountTheRace, CountsLaps, found, over

(* Whatever evidence comes in, in whatever order: a runner's laps at a     *)
(* checkpoint are 1, 2, 3 and so on from the gun, by time, without a gap,  *)
(* over swapped chips and entries by hand; and lap 0 is what was over      *)
(* before the gun.                                                         *)
THEOREM LapsAreRight == TimingSpec => []LapsCountTheRace
<1>1. TimingInit => TimingShape
  BY TimingShapeAtFirst
<1>2. TimingShape /\ [TimingNext]_timingVars => TimingShape'
  BY TimingShapeHolds
<1>3. TimingShape => LapsCountTheRace
  BY LapsStand
<1> QED
  BY <1>1, <1>2, <1>3, PTL DEF TimingSpec

-----------------------------------------------------------------------------
(***************************************************************************)
(* Bursts become crossings.                                                *)
(***************************************************************************)

(* Of reads there is a latest.                                             *)
LEMMA LatestIs ==
    ASSUME NEW reads, AreReads(reads), reads # {}
    PROVE  \E t \in reads : \A u \in reads : u.at <= t.at
<1> DEFINE R == InTime(reads)
           s == InOrder(reads, R)
           n == Len(s)
<1>1. IsListOf(s, reads, R)
  BY EarlierOrders, InOrderLists DEF AreReads
<1> HIDE DEF s, R
<1>2. /\ n \in Nat /\ DOMAIN s = 1..n
      /\ \A i \in 1..n : s[i] \in reads
      /\ \A i, j \in 1..n : i <= j => s[i].at <= s[j].at
  BY <1>1, ByTime DEF R
<1>3. \A u \in reads : \E i \in 1..n : s[i] = u
  BY <1>1 DEF IsListOf
<1> HIDE DEF n
<1>4. n \in 1..n
  BY <1>2, <1>3
<1>5. \A u \in reads : u.at <= s[n].at
  <2>1. ASSUME NEW u \in reads
        PROVE  u.at <= s[n].at
    <3>1. PICK i \in 1..n : s[i] = u
      BY <1>3
    <3>2. i <= n
      BY <1>2
    <3> QED
      BY <1>2, <1>4, <3>1, <3>2
  <2> QED
    BY <2>1
<1> QED
  BY <1>2, <1>4, <1>5

(* Between two bursts the chip is unseen for more than the window.         *)
Unseen(here, window, r, s) ==
    \E t \in here : /\ r.at <= t.at /\ t.at < s.at
                    /\ ~\E u \in here : t.at < u.at /\ u.at <= t.at + window

LEMMA UnseenBetween ==
    ASSUME NEW here, AreReads(here), NEW window \in Nat, NEW part, NEW m, Parted(part, m, here, window),
           NEW k \in 1..m, NEW l \in 1..m, k < l, NEW r \in part[k], NEW s \in part[l]
    PROVE  Unseen(here, window, r, s)
<1>1. part[k] \subseteq here /\ part[k] # {} /\ m \in Nat
  BY DEF Parted
<1>2. AreReads(part[k])
  BY <1>1, FewerReads
<1>3. PICK t \in part[k] : \A u \in part[k] : u.at <= t.at
  BY <1>1, <1>2, LatestIs
<1>4. s.at - t.at > window /\ s \in here
  BY DEF Parted
<1>5. \A u \in here : u.at \in Int
  BY DEF AreReads
<1>6. r.at <= t.at /\ t.at < s.at
  BY <1>1, <1>3, <1>4, <1>5
<1>7. ASSUME NEW u \in here, t.at < u.at, u.at <= t.at + window
      PROVE  FALSE
  <2>1. PICK j \in 1..m : u \in part[j]
    BY DEF Parted
  <2>2. t.at \in Int /\ u.at \in Int
    BY <1>1, <1>5
  <2>3. ~(k < j)
    <3>1. k < j => u.at - t.at > window
      BY <2>1 DEF Parted
    <3> QED
      BY <1>7, <2>2, <3>1
  <2>4. ~(j < k)
    <3>1. j < k => t.at - u.at > window
      BY <2>1 DEF Parted
    <3> QED
      BY <1>7, <2>2, <3>1
  <2>5. j # k
    BY <1>3, <1>7, <2>1, <2>2
  <2> QED
    BY <1>1, <2>3, <2>4, <2>5
<1> QED
  BY <1>1, <1>6, <1>7 DEF Unseen

(* Within a burst it is not.                                               *)
LEMMA SeenWithin ==
    ASSUME NEW here, AreReads(here), NEW window \in Nat, NEW part, NEW m, Parted(part, m, here, window),
           NEW k \in 1..m, NEW r \in part[k], NEW s \in part[k]
    PROVE  ~Unseen(here, window, r, s)
<1>1. SUFFICES ASSUME NEW t \in here, r.at <= t.at, t.at < s.at
               PROVE  \E u \in here : t.at < u.at /\ u.at <= t.at + window
  BY DEF Unseen
<1>2. part[k] \subseteq here /\ m \in Nat
  BY DEF Parted
<1>3. PICK j \in 1..m : t \in part[j]
  BY DEF Parted
<1>4. t.at \in Int /\ r.at \in Int /\ s.at \in Int
  BY <1>2 DEF AreReads
<1>5. ~(k < j)
  <2>1. k < j => t.at - s.at > window
    BY <1>3 DEF Parted
  <2> QED
    BY <1>1, <1>4, <2>1
<1>6. ~(j < k)
  <2>1. j < k => r.at - t.at > window
    BY <1>3 DEF Parted
  <2> QED
    BY <1>1, <1>4, <2>1
<1>7. j = k
  BY <1>2, <1>5, <1>6
<1>8. \E u \in part[k] : t.at < u.at /\ u.at <= t.at + window
  BY <1>1, <1>3, <1>7 DEF Parted
<1> QED
  BY <1>2, <1>8

(* What becomes of a read: its group's account, and its burst in it.       *)
IsFound(input, read, part, m, chosen, kept, k) ==
    /\ read \in Range(input.reads) /\ Some(Resolve(input.antennas, read))
    /\ Accounts(input, read.chip, Resolve(input.antennas, read), part, m, chosen, kept)
    /\ k \in 1..m /\ read \in part[k]

LEMMA SomethingIsFound ==
    ASSUME NEW input, IsEvidence(input), NEW read \in Range(input.reads), Some(Resolve(input.antennas, read))
    PROVE  \E part, m, chosen, kept, k : IsFound(input, read, part, m, chosen, kept, k)
<1> DEFINE checkpoint == Resolve(input.antennas, read)
<1>1. PICK part, m, chosen, kept : Accounts(input, read.chip, checkpoint, part, m, chosen, kept)
  BY GroupAccounts
<1>2. read \in Here(input, read.chip, checkpoint)
  BY DEF Here
<1>3. PICK k \in 1..m : read \in part[k]
  BY <1>1, <1>2 DEF Accounts, Parted
<1> QED
  BY <1>1, <1>3 DEF IsFound

(* A group's reads are apart, and its window is one.                       *)
LEMMA PartsOfGroup ==
    ASSUME NEW input, IsEvidence(input), NEW chip, NEW checkpoint, NEW part, NEW m, NEW chosen, NEW kept,
           Accounts(input, chip, checkpoint, part, m, chosen, kept)
    PROVE  /\ AreReads(Here(input, chip, checkpoint)) /\ WindowFor(input.policy, checkpoint) \in Nat
           /\ Parted(part, m, Here(input, chip, checkpoint), WindowFor(input.policy, checkpoint))
           /\ m \in Nat /\ \A l \in 1..m : part[l] \subseteq Here(input, chip, checkpoint)
           /\ \A j, l \in 1..m : \A r : r \in part[j] /\ r \in part[l] => j = l
<1> DEFINE here == Here(input, chip, checkpoint)
           window == WindowFor(input.policy, checkpoint)
<1>1. AreReads(here) /\ window \in Nat
  BY GroupIs DEF IsEvidence
<1>2. Parted(part, m, here, window)
  BY DEF Accounts
<1> HIDE DEF here, window
<1>3. m \in Nat /\ \A l \in 1..m : part[l] \subseteq here
  BY <1>2 DEF Parted
<1>4. \A j, l \in 1..m : \A r : r \in part[j] /\ r \in part[l] => j = l
  BY <1>1, <1>2, PartsAreApart
<1> QED
  BY <1>1, <1>2, <1>3, <1>4 DEF here, window

(* The crossings of a group are of those of its bursts that are kept.      *)
LEMMA CrossingsOfGroup ==
    ASSUME NEW input, IsEvidence(input), NEW read, NEW part, NEW m, NEW chosen, NEW kept, NEW k,
           IsFound(input, read, part, m, chosen, kept, k), NEW c
    PROVE  LET checkpoint == Resolve(input.antennas, read) IN
           c \in Derive(input).accepted /\ c.chip = read.chip /\ c.checkpoint = checkpoint <=>
              \E j \in kept : c = CrossingOf(input, read.chip, checkpoint, part, chosen, j)
<1> DEFINE checkpoint == Resolve(input.antennas, read)
           crossing(j) == CrossingOf(input, read.chip, checkpoint, part, chosen, j)
           accepted == Derive(input).accepted
<1>1. Accounts(input, read.chip, checkpoint, part, m, chosen, kept)
  BY DEF IsFound
<1>2. \A d : d \in Credited(input, read.chip, checkpoint).accepted <=> \E j \in kept : d = crossing(j)
  BY <1>1 DEF Accounts
<1>3. ASSUME NEW j \in kept
      PROVE  crossing(j) \in accepted /\ crossing(j).chip = read.chip /\ crossing(j).checkpoint = checkpoint
  <2>1. <<read.chip, checkpoint>> \in Groups(input)
    BY DEF IsFound, Groups
  <2>2. crossing(j) \in Credited(input, <<read.chip, checkpoint>>[1], <<read.chip, checkpoint>>[2]).accepted
    BY <1>2
  <2>3. crossing(j) \in accepted
    BY <2>1, <2>2, DeriveIs
  <2> QED
    BY <2>3 DEF CrossingOf
<1>4. ASSUME c \in accepted, c.chip = read.chip, c.checkpoint = checkpoint
      PROVE  \E j \in kept : c = crossing(j)
  <2>1. PICK g, part1, m1, chosen1, kept1, k1 : IsOf(input, c, g, part1, m1, chosen1, kept1, k1)
    BY <1>4, CrossingIsOf
  <2>2. g[1] = read.chip /\ g[2] = checkpoint
    BY <1>4, <2>1 DEF IsOf
  <2>3. c \in Credited(input, g[1], g[2]).accepted
    BY <2>1 DEF IsOf, Accounts
  <2> QED
    BY <1>2, <2>2, <2>3
<1> QED
  BY <1>3, <1>4

(* The crossings that rest on a read: that of its burst, if it is kept.    *)
LEMMA CrossingsOfRead ==
    ASSUME NEW input, IsEvidence(input), NEW read, NEW part, NEW m, NEW chosen, NEW kept, NEW k,
           IsFound(input, read, part, m, chosen, kept, k)
    PROVE  {c \in Derive(input).accepted : read.seq \in c.burst} =
              IF k \in kept
              THEN {CrossingOf(input, read.chip, Resolve(input.antennas, read), part, chosen, k)} ELSE {}
<1> DEFINE checkpoint == Resolve(input.antennas, read)
           crossing(j) == CrossingOf(input, read.chip, checkpoint, part, chosen, j)
           accepted == Derive(input).accepted
<1>1. Accounts(input, read.chip, checkpoint, part, m, chosen, kept) /\ k \in 1..m /\ read \in part[k]
      /\ read \in Range(input.reads)
  BY DEF IsFound
<1>2. ASSUME NEW c \in accepted, read.seq \in c.burst
      PROVE  c = crossing(k) /\ k \in kept
  <2>1. IsCrossing(input, c)
    BY CrossingsAreApart
  <2>2. PICK r \in Here(input, c.chip, c.checkpoint) : r.seq = read.seq
    BY <1>2, <2>1 DEF IsCrossing
  <2>3. r = read
    BY <1>1, <2>2 DEF Here, IsEvidence, AreReads
  <2>4. c.chip = read.chip /\ c.checkpoint = checkpoint
    BY <2>2, <2>3 DEF Here
  <2>5. PICK j \in kept : c = crossing(j)
    BY <2>4, CrossingsOfGroup
  <2>6. read \in part[j]
    BY <1>1, <1>2, <2>5, GroupsCross
  <2>7. j \in 1..m
    BY <1>1 DEF Accounts
  <2>8. j = k
    BY <1>1, <2>6, <2>7, PartsOfGroup
  <2> QED
    BY <2>5, <2>8
<1>3. ASSUME k \in kept
      PROVE  crossing(k) \in accepted /\ read.seq \in crossing(k).burst
  <2>1. crossing(k) \in accepted
    BY <1>3, CrossingsOfGroup
  <2>2. read.seq \in crossing(k).burst
    BY <1>1 DEF CrossingOf
  <2> QED
    BY <2>1, <2>2
<1> HIDE DEF accepted, crossing
<1> QED
  BY <1>2, <1>3 DEF accepted, crossing

(* What a burst leaves tells of its own reads.                             *)
LEMMA LeftTells ==
    ASSUME NEW part, NEW chosen, NEW kept, NEW k, NEW x \in LeftOf(part, chosen, kept, k)
    PROVE  \E r \in part[k] : x.read = r.seq
<1>1. \A reads, reason, by : x \in Rejected(reads, reason, by) => \E r \in reads : x.read = r.seq
  BY DEF Rejected
<1>2. \E reads \in SUBSET part[k] : \E reason, by : x \in Rejected(reads, reason, by)
  BY DEF LeftOf
<1> QED
  BY <1>1, <1>2

(* Why a read was refused: what its burst leaves says.                     *)
LEMMA ReasonsOfRead ==
    ASSUME NEW input, IsEvidence(input), NEW read, NEW part, NEW m, NEW chosen, NEW kept, NEW k,
           IsFound(input, read, part, m, chosen, kept, k)
    PROVE  {x \in Derive(input).rejected : x.read = read.seq} =
              {x \in LeftOf(part, chosen, kept, k) : x.read = read.seq}
<1> DEFINE checkpoint == Resolve(input.antennas, read)
           rejected == Derive(input).rejected
           unmapped == {r \in Range(input.reads) : ~Some(Resolve(input.antennas, r))}
<1>1. Accounts(input, read.chip, checkpoint, part, m, chosen, kept) /\ k \in 1..m /\ read \in part[k]
      /\ read \in Range(input.reads) /\ Some(checkpoint)
  BY DEF IsFound
<1>2. \A r, s \in Range(input.reads) : r.seq = s.seq => r = s
  BY DEF IsEvidence, AreReads
<1>3. \A x : x \in Credited(input, read.chip, checkpoint).rejected <=> \E l \in 1..m : x \in LeftOf(part, chosen, kept, l)
  BY <1>1 DEF Accounts
<1>4. \A l \in 1..m : part[l] \subseteq Range(input.reads)
  BY ZenonT(60), <1>1, PartsOfGroup DEF Here
<1>5. ASSUME NEW x \in rejected, x.read = read.seq
      PROVE  x \in LeftOf(part, chosen, kept, k)
  <2>1. CASE x \in Rejected(unmapped, "unmapped", None)
    <3>1. PICK r \in unmapped : x.read = r.seq
      BY <2>1 DEF Rejected
    <3>2. r = read
      BY <1>1, <1>2, <1>5, <3>1
    <3> QED
      BY <1>1, <3>2
  <2>2. CASE x \notin Rejected(unmapped, "unmapped", None)
    <3>1. PICK g \in Groups(input) : x \in Credited(input, g[1], g[2]).rejected
      BY <2>2, DeriveIs
    <3>2. PICK part1, m1, chosen1, kept1 : Accounts(input, g[1], g[2], part1, m1, chosen1, kept1)
      BY GroupAccounts
    <3>3. PICK l \in 1..m1 : x \in LeftOf(part1, chosen1, kept1, l)
      BY <3>1, <3>2 DEF Accounts
    <3>4. PICK r \in part1[l] : x.read = r.seq
      BY <3>3, LeftTells
    <3>5. r \in Here(input, g[1], g[2])
      BY <3>2, <3>4, PartsOfGroup
    <3>6. r = read
      BY <1>1, <1>2, <1>5, <3>4, <3>5 DEF Here
    <3>7. g[1] = read.chip /\ g[2] = checkpoint
      BY <3>5, <3>6 DEF Here
    <3>8. PICK j \in 1..m : x \in LeftOf(part, chosen, kept, j)
      BY <1>3, <3>1, <3>7
    <3>9. PICK s \in part[j] : x.read = s.seq
      BY <3>8, LeftTells
    <3>10. s = read
      BY <1>1, <1>2, <1>4, <1>5, <3>9
    <3>11. j = k
      BY <1>1, <3>9, <3>10, PartsOfGroup
    <3> QED
      BY <3>8, <3>11
  <2> QED
    BY <2>1, <2>2
<1>6. ASSUME NEW x \in LeftOf(part, chosen, kept, k)
      PROVE  x \in rejected
  <2>1. x \in Credited(input, read.chip, checkpoint).rejected
    BY <1>1, <1>3
  <2>2. <<read.chip, checkpoint>> \in Groups(input)
    BY <1>1 DEF Groups
  <2>3. x \in Credited(input, <<read.chip, checkpoint>>[1], <<read.chip, checkpoint>>[2]).rejected
    BY <2>1
  <2> QED
    BY <2>2, <2>3, DeriveIs
<1> HIDE DEF rejected
<1> QED
  BY <1>5, <1>6 DEF rejected

(* It is one reason, or none for the read a crossing rests on.             *)
LEMMA ReasonsAre ==
    ASSUME NEW input, IsEvidence(input), NEW read, NEW part, NEW m, NEW chosen, NEW kept, NEW k,
           IsFound(input, read, part, m, chosen, kept, k)
    PROVE  LET why == {x \in Derive(input).rejected : x.read = read.seq} IN
           /\ k \notin kept => Cardinality(why) = 1
           /\ k \in kept => why = IF chosen[k].seq = read.seq THEN {} ELSE
                                {[read |-> read.seq, reason |-> "duplicate", by |-> chosen[k].seq]}
<1> DEFINE why == {x \in Derive(input).rejected : x.read = read.seq}
           left == LeftOf(part, chosen, kept, k)
           Refusal(reason, by) == [read |-> read.seq, reason |-> reason, by |-> by]
<1>1. why = {x \in left : x.read = read.seq}
  BY ReasonsOfRead
<1>2. Accounts(input, read.chip, Resolve(input.antennas, read), part, m, chosen, kept)
      /\ k \in 1..m /\ read \in part[k]
  BY DEF IsFound
<1>3. \A reads \in SUBSET part[k] : \A reason, by :
         {x \in Rejected(reads, reason, by) : x.read = read.seq} =
            IF read \in reads THEN {Refusal(reason, by)} ELSE {}
  <2>1. part[k] \subseteq Range(input.reads)
    BY ZenonT(60), <1>2, PartsOfGroup DEF Here
  <2>2. \A r \in part[k] : r.seq = read.seq => r = read
    BY <1>2, <2>1 DEF IsEvidence, AreReads
  <2>3. ASSUME NEW reads \in SUBSET part[k], NEW reason, NEW by
        PROVE  {x \in Rejected(reads, reason, by) : x.read = read.seq} =
                  IF read \in reads THEN {Refusal(reason, by)} ELSE {}
    <3>1. \A x : x \in Rejected(reads, reason, by) <=>
                    \E r \in reads : x = [read |-> r.seq, reason |-> reason, by |-> by]
      BY DEF Rejected
    <3>2. ASSUME NEW x \in Rejected(reads, reason, by), x.read = read.seq
          PROVE  x = Refusal(reason, by) /\ read \in reads
      <4>1. PICK r \in reads : x = [read |-> r.seq, reason |-> reason, by |-> by]
        BY <3>1
      <4>2. r.seq = read.seq
        BY <3>2, <4>1
      <4>3. r = read
        BY <2>2, <4>2
      <4> QED
        BY <4>1, <4>3
    <3>3. read \in reads => Refusal(reason, by) \in Rejected(reads, reason, by) /\ Refusal(reason, by).read = read.seq
      BY <3>1
    <3> HIDE DEF Refusal
    <3> QED
      BY <3>2, <3>3
  <2> QED
    BY <2>3
<1>4. k \in kept => Some(chosen[k])
  BY <1>2 DEF Accounts
<1>5. ASSUME k \notin kept
      PROVE  \E reason : why = {Refusal(reason, None)}
  <2>1. \E reason : left = Rejected(part[k], reason, None)
    BY <1>5 DEF LeftOf
  <2> HIDE DEF left, why, Refusal
  <2> QED
    BY <1>1, <1>2, <1>3, <2>1
<1>6. ASSUME k \in kept
      PROVE  why = IF chosen[k].seq = read.seq THEN {} ELSE {Refusal("duplicate", chosen[k].seq)}
  <2>1. left = Rejected(part[k] \ {chosen[k]}, "duplicate", chosen[k].seq)
    BY <1>4, <1>6 DEF LeftOf
  <2>2. chosen[k].seq = read.seq <=> chosen[k] = read
    <3>1. chosen[k] \in part[k]
      BY <1>2, <1>4, <1>6 DEF Accounts, Chosen, Wanted, Some
    <3>2. part[k] \subseteq Range(input.reads)
      BY ZenonT(60), <1>2, PartsOfGroup DEF Here
    <3> QED
      BY <1>2, <3>1, <3>2 DEF IsEvidence, AreReads
  <2> HIDE DEF left, why, Refusal
  <2>3. why = IF read \in part[k] \ {chosen[k]} THEN {Refusal("duplicate", chosen[k].seq)} ELSE {}
    BY <1>1, <1>3, <2>1
  <2> QED
    BY <1>2, <2>2, <2>3
<1> HIDE DEF why
<1>7. k \notin kept => Cardinality(why) = 1
  <2> HIDE DEF Refusal
  <2>1. \A e : Cardinality({e}) = 1
    BY FS_Singleton
  <2> QED
    BY <1>5, <2>1
<1> QED
  BY <1>6, <1>7 DEF why

(* A burst is kept unless another that is kept was too soon before it.     *)
LEMMA KeptUnlessSoon ==
    ASSUME NEW input, IsEvidence(input), NEW read, NEW part, NEW m, NEW chosen, NEW kept, NEW k,
           IsFound(input, read, part, m, chosen, kept, k), Some(chosen[k])
    PROVE  k \notin kept <=>
              /\ Some(input.policy.minLap)
              /\ \E c \in Derive(input).accepted :
                    /\ c.chip = read.chip /\ c.checkpoint = Resolve(input.antennas, read)
                    /\ c.at < chosen[k].at /\ chosen[k].at - c.at < input.policy.minLap
                    /\ c.raceSide \/ ~Sided(part[k], input.gun)
<1> DEFINE checkpoint == Resolve(input.antennas, read)
           here == Here(input, read.chip, checkpoint)
           window == WindowFor(input.policy, checkpoint)
           rule == RuleFor(input.policy, checkpoint)
           gun == input.gun
           minLap == input.policy.minLap
           crossing(j) == CrossingOf(input, read.chip, checkpoint, part, chosen, j)
           Soon(c) == /\ c.at < chosen[k].at /\ chosen[k].at - c.at < minLap
                      /\ c.raceSide \/ ~Sided(part[k], gun)
<1>1. Accounts(input, read.chip, checkpoint, part, m, chosen, kept) /\ k \in 1..m
  BY DEF IsFound
<1>2. AreReads(here) /\ window \in Nat /\ Parted(part, m, here, window) /\ m \in Nat
      /\ \A l \in 1..m : part[l] \subseteq here
  BY <1>1, PartsOfGroup
<1>3. /\ \A l \in 1..m : Chosen(part[l], rule, chosen[l])
      /\ kept \subseteq 1..m
      /\ \A l \in 1..m : l \in kept <=>
            Some(chosen[l]) /\ ~\E j \in kept : j < l /\ IsSoon(input, part, chosen, j, l)
  BY <1>1 DEF Accounts
<1>4. gun \in Int \cup {None}
  BY DEF IsEvidence
<1> HIDE DEF here, window, rule
<1>5. \A j, l \in 1..m : j < l => AreInTime(part, chosen, gun, j, l)
  BY <1>2, <1>3, <1>4, PartsInTime
<1>6. \A l \in 1..m : Some(chosen[l]) => chosen[l].at \in Int
  BY <1>2, <1>3 DEF Chosen, Wanted, Some, AreReads
<1>7. \A j \in kept : crossing(j).at = chosen[j].at /\ crossing(j).raceSide = Sided(part[j], gun)
  BY DEF CrossingOf
<1>8. \A j \in kept : j \in 1..m /\ Some(chosen[j])
  BY <1>3
<1>9. ASSUME NEW j \in kept
      PROVE  (j < k /\ IsSoon(input, part, chosen, j, k)) <=> (Some(minLap) /\ Soon(crossing(j)))
  <2>1. chosen[j].at \in Int /\ chosen[k].at \in Int /\ j \in Int /\ k \in Int
    BY <1>1, <1>6, <1>8
  <2>2. j < k => chosen[j].at < chosen[k].at
    BY <1>1, <1>5, <1>8 DEF AreInTime
  <2>3. k < j => chosen[k].at < chosen[j].at
    BY <1>1, <1>5, <1>8 DEF AreInTime
  <2>4. j < k <=> chosen[j].at < chosen[k].at
    BY <2>1, <2>2, <2>3
  <2> HIDE DEF crossing
  <2>5. Soon(crossing(j)) <=>
           /\ chosen[j].at < chosen[k].at /\ chosen[k].at - chosen[j].at < minLap
           /\ Sided(part[j], gun) \/ ~Sided(part[k], gun)
    BY <1>7
  <2> QED
    BY <2>4, <2>5 DEF IsSoon
<1>10. k \notin kept <=> \E j \in kept : Some(minLap) /\ Soon(crossing(j))
  <2> HIDE DEF Soon, crossing, minLap
  <2> QED
    BY <1>1, <1>3, <1>9
<1>11. \A c : c \in Derive(input).accepted /\ c.chip = read.chip /\ c.checkpoint = checkpoint <=>
              \E j \in kept : c = crossing(j)
  BY CrossingsOfGroup
<1>12. (\E c \in Derive(input).accepted : c.chip = read.chip /\ c.checkpoint = checkpoint /\ Soon(c))
         <=> \E j \in kept : Soon(crossing(j))
  <2> HIDE DEF Soon, crossing, checkpoint
  <2> QED
    BY <1>11
<1> QED
  BY <1>10, <1>12

(* What the chip was seen without a pause of more than a window with: its  *)
(* burst.                                                                  *)
LEMMA BurstOfRead ==
    ASSUME NEW input, IsEvidence(input), input.reads = journal, input.antennas = setup.antennas,
           input.policy = setup.policy, NEW read, NEW part, NEW m, NEW chosen, NEW kept, NEW k,
           IsFound(input, read, part, m, chosen, kept, k)
    PROVE  BurstOf(read) = part[k]
<1> DEFINE checkpoint == Resolve(input.antennas, read)
           here == Here(input, read.chip, checkpoint)
           window == WindowFor(input.policy, checkpoint)
           seen == {t \in Range(journal) : SameLine(read, t)}
<1>1. Accounts(input, read.chip, checkpoint, part, m, chosen, kept) /\ k \in 1..m /\ read \in part[k]
  BY DEF IsFound
<1>2. AreReads(here) /\ window \in Nat /\ Parted(part, m, here, window) /\ m \in Nat
      /\ (\A l \in 1..m : part[l] \subseteq here)
      /\ (\A j, l \in 1..m : \A r : r \in part[j] /\ r \in part[l] => j = l)
  BY <1>1, PartsOfGroup
<1>3. seen = here
  BY DEF Here, SameLine, Checkpoint
<1>4. here \subseteq Range(journal)
  BY DEF Here
<1>5. window = WindowFor(setup.policy, Checkpoint(read))
  BY DEF Checkpoint
<1> HIDE DEF here, window
<1>6. ASSUME NEW s \in here
      PROVE  Together(read, s) <=> ~Unseen(here, window, read, s) /\ ~Unseen(here, window, s, read)
  <2>1. SameLine(read, s)
    BY <1>3
  <2>2. Together(read, s) <=>
           \A t \in here : (read.at <= t.at /\ t.at < s.at) \/ (s.at <= t.at /\ t.at < read.at)
                => \E u \in here : t.at < u.at /\ u.at <= t.at + window
    <3> HIDE DEF seen
    <3>1. Together(read, s) <=>
           SameLine(read, s) /\ \A t \in seen : (read.at <= t.at /\ t.at < s.at) \/ (s.at <= t.at /\ t.at < read.at)
                => \E u \in seen : t.at < u.at /\ u.at <= t.at + window
      BY <1>5, Zenon DEF Together, seen
    <3> QED
      BY <1>3, <2>1, <3>1
  <2>3. Unseen(here, window, read, s) <=>
           \E t \in here : (read.at <= t.at /\ t.at < s.at) /\ ~\E u \in here : t.at < u.at /\ u.at <= t.at + window
    BY Zenon DEF Unseen
  <2>4. Unseen(here, window, s, read) <=>
           \E t \in here : (s.at <= t.at /\ t.at < read.at) /\ ~\E u \in here : t.at < u.at /\ u.at <= t.at + window
    BY Zenon DEF Unseen
  <2> QED
    BY <2>2, <2>3, <2>4, Zenon
<1>7. ASSUME NEW s \in here
      PROVE  Together(read, s) <=> s \in part[k]
  <2>1. PICK l \in 1..m : s \in part[l]
    BY <1>2 DEF Parted
  <2>2. k < l => Unseen(here, window, read, s)
    BY <1>1, <1>2, <2>1, UnseenBetween
  <2>3. l < k => Unseen(here, window, s, read)
    BY <1>1, <1>2, <2>1, UnseenBetween
  <2>4. k = l => ~Unseen(here, window, read, s) /\ ~Unseen(here, window, s, read)
    BY <1>1, <1>2, <2>1, SeenWithin
  <2>5. k < l \/ l < k \/ k = l
    BY <1>1, <1>2
  <2>6. s \in part[k] <=> k = l
    BY <1>1, <1>2, <2>1
  <2> QED
    BY <1>6, <2>2, <2>3, <2>4, <2>5, <2>6
<1>8. \A s \in Range(journal) : Together(read, s) => s \in here
  <2>1. \A s : Together(read, s) => SameLine(read, s)
    BY Zenon DEF Together
  <2> QED
    BY <1>3, <2>1
<1>9. part[k] \subseteq here
  BY <1>1, <1>2
<1> QED
  BY <1>4, <1>7, <1>8, <1>9 DEF BurstOf

(* The instant of a crossing is the earliest the rule accepts.             *)
LEMMA InstantIs ==
    ASSUME NEW input, IsEvidence(input), NEW read, NEW part, NEW m, NEW chosen, NEW kept, NEW k,
           IsFound(input, read, part, m, chosen, kept, k)
    PROVE  LET wanted == Wanted(part[k], RuleFor(input.policy, Resolve(input.antennas, read))) IN
           /\ wanted = {} <=> ~Some(chosen[k])
           /\ wanted # {} =>
                /\ chosen[k] \in wanted
                /\ chosen[k].at = CHOOSE t \in {r.at : r \in wanted} : \A r \in wanted : t <= r.at
<1> DEFINE checkpoint == Resolve(input.antennas, read)
           rule == RuleFor(input.policy, checkpoint)
           wanted == Wanted(part[k], rule)
           here == Here(input, read.chip, checkpoint)
           at == chosen[k].at
<1>1. Accounts(input, read.chip, checkpoint, part, m, chosen, kept) /\ k \in 1..m
  BY DEF IsFound
<1>2. AreReads(here) /\ part[k] \subseteq here
  BY <1>1, PartsOfGroup
<1>3. None \notin here
  BY DEF Here, IsEvidence
<1>4. Chosen(part[k], rule, chosen[k])
  BY <1>1 DEF Accounts
<1>5. wanted \subseteq part[k]
  BY DEF Wanted
<1>6. \A r \in wanted : r.at \in Int
  BY <1>2, <1>5 DEF AreReads
<1> HIDE DEF wanted, here
<1>7. IF wanted = {} THEN chosen[k] = None
      ELSE chosen[k] \in wanted /\ \A r \in wanted : r = chosen[k] \/ Earlier(chosen[k], r)
  BY <1>4 DEF Chosen, wanted
<1>8. wanted # {} => chosen[k] # None
  BY <1>2, <1>3, <1>5, <1>7
<1>9. ASSUME wanted # {}
      PROVE  at = CHOOSE t \in {r.at : r \in wanted} : \A r \in wanted : t <= r.at
  <2> DEFINE times == {r.at : r \in wanted}
             IsLeast(t) == \A r \in wanted : t <= r.at
  <2>1. at \in times
    BY <1>7, <1>9
  <2>2. IsLeast(at)
    <3>1. ASSUME NEW r \in wanted
          PROVE  at <= r.at
      <4>1. at \in Int /\ r.at \in Int
        BY <1>6, <1>7
      <4> QED
        BY <1>7, <4>1 DEF Earlier
    <3> QED
      BY <3>1
  <2>3. \A t \in times : IsLeast(t) => t = at
    <3>1. ASSUME NEW r \in wanted, IsLeast(r.at)
          PROVE  r.at = at
      <4>1. r.at <= at /\ at <= r.at /\ r.at \in Int /\ at \in Int
        BY <1>6, <1>7, <2>2, <3>1
      <4> QED
        BY <4>1
    <3> HIDE DEF IsLeast
    <3> QED
      BY <3>1
  <2> HIDE DEF times, IsLeast
  <2>4. at = CHOOSE t \in times : IsLeast(t)
    BY <2>1, <2>2, <2>3
  <2> QED
    BY <2>4, Zenon DEF times, IsLeast
<1> QED
  BY <1>7, <1>8, <1>9 DEF wanted, Some

(* A read of no checkpoint is refused for that, and for nothing else.      *)
LEMMA UnmappedIs ==
    ASSUME NEW input, IsEvidence(input), NEW read \in Range(input.reads), ~Some(Resolve(input.antennas, read))
    PROVE  {x.reason : x \in {y \in Derive(input).rejected : y.read = read.seq}} = {"unmapped"}
<1> DEFINE rejected == Derive(input).rejected
           unmapped == {r \in Range(input.reads) : ~Some(Resolve(input.antennas, r))}
           row == [read |-> read.seq, reason |-> "unmapped", by |-> None]
<1>1. row \in rejected /\ row.read = read.seq /\ row.reason = "unmapped"
  <2>1. row \in Rejected(unmapped, "unmapped", None)
    BY DEF Rejected
  <2> QED
    BY <2>1, DeriveIs
<1>2. ASSUME NEW x \in rejected, x.read = read.seq
      PROVE  x.reason = "unmapped"
  <2>1. CASE x \in Rejected(unmapped, "unmapped", None)
    BY <2>1 DEF Rejected
  <2>2. CASE x \notin Rejected(unmapped, "unmapped", None)
    <3>1. PICK g \in Groups(input) : x \in Credited(input, g[1], g[2]).rejected
      BY <2>2, DeriveIs
    <3>2. PICK part1, m1, chosen1, kept1 : Accounts(input, g[1], g[2], part1, m1, chosen1, kept1)
      BY GroupAccounts
    <3>3. PICK l \in 1..m1 : x \in LeftOf(part1, chosen1, kept1, l)
      BY <3>1, <3>2 DEF Accounts
    <3>4. PICK r \in part1[l] : x.read = r.seq
      BY <3>3, LeftTells
    <3>5. r \in Here(input, g[1], g[2])
      BY <3>2, <3>4, PartsOfGroup
    <3>6. r = read
      BY <1>2, <3>4, <3>5 DEF Here, IsEvidence, AreReads
    <3>7. Some(g[2])
      BY DEF Groups
    <3> QED
      BY <3>5, <3>6, <3>7 DEF Here
  <2> QED
    BY <2>1, <2>2
<1> HIDE DEF rejected, row
<1> QED
  BY <1>1, <1>2 DEF rejected

LEMMA BurstsStand == TimingShape => BurstsBecomeCrossings
<1> SUFFICES ASSUME TimingShape
             PROVE  BurstsBecomeCrossings
  OBVIOUS
<1> DEFINE input == InputOf(journal, written, started)
           found == derivation
           why(read) == {x \in found.rejected : x.read = read.seq}
           crossing(read) == {c \in found.accepted : read.seq \in c.burst}
           wanted(read) == Wanted(BurstOf(read), RuleFor(setup.policy, Checkpoint(read)))
           at(read) == CHOOSE t \in {r.at : r \in wanted(read)} : \A r \in wanted(read) : t <= r.at
           inTheRace(read) == Some(Gun) => \E r \in BurstOf(read) : r.at >= Gun
           soon(read, c) == /\ c.chip = read.chip /\ c.checkpoint = Checkpoint(read)
                            /\ c.at < at(read) /\ at(read) - c.at < setup.policy.minLap
                            /\ c.raceSide \/ ~inTheRace(read)
           refused(read) == \/ wanted(read) = {}
                            \/ Some(setup.policy.minLap) /\ \E c \in found.accepted : soon(read, c)
           Becomes(read) ==
              IF ~Some(Checkpoint(read)) THEN {x.reason : x \in why(read)} = {"unmapped"}
              ELSE IF refused(read) THEN crossing(read) = {} /\ Cardinality(why(read)) = 1
              ELSE \E c \in found.accepted :
                      /\ crossing(read) = {c} /\ c.at = at(read)
                      /\ c.burst = {s.seq : s \in BurstOf(read)}
                      /\ c.source \in {s.seq : s \in wanted(read)}
                      /\ why(read) = IF c.source = read.seq THEN {} ELSE
                            {[read |-> read.seq, reason |-> "duplicate", by |-> c.source]}
<1>1. IsEvidence(input) /\ found = Derive(input)
  BY EvidenceIs DEF TimingShape, derivation
<1>2. input.gun = Gun /\ input.reads = journal /\ input.antennas = setup.antennas /\ input.policy = setup.policy
  BY DEF InputOf, Gun
<1> HIDE DEF input, found
<1>3. ASSUME NEW read \in Range(journal)
      PROVE  Becomes(read)
  <2> DEFINE checkpoint == Resolve(input.antennas, read)
  <2>1. checkpoint = Checkpoint(read)
    BY <1>2 DEF Checkpoint
  <2>2. CASE ~Some(checkpoint)
    <3>1. {x.reason : x \in why(read)} = {"unmapped"}
      BY <1>1, <1>2, <2>2, UnmappedIs
    <3> QED
      BY <2>1, <2>2, <3>1
  <2>3. CASE Some(checkpoint)
    <3>1. PICK part, m, chosen, kept, k : IsFound(input, read, part, m, chosen, kept, k)
      BY <1>1, <1>2, <2>3, SomethingIsFound
    <3>2. BurstOf(read) = part[k]
      BY <1>1, <1>2, <3>1, BurstOfRead
    <3>3. wanted(read) = Wanted(part[k], RuleFor(input.policy, checkpoint))
      BY <1>2, <2>1, <3>2
    <3>4. inTheRace(read) <=> Sided(part[k], input.gun)
      BY <1>2, <3>2, Zenon DEF Sided
    <3> DEFINE crossed == CrossingOf(input, read.chip, checkpoint, part, chosen, k)
    <3>5. crossing(read) = IF k \in kept THEN {crossed} ELSE {}
      BY <1>1, <3>1, CrossingsOfRead
    <3>6. /\ k \notin kept => Cardinality(why(read)) = 1
          /\ k \in kept => why(read) = IF chosen[k].seq = read.seq THEN {} ELSE
                               {[read |-> read.seq, reason |-> "duplicate", by |-> chosen[k].seq]}
      BY <1>1, <3>1, ReasonsAre
    <3>7. /\ wanted(read) = {} <=> ~Some(chosen[k])
          /\ wanted(read) # {} => chosen[k] \in wanted(read) /\ chosen[k].at = at(read)
      BY <1>1, <3>1, <3>3, InstantIs
    <3>8. k \in kept => Some(chosen[k])
      BY <3>1 DEF IsFound, Accounts
    <3>9. /\ crossed.at = chosen[k].at /\ crossed.burst = {s.seq : s \in part[k]}
          /\ crossed.source = chosen[k].seq
      BY DEF CrossingOf
    <3>10. refused(read) <=> k \notin kept
      <4>1. CASE wanted(read) = {}
        BY <3>7, <3>8, <4>1
      <4>2. CASE wanted(read) # {}
        <5>1. k \notin kept <=>
                /\ Some(input.policy.minLap)
                /\ \E c \in Derive(input).accepted :
                      /\ c.chip = read.chip /\ c.checkpoint = Resolve(input.antennas, read)
                      /\ c.at < chosen[k].at /\ chosen[k].at - c.at < input.policy.minLap
                      /\ c.raceSide \/ ~Sided(part[k], input.gun)
          BY <1>1, <3>1, <3>7, <4>2, KeptUnlessSoon
        <5>2. \A c : soon(read, c) <=>
                /\ c.chip = read.chip /\ c.checkpoint = Resolve(input.antennas, read)
                /\ c.at < chosen[k].at /\ chosen[k].at - c.at < input.policy.minLap
                /\ c.raceSide \/ ~Sided(part[k], input.gun)
          <6> HIDE DEF inTheRace, at
          <6> QED
            BY <1>2, <2>1, <3>4, <3>7, <4>2
        <5> HIDE DEF soon, wanted
        <5> QED
          BY <1>1, <1>2, <4>2, <5>1, <5>2
      <4> QED
        BY <4>1, <4>2
    <3> HIDE DEF refused, wanted, at, crossing, why, crossed
    <3>11. CASE k \notin kept
      BY <2>1, <2>3, <3>5, <3>6, <3>10, <3>11
    <3>12. CASE k \in kept
      <4>1. crossed \in found.accepted
        BY <3>5, <3>12 DEF crossing
      <4>2. crossed.source \in {s.seq : s \in wanted(read)}
        BY <3>7, <3>8, <3>9, <3>12
      <4>3. crossing(read) = {crossed} /\ crossed.at = at(read) /\ crossed.burst = {s.seq : s \in BurstOf(read)}
        BY <3>2, <3>5, <3>7, <3>8, <3>9, <3>12
      <4>4. why(read) = IF crossed.source = read.seq THEN {} ELSE
                            {[read |-> read.seq, reason |-> "duplicate", by |-> crossed.source]}
        BY <3>6, <3>9, <3>12
      <4> QED
        BY <2>1, <2>3, <3>10, <3>12, <4>1, <4>2, <4>3, <4>4
    <3> QED
      BY <3>11, <3>12
  <2> QED
    BY <2>2, <2>3
<1> QED
  BY <1>3, Zenon DEF BurstsBecomeCrossings, found

(* Whatever reads come in, in whatever order: those of a chip at a         *)
(* checkpoint that no pause of more than a window parts become one         *)
(* crossing, at the first instant the rule accepts, or none: where the     *)
(* rule accepts nothing, or where a crossing that stands was less than a   *)
(* lap before and not a warm-up to this one's race. And every read is      *)
(* either what a crossing rests on, or refused for one reason.             *)
THEOREM ReadsBecomeCrossings == TimingSpec => []BurstsBecomeCrossings
<1>1. TimingInit => TimingShape
  BY TimingShapeAtFirst
<1>2. TimingShape /\ [TimingNext]_timingVars => TimingShape'
  BY TimingShapeHolds
<1>3. TimingShape => BurstsBecomeCrossings
  BY BurstsStand
<1> QED
  BY <1>1, <1>2, <1>3, PTL DEF TimingSpec

-----------------------------------------------------------------------------
(***************************************************************************)
(* Everybody's line.                                                       *)
(***************************************************************************)

LineFields == {"participant", "status", "declared", "startAt", "finishAt", "time", "rests", "flags"}

(* A line: an entry with a bib and a place.                                *)
LineWith(e, bib, place) ==
    [f \in LineFields \cup {"bib", "place"} |->
        IF f = "place" THEN place ELSE IF f = "bib" THEN bib ELSE e[f]]

(* Who is placed, and where.                                               *)
Placeable(input) ==
    {q \in DOMAIN input.roster : EntryOf(input, q).status = "finished" /\ Some(EntryOf(input, q).time)}

PlaceIn(input, p) ==
    IF p \notin Placeable(input) THEN None
    ELSE 1 + Cardinality({q \in Placeable(input) : EntryOf(input, q).time < EntryOf(input, p).time})

LineIn(input, p) == LineWith(EntryOf(input, p), input.roster[p], PlaceIn(input, p))

LinesOf(input) == {LineIn(input, p) : p \in DOMAIN input.roster}

LEMMA EntryIs ==
    ASSUME NEW input, NEW p
    PROVE  DOMAIN EntryOf(input, p) = LineFields /\ EntryOf(input, p).participant = p
<1>1. ASSUME NEW start, NEW atStart, NEW atFinish
      PROVE  /\ DOMAIN Entry(input, p, start, atStart, atFinish) = LineFields
             /\ Entry(input, p, start, atStart, atFinish).participant = p
  BY DEF Entry, LineFields
<1> QED
  BY <1>1 DEF EntryOf

LEMMA LineIsWith ==
    ASSUME NEW e, DOMAIN e = LineFields, NEW bib, NEW place
    PROVE  Having(Having(e, "bib", bib), "place", place) = LineWith(e, bib, place)
<1> DEFINE l == Having(e, "bib", bib)
<1>1. DOMAIN l = LineFields \cup {"bib"} /\ \A f \in DOMAIN l : l[f] = IF f = "bib" THEN bib ELSE e[f]
  BY DEF Having
<1> HIDE DEF l
<1>2. Having(l, "place", place) = [f \in DOMAIN l \cup {"place"} |-> IF f = "place" THEN place ELSE l[f]]
  BY Zenon DEF Having
<1>3. DOMAIN l \cup {"place"} = LineFields \cup {"bib", "place"}
  BY <1>1
<1>4. \A f \in LineFields \cup {"bib", "place"} :
         (IF f = "place" THEN place ELSE l[f]) = IF f = "place" THEN place ELSE IF f = "bib" THEN bib ELSE e[f]
  BY <1>1
<1>5. Having(l, "place", place) = LineWith(e, bib, place)
  BY <1>2, <1>3, <1>4 DEF LineWith
<1> QED
  BY <1>5 DEF l

(* What a line holds.                                                      *)
LEMMA LineHolds ==
    ASSUME NEW e, NEW bib, NEW place
    PROVE  LET l == LineWith(e, bib, place) IN
           /\ l.bib = bib /\ l.place = place /\ l.participant = e.participant /\ l.status = e.status
           /\ l.time = e.time /\ l.finishAt = e.finishAt /\ l.flags = e.flags
           /\ DOMAIN l = LineFields \cup {"bib", "place"}
  BY DEF LineWith, LineFields

LEMMA LinesAre ==
    ASSUME NEW input, IsRace(input)
    PROVE  /\ Lines(EntriesOf(input)) = LinesOf(input)
           /\ \A p \in DOMAIN input.roster : LineIn(input, p).place \in Nat \cup {None}
<1> DEFINE runners == DOMAIN input.roster
           entry(p) == EntryWithBib(input, p)
           entries == EntriesOf(input)
           placed == Placeable(input)
           timed == Timed(entries)
<1>1. /\ AreEntries(entries) /\ IsFiniteSet(runners)
      /\ \A p \in runners : /\ entry(p).bib = input.roster[p]
                            /\ entry(p).time = EntryOf(input, p).time
                            /\ entry(p).status = EntryOf(input, p).status
      /\ \A p, q \in runners : input.roster[p] = input.roster[q] => p = q
  BY EntriesAre
<1>2. entries = {entry(p) : p \in runners}
  BY DEF EntriesOf
<1>3. placed = {p \in runners : entry(p).status = "finished" /\ Some(entry(p).time)}
  BY <1>1 DEF Placeable
<1> HIDE DEF entry, entries
<1>4. \A p \in runners : entry(p) \in timed <=> p \in placed
  BY <1>2, <1>3 DEF Timed, IsPlaced
<1>5. timed = {entry(p) : p \in placed}
  BY <1>2, <1>3, <1>4 DEF Timed
<1>6. placed \subseteq runners /\ IsFiniteSet(placed)
  BY <1>1, <1>3, FS_Subset
<1> HIDE DEF placed, timed
<1>7. ASSUME NEW p \in runners
      PROVE  Places(entries)[entry(p)] = PlaceIn(input, p) /\ PlaceIn(input, p) \in Nat \cup {None}
  <2> DEFINE ahead == {q \in placed : EntryOf(input, q).time < EntryOf(input, p).time}
             before == {f \in timed : f.time < entry(p).time}
             g == [q \in ahead |-> entry(q)]
  <2>1. /\ g \in [ahead -> before] /\ \A x, y \in ahead : g[x] = g[y] => x = y
        /\ \A y \in before : \E x \in ahead : g[x] = y
    <3>1. \A q \in ahead : entry(q) \in before
      BY <1>1, <1>5, <1>6
    <3>2. \A y \in before : \E q \in ahead : entry(q) = y
      BY <1>1, <1>5, <1>6
    <3>3. \A x, y \in ahead : entry(x) = entry(y) => x = y
      BY <1>1, <1>6
    <3> HIDE DEF ahead, before
    <3> QED
      BY <3>1, <3>2, <3>3
  <2>2. IsFiniteSet(ahead)
    BY <1>6, FS_Subset
  <2>3. Cardinality(before) = Cardinality(ahead) /\ Cardinality(ahead) \in Nat
    <3> HIDE DEF g, before, ahead
    <3> QED
      BY <2>1, <2>2, AsMany, FS_CardinalityType
  <2>4. PlaceIn(input, p) = IF p \in placed THEN 1 + Cardinality(ahead) ELSE None
    BY DEF PlaceIn, placed
  <2>5. Places(entries)[entry(p)] = IF entry(p) \in timed THEN PlaceAmong(timed, entry(p)) ELSE None
    <3>1. entry(p) \in entries
      BY <1>2
    <3> QED
      BY <1>1, <3>1, PlacesCount DEF AreEntries, timed
  <2>6. PlaceAmong(timed, entry(p)) = 1 + Cardinality(before)
    BY Zenon DEF PlaceAmong
  <2> HIDE DEF before, ahead
  <2> QED
    BY <1>4, <2>3, <2>4, <2>5, <2>6
<1>8. ASSUME NEW p \in runners
      PROVE  Having(entry(p), "place", Places(entries)[entry(p)]) = LineIn(input, p)
  <2>1. DOMAIN EntryOf(input, p) = LineFields
    BY EntryIs
  <2>2. Having(entry(p), "place", PlaceIn(input, p)) = LineIn(input, p)
    BY <2>1, LineIsWith DEF entry, EntryWithBib, LineIn
  <2> QED
    BY <1>7, <2>2
<1>9. Lines(entries) = {Having(entry(p), "place", Places(entries)[entry(p)]) : p \in runners}
  BY <1>2 DEF Lines
<1>10. Lines(entries) = LinesOf(input)
  BY <1>8, <1>9 DEF LinesOf
<1>11. \A p \in runners : LineIn(input, p).place = PlaceIn(input, p)
  BY LineHolds DEF LineIn
<1> QED
  BY <1>7, <1>10, <1>11 DEF entries

(* The sheet lists everybody once.                                         *)
LEMMA SheetIs ==
    ASSUME NEW input, IsRace(input)
    PROVE  /\ IsListOf(Score(input), LinesOf(input), Pairs(LinesOf(input), Listed))
           /\ Orders(LinesOf(input), Pairs(LinesOf(input), Listed))
           /\ Score(input) = InOrder(LinesOf(input), Pairs(LinesOf(input), Listed))
           /\ IsFiniteSet(LinesOf(input))
           /\ \A p, q \in DOMAIN input.roster : LineIn(input, p) = LineIn(input, q) => p = q
<1> DEFINE lines == LinesOf(input)
           R == Pairs(lines, Listed)
<1>1. Lines(EntriesOf(input)) = lines
  BY LinesAre
<1>2. Score(input) = InOrder(Lines(EntriesOf(input)), Pairs(Lines(EntriesOf(input)), Listed))
  BY Zenon DEF Score, Lines, EntriesOf, EntryWithBib
<1>3. /\ IsFiniteSet(lines)
      /\ \A l \in lines : l.bib \in Int /\ (l.place \in Nat \/ l.place = None)
      /\ \A l, m \in lines : l.bib = m.bib => l = m
  BY <1>1, EntriesAre, LinesCount
<1>4. \A l, m \in lines : <<l, m>> \in R <=> Listed(l, m)
  BY DEF Pairs
<1>5. \A l \in lines : Printed(l)
  BY <1>3 DEF Printed
<1>6. \A p \in DOMAIN input.roster : LineIn(input, p).participant = p
  BY LineHolds, EntryIs DEF LineIn
<1> HIDE DEF R, lines
<1>7. Orders(lines, R)
  BY <1>3, <1>4, <1>5, ListedOrders DEF Orders
<1>8. IsListOf(InOrder(lines, R), lines, R)
  BY <1>3, <1>7, InOrderLists
<1> QED
  BY <1>1, <1>2, <1>3, <1>6, <1>7, <1>8 DEF R, lines

LEMMA LineOfIs ==
    ASSUME NEW input, IsRace(input)
    PROVE  /\ Range(Score(input)) = LinesOf(input)
           /\ \A p \in DOMAIN input.roster : LineOf(Score(input), p) = LineIn(input, p)
<1> DEFINE sheet == Score(input)
           lines == LinesOf(input)
<1>1. Len(sheet) \in Nat /\ sheet \in [1..Len(sheet) -> lines] /\ \A x \in lines : \E i \in 1..Len(sheet) : sheet[i] = x
  BY SheetIs DEF IsListOf
<1> HIDE DEF sheet
<1>2. Range(sheet) = lines
  BY <1>1 DEF Range
<1>3. \A p \in DOMAIN input.roster : LineIn(input, p).participant = p
  BY LineHolds, EntryIs DEF LineIn
<1>4. ASSUME NEW p \in DOMAIN input.roster
      PROVE  LineOf(sheet, p) = LineIn(input, p)
  <2>1. LineIn(input, p) \in Range(sheet) /\ LineIn(input, p).participant = p
    BY <1>2, <1>3 DEF LinesOf
  <2>2. \A e \in Range(sheet) : e.participant = p => e = LineIn(input, p)
    BY <1>2, <1>3 DEF LinesOf
  <2> QED
    BY <2>1, <2>2, Zenon DEF LineOf
<1> QED
  BY <1>2, <1>4 DEF sheet

-----------------------------------------------------------------------------
(***************************************************************************)
(* A declaration moves only places.                                        *)
(***************************************************************************)

(* The same race, with another word said.                                  *)
SaidOnTop(input, before, word) ==
    /\ input.events = before.events /\ input.roster = before.roster /\ input.course = before.course
    /\ input.mode = before.mode /\ input.gun = before.gun /\ input.handsFirst = before.handsFirst
    /\ \E S : before.declarations \in Seq(S) /\ word \in S
    /\ input.declarations = Append(before.declarations, word)

(* Of places in a list there is a last.                                    *)
LEMMA GreatestIs ==
    ASSUME NEW n \in Nat, NEW T \in SUBSET (1..n), T # {}
    PROVE  \E i \in T : \A j \in T : j <= i
<1> DEFINE R == {pair \in T \X T : pair[1] < pair[2]}
           m == Cardinality(T)
           rank(i) == RankIn(T, R, i)
<1>1. \A i, j \in T : <<i, j>> \in R <=> i < j
  OBVIOUS
<1>2. IsFiniteSet(T)
  <2>1. IsFiniteSet(1..n)
    BY FS_Interval
  <2> QED
    BY <2>1, FS_Subset
<1>3. \A i \in T : i \in Int
  OBVIOUS
<1> HIDE DEF R
<1>4. Orders(T, R)
  BY <1>1, <1>3 DEF Orders
<1>5. m \in Nat /\ \A i \in T : rank(i) \in 0..(m - 1)
  BY <1>2, <1>4, Ranked
<1>6. \A i, j \in T : <<i, j>> \in R => rank(i) < rank(j)
  BY <1>2, <1>4, Ranked
<1>7. \A k \in 1..m : \E i \in T : rank(i) = k - 1
  BY <1>2, <1>4, Ranked
<1> HIDE DEF m, rank
<1>8. m \in 1..m
  <2>1. PICK i \in T : rank(i) \in 0..(m - 1)
    BY <1>5
  <2> QED
    BY <1>5, <2>1
<1>9. PICK i \in T : rank(i) = m - 1
  BY <1>7, <1>8
<1>10. ASSUME NEW j \in T, i < j
       PROVE  FALSE
  <2>1. rank(j) \in 0..(m - 1) /\ rank(i) < rank(j)
    BY <1>1, <1>5, <1>6, <1>10
  <2> QED
    BY <1>5, <1>9, <2>1
<1> QED
  BY <1>3, <1>10

(* The newest word about a runner is in force.                             *)
LEMMA LatestIsOnTop ==
    ASSUME NEW words, NEW S, words \in Seq(S), NEW word \in S, NEW p
    PROVE  LatestDeclaration(Append(words, word), p) =
              IF p = word.participant THEN word.status ELSE LatestDeclaration(words, p)
<1> DEFINE all == Append(words, word)
           n == Len(words)
           About(ws) == {i \in DOMAIN ws : ws[i].participant = p}
           IsTop(ws, i) == \A j \in About(ws) : j <= i
<1>1. /\ n \in Nat /\ DOMAIN words = 1..n /\ DOMAIN all = 1..(n + 1)
      /\ all[n + 1] = word /\ \A i \in 1..n : all[i] = words[i]
  OBVIOUS
<1>2. \A ws : LatestDeclaration(ws, p) =
         IF About(ws) = {} THEN None ELSE ws[CHOOSE i \in About(ws) : IsTop(ws, i)].status
  BY Zenon DEF LatestDeclaration
<1> HIDE DEF all, n
<1>3. CASE p = word.participant
  <2>1. n + 1 \in About(all) /\ IsTop(all, n + 1)
    BY <1>1, <1>3
  <2>2. \A i \in About(all) : IsTop(all, i) => i = n + 1
    <3>1. \A i \in About(all) : i \in 1..(n + 1)
      BY <1>1
    <3> QED
      BY <1>1, <2>1, <3>1
  <2> HIDE DEF About, IsTop
  <2>3. (CHOOSE i \in About(all) : IsTop(all, i)) = n + 1
    BY <2>1, <2>2
  <2> QED
    BY <1>1, <1>2, <1>3, <2>1, <2>3 DEF all
<1>4. CASE p # word.participant
  <2>1. About(all) = About(words)
    BY <1>1, <1>4
  <2>2. \A i : IsTop(all, i) <=> IsTop(words, i)
    BY <2>1
  <2> HIDE DEF About, IsTop
  <2>3. (CHOOSE i \in About(all) : IsTop(all, i)) = CHOOSE i \in About(words) : IsTop(words, i)
    BY <2>1, <2>2
  <2>4. ASSUME About(words) # {}
        PROVE  \E i \in About(words) : IsTop(words, i)
    <3>1. About(words) \subseteq 1..n
      BY <1>1 DEF About
    <3>2. \E i \in About(words) : \A j \in About(words) : j <= i
      BY <1>1, <2>4, <3>1, GreatestIs
    <3> QED
      BY <3>2 DEF IsTop
  <2>5. ASSUME About(words) # {}
        PROVE  (CHOOSE i \in About(words) : IsTop(words, i)) \in 1..n
    <3>1. About(words) \subseteq 1..n
      BY <1>1 DEF About
    <3> QED
      BY <2>4, <2>5, <3>1
  <2> QED
    BY <1>1, <1>2, <1>4, <2>1, <2>3, <2>5 DEF all
<1> QED
  BY <1>3, <1>4

(* A word says nothing of anybody else, and of times nothing at all.       *)
LEMMA EntriesSaid ==
    ASSUME NEW input, NEW before, NEW word, SaidOnTop(input, before, word), word.status # None, NEW p
    PROVE  /\ p # word.participant => EntryOf(input, p) = EntryOf(before, p)
           /\ p = word.participant => EntryOf(input, p).status = word.status
           /\ EntryOf(input, p).time = EntryOf(before, p).time
<1> DEFINE line == Sole(input.course, "start")
           AtStart(r) == IF Some(line) THEN Crossings(r, p, line) ELSE NoCrossings
           AtFinish(r) == Crossings(r, p, Sole(r.course, "finish"))
           Start(r) == StartOf(AtStart(r), r.gun)
           latest(r) == LatestDeclaration(r.declarations, p)
<1>1. /\ input.events = before.events /\ input.roster = before.roster /\ input.course = before.course
      /\ input.mode = before.mode /\ input.gun = before.gun /\ input.handsFirst = before.handsFirst
  BY DEF SaidOnTop
<1>2. \A c : Crossings(input, p, c) = Crossings(before, p, c)
  BY <1>1 DEF Crossings
<1>3. Started(input, p) = Started(before, p)
  BY <1>1 DEF Started
<1>4. latest(input) = IF p = word.participant THEN word.status ELSE latest(before)
  BY LatestIsOnTop DEF SaidOnTop
<1>5. AtStart(input) = AtStart(before) /\ AtFinish(input) = AtFinish(before) /\ Start(input) = Start(before)
  BY <1>1, <1>2
<1>6. EntryOf(input, p) = Entry(input, p, Start(input), AtStart(input), AtFinish(input))
  BY Zenon DEF EntryOf
<1>7. EntryOf(before, p) = Entry(before, p, Start(before), AtStart(before), AtFinish(before))
  BY <1>1, Zenon DEF EntryOf
<1> HIDE DEF AtStart, AtFinish, Start
<1>8. \A start, atStart, atFinish :
         /\ latest(input) = latest(before) =>
               Entry(input, p, start, atStart, atFinish) = Entry(before, p, start, atStart, atFinish)
         /\ Some(latest(input)) => Entry(input, p, start, atStart, atFinish).status = latest(input)
         /\ Entry(input, p, start, atStart, atFinish).time = Entry(before, p, start, atStart, atFinish).time
  <2> TAKE start, atStart, atFinish
  <2>1. Entry(input, p, start, atStart, atFinish).time = Entry(before, p, start, atStart, atFinish).time
    BY <1>1 DEF Entry
  <2>2. Some(latest(input)) => Entry(input, p, start, atStart, atFinish).status = latest(input)
    BY DEF Entry
  <2>3. latest(input) = latest(before) =>
           Entry(input, p, start, atStart, atFinish) = Entry(before, p, start, atStart, atFinish)
    BY <1>1, <1>3 DEF Entry
  <2> QED
    BY <2>1, <2>2, <2>3
<1> HIDE DEF latest
<1> QED
  BY <1>4, <1>5, <1>6, <1>7, <1>8 DEF Some


(* Where a place moves, it moves by one, and all move one way.             *)
Moves(input, before, d, p) ==
    \/ PlaceIn(input, p) = PlaceIn(before, p)
    \/ /\ PlaceIn(input, p) \in Nat /\ PlaceIn(before, p) \in Nat
       /\ PlaceIn(input, p) - PlaceIn(before, p) = d

LEMMA PlacesMove ==
    ASSUME NEW input, IsRace(input), NEW before, NEW word, SaidOnTop(input, before, word), word.status # None
    PROVE  \E d \in {1, -1} : \A p \in DOMAIN input.roster : p # word.participant => Moves(input, before, d, p)
<1> DEFINE w == word.participant
           now == Placeable(input)
           then == Placeable(before)
           runners == DOMAIN input.roster
           time(p) == EntryOf(input, p).time
           PlaceBy(S, p) == IF p \notin S THEN None ELSE 1 + Cardinality({q \in S : time(q) < time(p)})
<1>1. input.roster = before.roster
  BY DEF SaidOnTop
<1>2. \A p : /\ p # w => EntryOf(input, p) = EntryOf(before, p)
             /\ EntryOf(input, p).time = EntryOf(before, p).time
  BY EntriesSaid
<1>3. \A p \in runners : p # w => (p \in now <=> p \in then)
  BY <1>1, <1>2 DEF Placeable
<1>4. now \subseteq runners /\ then \subseteq runners /\ IsFiniteSet(runners)
  BY <1>1 DEF Placeable, IsRace, IsRoster
<1>5. \A p : PlaceIn(input, p) = PlaceBy(now, p)
  BY Zenon DEF PlaceIn
<1>6. \A p : PlaceIn(before, p) = PlaceBy(then, p)
  <2>1. \A p : PlaceIn(before, p) =
           IF p \notin then THEN None
           ELSE 1 + Cardinality({q \in then : EntryOf(before, q).time < EntryOf(before, p).time})
    BY Zenon DEF PlaceIn
  <2> HIDE DEF then
  <2> QED
    BY <1>2, <2>1
<1>7. IsFiniteSet(now) /\ IsFiniteSet(then)
  BY <1>4, FS_Subset
<1> HIDE DEF now, then, time
<1>8. ASSUME NEW S, NEW T, IsFiniteSet(S), w \notin S, T = S \cup {w}, NEW p, p # w
      PROVE  \/ PlaceBy(T, p) = PlaceBy(S, p)
             \/ PlaceBy(S, p) \in Nat /\ PlaceBy(T, p) \in Nat /\ PlaceBy(T, p) = PlaceBy(S, p) + 1
  <2> DEFINE Ahead(q) == time(q) < time(p)
             few == {q \in S : Ahead(q)}
             more == {q \in T : Ahead(q)}
  <2>1. IsFiniteSet(few) /\ w \notin few
    <3>1. few \subseteq S
      OBVIOUS
    <3> HIDE DEF few
    <3> QED
      BY <1>8, <3>1, FS_Subset
  <2>2. more = few \/ more = few \cup {w}
    BY <1>8
  <2>3. /\ PlaceBy(S, p) = IF p \notin S THEN None ELSE 1 + Cardinality(few)
        /\ PlaceBy(T, p) = IF p \notin T THEN None ELSE 1 + Cardinality(more)
    OBVIOUS
  <2>4. p \in S <=> p \in T
    BY <1>8
  <2> HIDE DEF few, more, PlaceBy
  <2>5. Cardinality(few \cup {w}) = Cardinality(few) + 1
    BY <2>1, FS_AddElement
  <2>6. Cardinality(few) \in Nat
    BY <2>1, FS_CardinalityType
  <2>7. PICK x : x = Cardinality(few)
    OBVIOUS
  <2>8. PICK y : y = Cardinality(more)
    OBVIOUS
  <2>9. x \in Nat /\ y \in Nat /\ (y = x \/ y = x + 1)
    BY <2>2, <2>5, <2>6, <2>7, <2>8
  <2>10. CASE p \in S
    <3>1. PlaceBy(S, p) = 1 + x /\ PlaceBy(T, p) = 1 + y
      BY <2>3, <2>4, <2>7, <2>8, <2>10
    <3>2. 1 + x \in Nat /\ 1 + y \in Nat /\ (1 + y = 1 + x \/ 1 + y = 1 + x + 1)
      BY <2>9
    <3> QED
      BY <3>1, <3>2
  <2>11. CASE p \notin S
    BY <2>3, <2>4, <2>11
  <2> QED
    BY <2>10, <2>11
<1> HIDE DEF PlaceBy
<1>9. CASE w \in now /\ w \notin then
  <2>1. now = then \cup {w}
    BY <1>3, <1>4, <1>9
  <2>2. \A p \in runners : p # w => Moves(input, before, 1, p)
    BY <1>5, <1>6, <1>7, <1>8, <1>9, <2>1 DEF Moves
  <2> QED
    BY <2>2
<1>10. CASE w \notin now /\ w \in then
  <2>1. then = now \cup {w}
    BY <1>3, <1>4, <1>10
  <2>2. \A p \in runners : p # w => Moves(input, before, -1, p)
    BY <1>5, <1>6, <1>7, <1>8, <1>10, <2>1 DEF Moves
  <2> QED
    BY <2>2
<1>11. CASE w \in now <=> w \in then
  <2>1. now = then
    BY <1>3, <1>4, <1>11
  <2>2. \A p \in runners : p # w => Moves(input, before, 1, p)
    BY <1>5, <1>6, <2>1 DEF Moves
  <2> QED
    BY <2>2
<1> QED
  BY <1>9, <1>10, <1>11

(* What a sheet tells of a runner is their line.                           *)
ToldOf(line) == [status |-> line.status, place |-> line.place, time |-> line.time]

LEMMA ToldIs ==
    ASSUME NEW input, IsRace(input)
    PROVE  /\ \A p \in DOMAIN input.roster :
                 Told(Score(input), input.roster[p]) = {ToldOf(LineIn(input, p))}
           /\ {e.bib : e \in Range(Score(input))} = {input.roster[p] : p \in DOMAIN input.roster}
<1>1. Range(Score(input)) = LinesOf(input)
  BY LineOfIs
<1>2. \A p \in DOMAIN input.roster : LineIn(input, p).bib = input.roster[p]
  BY LineHolds DEF LineIn
<1>3. \A p, q \in DOMAIN input.roster : input.roster[p] = input.roster[q] => p = q
  BY DEF IsRace, IsRoster, IsInjective
<1>4. {e.bib : e \in Range(Score(input))} = {input.roster[p] : p \in DOMAIN input.roster}
  BY <1>1, <1>2 DEF LinesOf
<1>5. ASSUME NEW p \in DOMAIN input.roster
      PROVE  Told(Score(input), input.roster[p]) = {ToldOf(LineIn(input, p))}
  <2>1. {f \in Range(Score(input)) : f.bib = input.roster[p]} = {LineIn(input, p)}
    BY <1>1, <1>2, <1>3 DEF LinesOf
  <2>2. Told(Score(input), input.roster[p]) =
           {ToldOf(e) : e \in {f \in Range(Score(input)) : f.bib = input.roster[p]}}
    BY Zenon DEF Told, ToldOf
  <2> QED
    BY <2>1, <2>2
<1> QED
  BY <1>4, <1>5

(* All but the last, and the last.                                         *)
LEMMA LastOnTop ==
    ASSUME NEW S, NEW s \in Seq(S), s # <<>>
    PROVE  Front(s) \in Seq(S) /\ Last(s) \in S /\ s = Append(Front(s), Last(s))
<1> DEFINE n == Len(s)
<1>1. n \in Nat /\ n >= 1 /\ s \in [1..n -> S]
  OBVIOUS
<1>2. Front(s) = SubSeq(s, 1, n - 1) /\ Last(s) = s[n]
  BY DEF Front, Last
<1>3. /\ Front(s) \in Seq(S) /\ Len(Front(s)) = n - 1
      /\ \A i \in 1..(n - 1) : Front(s)[i] = s[i]
  BY <1>1, <1>2
<1>4. Last(s) \in S
  BY <1>1, <1>2
<1>5. \A f \in Seq(S), x \in S :
         /\ Append(f, x) \in Seq(S) /\ Len(Append(f, x)) = Len(f) + 1 /\ Len(f) \in Nat
         /\ \A i \in 1..(Len(f) + 1) : Append(f, x)[i] = IF i = Len(f) + 1 THEN x ELSE f[i]
  OBVIOUS
<1>6. PICK whole : whole = Append(Front(s), Last(s))
  OBVIOUS
<1>7. /\ whole \in Seq(S) /\ Len(whole) = Len(Front(s)) + 1
      /\ \A i \in 1..(Len(Front(s)) + 1) : whole[i] = IF i = Len(Front(s)) + 1 THEN Last(s) ELSE Front(s)[i]
  BY <1>3, <1>4, <1>5, <1>6
<1> HIDE DEF n
<1>8. Len(whole) = n /\ \A i \in 1..n : whole[i] = s[i]
  BY <1>1, <1>2, <1>3, <1>7
<1>9. whole = s
  BY <1>7, <1>8, SeqEqual DEF n
<1> QED
  BY <1>3, <1>4, <1>6, <1>9

(* The two sheets, of one race and of the race with another word said.     *)
LEMMA SheetsDiffer ==
    ASSUME NEW input, IsRace(input), NEW before, IsRace(before),
           NEW word, SaidOnTop(input, before, word), word.status # None
    PROVE  OthersMove(Score(before), Score(input), input.roster[word.participant])
<1> DEFINE w == word.participant
           runners == DOMAIN input.roster
           was(p) == ToldOf(LineIn(before, p))
           is(p) == ToldOf(LineIn(input, p))
           then == Score(before)
           now == Score(input)
           others == {c \in Diff(then, now) : c.bib # input.roster[w]}
           moves == UNION {{i.place - j.place : i \in c.to, j \in c.from} : c \in others}
<1>1. input.roster = before.roster
  BY DEF SaidOnTop
<1>2. /\ \A p \in runners : Told(now, input.roster[p]) = {is(p)}
      /\ {e.bib : e \in Range(now)} = {input.roster[p] : p \in runners}
  BY ToldIs
<1>3. /\ \A p \in runners : Told(then, input.roster[p]) = {was(p)}
      /\ {e.bib : e \in Range(then)} = {input.roster[p] : p \in runners}
  <2>1. /\ \A p \in DOMAIN before.roster : Told(Score(before), before.roster[p]) = {ToldOf(LineIn(before, p))}
        /\ {e.bib : e \in Range(Score(before))} = {before.roster[p] : p \in DOMAIN before.roster}
    BY ToldIs
  <2> QED
    BY <1>1, <2>1
<1>4. PICK d \in {1, -1} : \A p \in runners : p # w => Moves(input, before, d, p)
  BY PlacesMove
<1>5. ASSUME NEW p \in runners, p # w
      PROVE  \/ is(p) = was(p)
             \/ is(p).status = was(p).status /\ is(p).place - was(p).place = d
  <2>1. EntryOf(input, p) = EntryOf(before, p)
    BY <1>5, EntriesSaid
  <2>2. /\ LineIn(input, p).place = PlaceIn(input, p) /\ LineIn(before, p).place = PlaceIn(before, p)
        /\ LineIn(input, p).status = LineIn(before, p).status
        /\ LineIn(input, p).time = LineIn(before, p).time
    BY <2>1, LineHolds DEF LineIn
  <2>3. Moves(input, before, d, p)
    BY <1>4, <1>5
  <2> QED
    BY <2>2, <2>3 DEF Moves, ToldOf
<1> HIDE DEF now, then, was, is
<1>6. ASSUME NEW c \in others
      PROVE  /\ c.change = "placement"
             /\ \A i \in c.to, j \in c.from : i.place - j.place = d
  <2>1. PICK bib \in {e.bib : e \in Range(then) \cup Range(now)} :
           /\ Told(then, bib) # Told(now, bib)
           /\ c = [bib |-> bib, change |-> Change(Told(then, bib), Told(now, bib)),
                   from |-> Told(then, bib), to |-> Told(now, bib)]
    BY DEF Diff
  <2>2. bib \in {input.roster[p] : p \in runners}
    BY <1>2, <1>3
  <2>3. PICK p \in runners : bib = input.roster[p]
    BY <2>2
  <2>4. c.bib = bib /\ c.bib # input.roster[w]
    BY <2>1
  <2>5. p # w
    BY <2>3, <2>4
  <2>6. Told(then, bib) = {was(p)} /\ Told(now, bib) = {is(p)}
    BY <1>2, <1>3, <2>3
  <2>7. is(p).status = was(p).status /\ is(p).place - was(p).place = d
    BY <1>5, <2>1, <2>5, <2>6
  <2>8. c.from = {was(p)} /\ c.to = {is(p)} /\ c.change = Change({was(p)}, {is(p)})
    BY <2>1, <2>6
  <2>9. Change({was(p)}, {is(p)}) = "placement"
    <3>1. {line.status : line \in {was(p)}} = {line.status : line \in {is(p)}}
      BY <2>7
    <3>2. {was(p)} # {} /\ {is(p)} # {}
      OBVIOUS
    <3> QED
      BY <3>1, <3>2 DEF Change
  <2> QED
    BY <2>7, <2>8, <2>9
<1> HIDE DEF others
<1>7. moves \subseteq {d}
  BY <1>6
<1>8. {c.change : c \in others} \subseteq {"placement"}
  BY <1>6
<1>9. moves \subseteq {1} \/ moves \subseteq {-1}
  BY <1>4, <1>7
<1>10. UNION {{i.place - j.place : i \in c.to, j \in c.from} : c \in others} = moves
  OBVIOUS
<1> HIDE DEF moves
<1>11. OthersMove(then, now, input.roster[w])
  BY <1>8, <1>9, <1>10 DEF OthersMove, others
<1> QED
  BY <1>11 DEF now, then

LEMMA LinesDiffer ==
    ASSUME NEW input, IsRace(input), NEW before, IsRace(before),
           NEW word, SaidOnTop(input, before, word), word.status # None
    PROVE  LinesAgree(Score(before), Score(input), word)
<1>1. input.roster = before.roster
  BY DEF SaidOnTop
<1>2. Range(Score(input)) = LinesOf(input)
  BY LineOfIs
<1>3. \A p \in DOMAIN input.roster : LineOf(Score(before), p) = LineIn(before, p)
  BY <1>1, LineOfIs
<1> SUFFICES ASSUME NEW p \in DOMAIN input.roster
             PROVE  LET e == LineIn(input, p)
                        was == LineIn(before, p) IN
                    /\ e.participant = p
                    /\ p = word.participant => e.status = word.status /\ e.time = was.time
                    /\ p # word.participant => [e EXCEPT !.place = None] = [was EXCEPT !.place = None]
  <2>1. \A e \in Range(Score(input)) : \E p \in DOMAIN input.roster : e = LineIn(input, p)
    BY <1>2 DEF LinesOf
  <2> SUFFICES ASSUME NEW e \in Range(Score(input))
               PROVE  LET was == LineOf(Score(before), e.participant) IN
                      IF e.participant = word.participant
                      THEN e.status = word.status /\ e.time = was.time
                      ELSE [e EXCEPT !.place = None] = [was EXCEPT !.place = None]
    BY Zenon DEF LinesAgree
  <2>2. PICK p \in DOMAIN input.roster : e = LineIn(input, p)
    BY <2>1
  <2>3. e.participant = p
    BY <2>2
  <2>4. LineOf(Score(before), e.participant) = LineIn(before, p)
    BY <1>3, <2>3
  <2> QED
    BY <2>2, <2>3, <2>4
<1>4. /\ p # word.participant => EntryOf(input, p) = EntryOf(before, p)
      /\ p = word.participant => EntryOf(input, p).status = word.status
      /\ EntryOf(input, p).time = EntryOf(before, p).time
  BY EntriesSaid
<1>5. EntryOf(input, p).participant = p
  BY EntryIs
<1>6. /\ LineIn(input, p).participant = EntryOf(input, p).participant
      /\ LineIn(input, p).status = EntryOf(input, p).status
      /\ LineIn(input, p).time = EntryOf(input, p).time
      /\ LineIn(before, p).time = EntryOf(before, p).time
  BY LineHolds DEF LineIn
<1>7. \A e, bib, place, other :
         [LineWith(e, bib, place) EXCEPT !.place = None] = [LineWith(e, bib, other) EXCEPT !.place = None]
  BY DEF LineWith
<1>8. p # word.participant =>
         [LineIn(input, p) EXCEPT !.place = None] = [LineIn(before, p) EXCEPT !.place = None]
  BY <1>1, <1>4, <1>7 DEF LineIn
<1> QED
  BY <1>4, <1>5, <1>6, <1>8

LEMMA DeclarationsStand == TimingShape => DeclarationMovesOnlyPlaces
<1> SUFFICES ASSUME TimingShape, declared # <<>>
             PROVE  LET word == Last(declared)
                        before == SheetOf(Range(derivation.events), Front(declared))
                    IN  /\ OthersMove(before, results, setup.roster[word.participant])
                        /\ LinesAgree(before, results, word)
  BY DEF DeclarationMovesOnlyPlaces
<1> DEFINE events == Range(DerivationOf(journal, written, started).events)
           word == Last(declared)
           input == ScoredFrom(events, declared, started)
           before == ScoredFrom(events, Front(declared), started)
<1>1. IsRace(input) /\ ScoreOf(events, declared, started) = Score(input) /\ input.roster = setup.roster
  BY RaceIs DEF TimingShape
<1>2. IsRace(before) /\ ScoreOf(events, Front(declared), started) = Score(before)
  BY RaceIs DEF TimingShape
<1>3. /\ Front(declared) \in Seq(Words) /\ word \in Words
      /\ declared = Append(Front(declared), word)
  BY LastOnTop DEF TimingShape
<1>4. SaidOnTop(input, before, word)
  BY <1>3 DEF SaidOnTop, ScoredFrom
<1>5. word.status # None
  BY <1>3, Given
<1>6. /\ results = ScoreOf(events, declared, started)
      /\ SheetOf(Range(derivation.events), Front(declared)) = ScoreOf(events, Front(declared), started)
  BY DEF results, SheetOf, derivation
<1> HIDE DEF events, input, before, word
<1>7. OthersMove(Score(before), Score(input), input.roster[word.participant])
  BY <1>1, <1>2, <1>4, <1>5, SheetsDiffer
<1>8. LinesAgree(Score(before), Score(input), word)
  BY <1>1, <1>2, <1>4, <1>5, LinesDiffer
<1> QED
  BY <1>1, <1>2, <1>6, <1>7, <1>8 DEF word

(* Whatever has been declared of whom, and whatever the evidence: the last *)
(* word said changes the status of the runner it is about and no time; of  *)
(* everybody else it moves places at most, all by one and one way; and     *)
(* those are the changes that the diff of the two sheets names.            *)
THEOREM WordsMoveOnlyPlaces == TimingSpec => []DeclarationMovesOnlyPlaces
<1>1. TimingInit => TimingShape
  BY TimingShapeAtFirst
<1>2. TimingShape /\ [TimingNext]_timingVars => TimingShape'
  BY TimingShapeHolds
<1>3. TimingShape => DeclarationMovesOnlyPlaces
  BY DeclarationsStand
<1> QED
  BY <1>1, <1>2, <1>3, PTL DEF TimingSpec

-----------------------------------------------------------------------------
(***************************************************************************)
(* What was over before the gun is no part of the race.                    *)
(***************************************************************************)

(* Two sets of which the same go before the same are in the same order.    *)
LEMMA SameOrder ==
    ASSUME NEW S, IsFiniteSet(S), NEW R, Orders(S, R), NEW T, IsFiniteSet(T), NEW Q, Orders(T, Q),
           NEW g \in [S -> T], \A x, y \in S : g[x] = g[y] => x = y, \A y \in T : \E x \in S : g[x] = y,
           \A x, y \in S : <<x, y>> \in R <=> <<g[x], g[y]>> \in Q
    PROVE  /\ Cardinality(T) = Cardinality(S)
           /\ \A i \in 1..Cardinality(S) :
                 InOrder(S, R)[i] \in S /\ InOrder(T, Q)[i] = g[InOrder(S, R)[i]]
<1> DEFINE n == Cardinality(S)
<1>1. Cardinality(T) = n
  BY AsMany
<1>2. ASSUME NEW x \in S
      PROVE  RankIn(T, Q, g[x]) = RankIn(S, R, x)
  <2> DEFINE below == {f \in S : <<f, x>> \in R}
             under == {f \in T : <<f, g[x]>> \in Q}
             h == [f \in below |-> g[f]]
  <2>1. IsFiniteSet(below) /\ below \subseteq S
    <3>1. below \subseteq S
      OBVIOUS
    <3> HIDE DEF below
    <3> QED
      BY <3>1, FS_Subset
  <2>2. /\ h \in [below -> under] /\ \A f, e \in below : h[f] = h[e] => f = e
        /\ \A y \in under : \E f \in below : h[f] = y
    <3>1. \A f \in below : g[f] \in under
      OBVIOUS
    <3>2. \A y \in under : \E f \in below : g[f] = y
      OBVIOUS
    <3> HIDE DEF below, under
    <3> QED
      BY <2>1, <3>1, <3>2
  <2> HIDE DEF h
  <2>3. Cardinality(under) = Cardinality(below)
    <3> HIDE DEF below, under
    <3> QED
      BY <2>1, <2>2, AsMany
  <2> QED
    BY <2>3, Zenon DEF RankIn
<1>3. \A i \in 1..n : \E e \in S : RankIn(S, R, e) = i - 1
  BY Ranked
<1>4. \A e, f \in T : RankIn(T, Q, e) = RankIn(T, Q, f) => e = f
  BY Ranked
<1>5. /\ \A i \in 1..n : InOrder(S, R)[i] = CHOOSE e \in S : RankIn(S, R, e) = i - 1
      /\ \A i \in 1..n : InOrder(T, Q)[i] = CHOOSE e \in T : RankIn(T, Q, e) = i - 1
  BY <1>1 DEF InOrder, RankIn
<1> HIDE DEF n
<1>6. ASSUME NEW i \in 1..n
      PROVE  InOrder(S, R)[i] \in S /\ InOrder(T, Q)[i] = g[InOrder(S, R)[i]]
  <2>1. PICK e : e = InOrder(S, R)[i]
    OBVIOUS
  <2>2. e \in S /\ RankIn(S, R, e) = i - 1
    BY <1>3, <1>5, <2>1
  <2>3. g[e] \in T /\ RankIn(T, Q, g[e]) = i - 1
    BY <1>2, <2>2
  <2>4. (CHOOSE f \in T : RankIn(T, Q, f) = i - 1) = g[e]
    BY <1>4, <2>3
  <2> QED
    BY <1>5, <2>1, <2>2, <2>4
<1> QED
  BY <1>1, <1>6 DEF n

(* Where everybody has the place and the status they had, the sheets list  *)
(* them alike.                                                             *)
ListedAlike(input, other, i) ==
    \E p \in DOMAIN input.roster :
        Score(input)[i] = LineIn(input, p) /\ Score(other)[i] = LineIn(other, p)

LEMMA SheetsAlike ==
    ASSUME NEW input, IsRace(input), NEW other, IsRace(other), input.roster = other.roster,
           \A p \in DOMAIN input.roster : /\ LineIn(input, p).place = LineIn(other, p).place
                                          /\ LineIn(input, p).status = LineIn(other, p).status
    PROVE  /\ DOMAIN Score(input) = DOMAIN Score(other)
           /\ \A i \in DOMAIN Score(input) : ListedAlike(input, other, i)
<1> DEFINE S == LinesOf(input)
           R == Pairs(S, Listed)
           T == LinesOf(other)
           Q == Pairs(T, Listed)
           runners == DOMAIN input.roster
           g == [l \in S |-> LineIn(other, l.participant)]
           n == Cardinality(S)
<1>1. /\ Orders(S, R) /\ Score(input) = InOrder(S, R) /\ IsFiniteSet(S)
      /\ \A p, q \in runners : LineIn(input, p) = LineIn(input, q) => p = q
  BY SheetIs
<1>2. /\ Orders(T, Q) /\ Score(other) = InOrder(T, Q) /\ IsFiniteSet(T)
      /\ \A p, q \in runners : LineIn(other, p) = LineIn(other, q) => p = q
  BY SheetIs
<1>3. \A p \in runners : /\ LineIn(input, p).participant = p
                         /\ LineIn(input, p).bib = input.roster[p]
                         /\ LineIn(other, p).bib = input.roster[p]
  BY LineHolds, EntryIs DEF LineIn
<1>4. S = {LineIn(input, p) : p \in runners} /\ T = {LineIn(other, p) : p \in runners}
  BY DEF LinesOf
<1>5. \A p, q \in runners :
         /\ <<LineIn(input, p), LineIn(input, q)>> \in R <=> Listed(LineIn(input, p), LineIn(input, q))
         /\ <<LineIn(other, p), LineIn(other, q)>> \in Q <=> Listed(LineIn(other, p), LineIn(other, q))
  BY <1>4 DEF Pairs
<1>6. \A p, q \in runners : Listed(LineIn(input, p), LineIn(input, q)) <=> Listed(LineIn(other, p), LineIn(other, q))
  <2>1. ASSUME NEW l, NEW m, NEW k, NEW o, l.place = k.place, l.status = k.status, l.bib = k.bib,
               m.place = o.place, m.status = o.status, m.bib = o.bib
        PROVE  Listed(l, m) <=> Listed(k, o)
    BY <2>1 DEF Listed
  <2> QED
    BY <1>3, <2>1
<1> HIDE DEF S, T, R, Q
<1>7. \A p \in runners : g[LineIn(input, p)] = LineIn(other, p)
  BY <1>3, <1>4
<1>8. /\ g \in [S -> T] /\ \A x, y \in S : g[x] = g[y] => x = y
      /\ \A y \in T : \E x \in S : g[x] = y
  <2>1. g \in [S -> T]
    BY <1>3, <1>4
  <2> HIDE DEF g
  <2> QED
    BY <1>1, <1>2, <1>4, <1>7, <2>1
<1> HIDE DEF g
<1>9. \A x, y \in S : <<x, y>> \in R <=> <<g[x], g[y]>> \in Q
  BY <1>4, <1>5, <1>6, <1>7
<1>10. /\ Cardinality(T) = n
       /\ \A i \in 1..n : InOrder(S, R)[i] \in S /\ InOrder(T, Q)[i] = g[InOrder(S, R)[i]]
  BY <1>1, <1>2, <1>8, <1>9, SameOrder
<1>11. DOMAIN Score(input) = 1..n /\ DOMAIN Score(other) = 1..n
  BY <1>1, <1>2, <1>10 DEF InOrder
<1>12. ASSUME NEW i \in 1..n
       PROVE  ListedAlike(input, other, i)
  <2>1. PICK p \in runners : InOrder(S, R)[i] = LineIn(input, p)
    BY <1>4, <1>10
  <2>2. Score(input)[i] = LineIn(input, p) /\ Score(other)[i] = LineIn(other, p)
    BY <1>1, <1>2, <1>7, <1>10, <2>1
  <2> QED
    BY <2>2 DEF ListedAlike
<1> QED
  BY <1>11, <1>12

(* The race without what was over before the gun.                          *)
WarmedUp == "finish read before gun"

SinceTheGun(input, later) ==
    /\ later.events = {e \in input.events : e.at >= input.gun \/ e.checkpoint = Sole(input.course, "start")}
    /\ later.roster = input.roster /\ later.course = input.course /\ later.mode = input.mode
    /\ later.gun = input.gun /\ later.handsFirst = input.handsFirst
    /\ later.declarations = input.declarations

(* Of a line, what does not depend on it.                                  *)
AlikeButWarmUp(e, f) ==
    /\ \A x \in LineFields \ {"flags"} : e[x] = f[x]
    /\ e.flags \ {WarmedUp} = f.flags \ {WarmedUp}

LEMMA CrossingsSince ==
    ASSUME NEW input, Some(input.gun), NEW later, SinceTheGun(input, later), NEW p, NEW c
    PROVE  /\ c = Sole(input.course, "start") => Crossings(later, p, c) = Crossings(input, p, c)
           /\ Crossings(later, p, c).counted = Crossings(input, p, c).counted
           /\ Crossings(later, p, c).countedChip = Crossings(input, p, c).countedChip
<1> DEFINE here(r) == {e \in r.events : e.participant = p /\ e.checkpoint = c}
           racing(r) == {e \in here(r) : DuringTheRace(r.gun, e.at)}
<1>1. /\ later.events = {e \in input.events : e.at >= input.gun \/ e.checkpoint = Sole(input.course, "start")}
      /\ later.gun = input.gun /\ later.handsFirst = input.handsFirst
  BY DEF SinceTheGun
<1>2. racing(later) = racing(input)
  BY <1>1 DEF DuringTheRace
<1>3. c = Sole(input.course, "start") => here(later) = here(input)
  BY <1>1
<1>4. \A r : Crossings(r, p, c) =
         [counted |-> FirstOf(r.handsFirst, racing(r)),
          beforeGun |-> LastOf(r.handsFirst, here(r) \ racing(r)),
          countedChip |-> FirstOf(r.handsFirst, {e \in racing(r) : ~e.manual})]
  BY Zenon DEF Crossings
<1>5. \A r : /\ Crossings(r, p, c).counted = FirstOf(r.handsFirst, racing(r))
              /\ Crossings(r, p, c).countedChip = FirstOf(r.handsFirst, {e \in racing(r) : ~e.manual})
  <2> TAKE r
  <2>1. PICK x, y, z : x = FirstOf(r.handsFirst, racing(r)) /\ y = LastOf(r.handsFirst, here(r) \ racing(r))
                       /\ z = FirstOf(r.handsFirst, {e \in racing(r) : ~e.manual})
    BY Zenon
  <2>2. Crossings(r, p, c) = [counted |-> x, beforeGun |-> y, countedChip |-> z]
    BY <1>4, <2>1, Zenon
  <2>3. Crossings(r, p, c).counted = x /\ Crossings(r, p, c).countedChip = z
    BY <2>2
  <2> QED
    BY <2>1, <2>3, Zenon
<1>6. Crossings(later, p, c).counted = Crossings(input, p, c).counted
  BY <1>1, <1>2, <1>5, ZenonT(60)
<1>7. Crossings(later, p, c).countedChip = Crossings(input, p, c).countedChip
  BY <1>1, <1>2, <1>5, ZenonT(60)
<1>8. ASSUME c = Sole(input.course, "start")
      PROVE  Crossings(later, p, c) = Crossings(input, p, c)
  <2>1. here(later) = here(input)
    BY <1>3, <1>8
  <2> HIDE DEF here, racing
  <2> QED
    BY <1>1, <1>2, <1>4, <2>1, Zenon
<1> HIDE DEF here, racing
<1> QED
  BY <1>6, <1>7, <1>8

LEMMA EntriesSince ==
    ASSUME NEW input, Some(input.gun), NEW later, SinceTheGun(input, later), NEW p
    PROVE  AlikeButWarmUp(EntryOf(input, p), EntryOf(later, p))
<1> DEFINE line == Sole(input.course, "start")
           AtStart(r) == IF Some(line) THEN Crossings(r, p, line) ELSE NoCrossings
           AtFinish(r) == Crossings(r, p, Sole(r.course, "finish"))
           start == StartOf(AtStart(input), input.gun)
<1>1. /\ later.events = {e \in input.events : e.at >= input.gun \/ e.checkpoint = line}
      /\ later.roster = input.roster /\ later.course = input.course /\ later.mode = input.mode
      /\ later.gun = input.gun /\ later.handsFirst = input.handsFirst
      /\ later.declarations = input.declarations
  BY DEF SinceTheGun
<1>2. AtStart(later) = AtStart(input)
  BY CrossingsSince
<1>3. AtFinish(later).counted = AtFinish(input).counted /\ AtFinish(later).countedChip = AtFinish(input).countedChip
  BY <1>1, CrossingsSince
<1>4. Started(later, p) = Started(input, p)
  BY <1>1 DEF Started, DuringTheRace
<1>5. EntryOf(input, p) = Entry(input, p, start, AtStart(input), AtFinish(input))
  BY Zenon DEF EntryOf
<1>6. EntryOf(later, p) = Entry(later, p, start, AtStart(input), AtFinish(later))
  <2>1. EntryOf(later, p) = Entry(later, p, StartOf(AtStart(later), later.gun), AtStart(later), AtFinish(later))
    BY <1>1, Zenon DEF EntryOf
  <2> QED
    BY <1>1, <1>2, <2>1
<1> HIDE DEF AtStart, AtFinish, start
<1>7. \A s, atStart, f, g :
         f.counted = g.counted /\ f.countedChip = g.countedChip =>
            AlikeButWarmUp(Entry(input, p, s, atStart, f), Entry(later, p, s, atStart, g))
  <2> TAKE s, atStart, f, g
  <2> HAVE f.counted = g.counted /\ f.countedChip = g.countedChip
  <2> DEFINE e == Entry(input, p, s, atStart, f)
             l == Entry(later, p, s, atStart, g)
  <2>1. HandFlags(f, f.counted, "finish") = HandFlags(g, g.counted, "finish")
    BY DEF HandFlags
  <2>2. \A x \in LineFields \ {"flags"} : e[x] = l[x]
    <3>1. e.participant = l.participant /\ e.startAt = l.startAt /\ e.rests = l.rests
      BY DEF Entry
    <3>2. e.finishAt = l.finishAt /\ e.time = l.time
      BY <1>1 DEF Entry
    <3>3. e.status = l.status
      BY <1>1, <1>4 DEF Entry
    <3>4. e.declared = l.declared
      BY <1>1, Zenon DEF Entry
    <3> HIDE DEF e, l
    <3> QED
      BY <3>1, <3>2, <3>3, <3>4 DEF LineFields
  <2>3. e.flags \ {WarmedUp} = l.flags \ {WarmedUp}
    <3> DEFINE hands(c) == Flag("start read before gun", s.fromGun)
                           \cup HandFlags(atStart, s.event, "start") \cup HandFlags(c, c.counted, "finish")
               finishAt(c) == IF Some(c.counted) THEN c.counted.at ELSE None
               byChip(r, c) == r.mode = "chip" /\ Some(Minus(finishAt(c), s.at))
               measured(r, c) == IF byChip(r, c) THEN Minus(finishAt(c), s.at) ELSE Minus(finishAt(c), r.gun)
               others(r, c) ==
                  Flag("no start read under chip time",
                       r.mode = "chip" /\ Some(finishAt(c)) /\ ~Some(Minus(finishAt(c), s.at)))
                  \cup Flag("no gun time", Some(finishAt(c)) /\ ~byChip(r, c) /\ ~Some(Minus(finishAt(c), r.gun)))
                  \cup Flag("finish before start", Some(measured(r, c)) /\ measured(r, c) < 0)
                  \cup Flag("declared finished without finish read",
                            LatestDeclaration(r.declarations, p) = "finished" /\ ~Some(finishAt(c)))
               warm(c) == Flag(WarmedUp, ~Some(c.counted) /\ Some(c.beforeGun))
    <3>1. \A r, c : Entry(r, p, s, atStart, c).flags = (hands(c) \cup warm(c)) \cup others(r, c)
      BY DEF Entry, WarmedUp
    <3>2. finishAt(f) = finishAt(g)
      OBVIOUS
    <3>3. hands(f) = hands(g)
      BY <2>1, Zenon
    <3>4. warm(f) \subseteq {WarmedUp} /\ warm(g) \subseteq {WarmedUp}
      BY DEF Flag
    <3> HIDE DEF hands, warm
    <3>5. others(input, f) = others(later, g)
      <4> HIDE DEF finishAt
      <4> QED
        BY <1>1, <3>2
    <3> HIDE DEF others, e, l
    <3> QED
      BY <3>1, <3>3, <3>4, <3>5 DEF e, l
  <2> QED
    BY <2>2, <2>3 DEF AlikeButWarmUp
<1> QED
  BY <1>3, <1>5, <1>6, <1>7

(* The race is one still, and the sheet lists everybody as before.         *)
LEMMA RaceSince ==
    ASSUME NEW input, IsRace(input), NEW later, SinceTheGun(input, later)
    PROVE  IsRace(later)
<1>1. later.events \subseteq input.events /\ later.roster = input.roster /\ later.gun = input.gun
      /\ later.handsFirst = input.handsFirst
  BY DEF SinceTheGun
<1>2. IsFiniteSet(later.events)
  BY <1>1, FS_Subset DEF IsRace, AreEvents
<1>3. AreEvents(later.events)
  BY <1>1, <1>2 DEF IsRace, AreEvents
<1> QED
  BY <1>1, <1>3 DEF IsRace

Unwarmed(sheet) == [i \in DOMAIN sheet |-> [sheet[i] EXCEPT !.flags = @ \ {WarmedUp}]]

LEMMA SheetSince ==
    ASSUME NEW input, IsRace(input), Some(input.gun), NEW later, SinceTheGun(input, later)
    PROVE  Unwarmed(Score(input)) = Unwarmed(Score(later))
<1> DEFINE runners == DOMAIN input.roster
<1>1. IsRace(later) /\ later.roster = input.roster
  BY RaceSince DEF SinceTheGun
<1>2. \A p : AlikeButWarmUp(EntryOf(input, p), EntryOf(later, p))
  BY EntriesSince
<1>3. \A p : /\ EntryOf(input, p).status = EntryOf(later, p).status
             /\ EntryOf(input, p).time = EntryOf(later, p).time
  BY <1>2 DEF AlikeButWarmUp, LineFields
<1>4. Placeable(input) = Placeable(later)
  BY <1>1, <1>3 DEF Placeable
<1>5. \A p : PlaceIn(input, p) = PlaceIn(later, p)
  <2>1. \A p : PlaceIn(later, p) =
           IF p \notin Placeable(later) THEN None
           ELSE 1 + Cardinality({q \in Placeable(later) : EntryOf(later, q).time < EntryOf(later, p).time})
    BY Zenon DEF PlaceIn
  <2>2. \A p : {q \in Placeable(later) : EntryOf(later, q).time < EntryOf(later, p).time}
             = {q \in Placeable(input) : EntryOf(input, q).time < EntryOf(input, p).time}
    BY <1>3, <1>4
  <2> QED
    BY <1>4, <2>1, <2>2, Zenon DEF PlaceIn
<1>6. \A p \in runners : /\ LineIn(input, p).place = LineIn(later, p).place
                         /\ LineIn(input, p).status = LineIn(later, p).status
  BY <1>3, <1>5, LineHolds DEF LineIn
<1>7. /\ DOMAIN Score(input) = DOMAIN Score(later)
      /\ \A i \in DOMAIN Score(input) : ListedAlike(input, later, i)
  BY <1>1, <1>6, SheetsAlike
<1>8. ASSUME NEW e, NEW f, AlikeButWarmUp(e, f), NEW bib, NEW place
      PROVE  [LineWith(e, bib, place) EXCEPT !.flags = @ \ {WarmedUp}]
                = [LineWith(f, bib, place) EXCEPT !.flags = @ \ {WarmedUp}]
  <2> DEFINE Clean(x) == [LineWith(x, bib, place) EXCEPT !.flags = @ \ {WarmedUp}]
             fields == LineFields \cup {"bib", "place"}
  <2>1. \A x : Clean(x) = [y \in fields |->
                   IF y = "flags" THEN x.flags \ {WarmedUp}
                   ELSE IF y = "place" THEN place ELSE IF y = "bib" THEN bib ELSE x[y]]
    BY DEF LineWith, LineFields
  <2>2. \A y \in fields : y \notin {"flags", "place", "bib"} => e[y] = f[y]
    BY <1>8 DEF AlikeButWarmUp
  <2>3. e.flags \ {WarmedUp} = f.flags \ {WarmedUp}
    BY <1>8 DEF AlikeButWarmUp
  <2> HIDE DEF Clean, fields
  <2>4. Clean(e) = Clean(f)
    BY <2>1, <2>2, <2>3
  <2> QED
    BY <2>4 DEF Clean
<1>9. ASSUME NEW p
      PROVE  [LineIn(input, p) EXCEPT !.flags = @ \ {WarmedUp}]
                = [LineIn(later, p) EXCEPT !.flags = @ \ {WarmedUp}]
  BY <1>1, <1>2, <1>5, <1>8 DEF LineIn
<1>10. ASSUME NEW i \in DOMAIN Score(input)
       PROVE  [Score(input)[i] EXCEPT !.flags = @ \ {WarmedUp}]
                 = [Score(later)[i] EXCEPT !.flags = @ \ {WarmedUp}]
  <2>1. PICK p \in runners : Score(input)[i] = LineIn(input, p) /\ Score(later)[i] = LineIn(later, p)
    BY <1>7 DEF ListedAlike
  <2> QED
    BY <1>9, <2>1
<1> QED
  BY <1>7, <1>10 DEF Unwarmed

LEMMA WarmUpsStand == TimingShape => WarmUpsCountForNothing
<1> DEFINE inTheRace == {e \in Range(derivation.events) :
                            e.at >= Gun \/ e.checkpoint = Sole(setup.course, "start")}
<1>0. WarmUpsCountForNothing <=>
         (Scorable /\ Some(Gun) => Unwarmed(results) = Unwarmed(SheetOf(inTheRace, declared)))
  BY DEF WarmUpsCountForNothing, Unwarmed, WarmedUp
<1> SUFFICES ASSUME TimingShape, Some(Gun)
             PROVE  Unwarmed(results) = Unwarmed(SheetOf(inTheRace, declared))
  BY <1>0
<1> DEFINE events == Range(DerivationOf(journal, written, started).events)
           input == ScoredFrom(events, declared, started)
           later == ScoredFrom(inTheRace, declared, started)
<1>1. IsRace(input) /\ ScoreOf(events, declared, started) = Score(input)
  BY RaceIs DEF TimingShape
<1>2. ScoreOf(inTheRace, declared, started) = Score(later)
  BY Zenon DEF ScoreOf, ScoredFrom
<1>3. events = Range(derivation.events)
  BY DEF derivation
<1>4. SinceTheGun(input, later)
  BY <1>3 DEF SinceTheGun, ScoredFrom, Gun
<1>5. Some(input.gun)
  BY DEF ScoredFrom, Gun
<1>6. /\ results = ScoreOf(events, declared, started)
      /\ SheetOf(inTheRace, declared) = ScoreOf(inTheRace, declared, started)
  BY <1>3, Zenon DEF results, SheetOf
<1> HIDE DEF events, input, later, inTheRace
<1>7. Unwarmed(Score(input)) = Unwarmed(Score(later))
  BY <1>1, <1>4, <1>5, SheetSince
<1> QED
  BY <1>1, <1>2, <1>6, <1>7

(* Whatever was over before the gun, however it came to be known: nobody's *)
(* line depends on it, but for a start that it proves and for the flag     *)
(* that mentions it.                                                       *)
THEOREM WarmUpsAreNoRace == TimingSpec => []WarmUpsCountForNothing
<1>1. TimingInit => TimingShape
  BY TimingShapeAtFirst
<1>2. TimingShape /\ [TimingNext]_timingVars => TimingShape'
  BY TimingShapeHolds
<1>3. TimingShape => WarmUpsCountForNothing
  BY WarmUpsStand
<1> QED
  BY <1>1, <1>2, <1>3, PTL DEF TimingSpec

-----------------------------------------------------------------------------
(***************************************************************************)
(* No hand changes a result in silence.                                    *)
(***************************************************************************)

(* An event is a crossing or an entry, with its lap.                       *)
EventWith(source, lap) ==
    [participant |-> source.participant, checkpoint |-> source.checkpoint, at |-> source.at,
     manual |-> source.manual, id |-> source.id, lap |-> lap]

LEMMA LapIsNatural ==
    ASSUME NEW S, NEW sources, IsListOf(sources, S, InSourceOrder(S)), NEW i \in 1..Len(sources)
    PROVE  Lap(sources, i) \in Nat
<1> DEFINE before == {j \in 1..(i - 1) : sources[j].participant = sources[i].participant
                                         /\ sources[j].checkpoint = sources[i].checkpoint
                                         /\ sources[j].raceSide}
<1>1. IsFiniteSet(before)
  <2>1. i - 1 \in Int /\ before \subseteq 1..(i - 1)
    OBVIOUS
  <2> HIDE DEF before
  <2>2. IsFiniteSet(1..(i - 1))
    BY <2>1, FS_Interval
  <2> QED
    BY <2>1, <2>2, FS_Subset
<1>2. Lap(sources, i) = IF ~sources[i].raceSide THEN 0 ELSE 1 + Cardinality(before)
  BY Zenon DEF Lap
<1> HIDE DEF before
<1>3. Cardinality(before) \in Nat
  BY <1>1, FS_CardinalityType
<1> QED
  BY <1>2, <1>3

LEMMA EventsAreSources ==
    ASSUME NEW input, IsEvidence(input), AreReads(Range(input.manual))
    PROVE  LET S == CrossedOf(Derive(input).accepted) \cup WrittenOf(input)
               events == Range(Derive(input).events)
           IN  /\ \A e \in events : \E s \in S, lap \in Nat : e = EventWith(s, lap)
               /\ \A s \in S : \E lap \in Nat : EventWith(s, lap) \in events
<1> DEFINE S == CrossedOf(Derive(input).accepted) \cup WrittenOf(input)
           sources == Sources(input, Derive(input).accepted)
           events == Derive(input).events
           n == Len(sources)
<1>1. IsListOf(sources, S, InSourceOrder(S))
  BY SourcesAre
<1>2. events = Events(sources)
  BY DeriveIs
<1> HIDE DEF S, sources, events
<1>3. /\ n \in Nat /\ DOMAIN sources = 1..n /\ \A i \in 1..n : sources[i] \in S
      /\ \A s \in S : \E i \in 1..n : sources[i] = s
  BY <1>1 DEF IsListOf
<1>4. \A i \in 1..n : Lap(sources, i) \in Nat
  BY <1>1, LapIsNatural
<1>5. events = [i \in 1..n |-> EventWith(sources[i], Lap(sources, i))]
  BY <1>2, <1>3 DEF Events, EventWith
<1>6. Range(events) = {EventWith(sources[i], Lap(sources, i)) : i \in 1..n}
  BY <1>5 DEF Range
<1>7. \A e \in Range(events) : \E s \in S, lap \in Nat : e = EventWith(s, lap)
  BY <1>3, <1>4, <1>6
<1>8. \A s \in S : \E lap \in Nat : EventWith(s, lap) \in Range(events)
  BY <1>3, <1>4, <1>6
<1> QED
  BY <1>7, <1>8 DEF events, S

(* The same evidence but for the hands: the same crossings.                *)
SameButHands(input, other) ==
    /\ input.reads = other.reads /\ input.policy = other.policy /\ input.chips = other.chips
    /\ input.antennas = other.antennas /\ input.gun = other.gun

LEMMA HandsCreditNothing ==
    ASSUME NEW input, NEW other, SameButHands(input, other)
    PROVE  Derive(input).accepted = Derive(other).accepted
<1>1. /\ input.reads = other.reads /\ input.policy = other.policy /\ input.chips = other.chips
      /\ input.antennas = other.antennas /\ input.gun = other.gun
  BY DEF SameButHands
<1>2. Groups(input) = Groups(other)
  BY <1>1, Zenon DEF Groups
<1>3. ASSUME NEW chip, NEW c
      PROVE  Credited(input, chip, c).accepted = Credited(other, chip, c).accepted
  <2> DEFINE bursts == Bursts(Group(input, chip, c), WindowFor(input.policy, c))
             choices == [k \in DOMAIN bursts |-> Select(bursts[k], RuleFor(input.policy, c))]
             credits == Credits(input.policy, input.gun, choices, bursts)
             Crossing(r, k) ==
                [chip |-> chip, checkpoint |-> c, at |-> choices[k].at,
                 participant |-> ParticipantAt(r.chips, chip, choices[k].at),
                 source |-> choices[k].seq, burst |-> {x.seq : x \in Range(bursts[k])},
                 raceSide |-> OnTheRaceSide(bursts[k], r.gun)]
  <2>1. Group(input, chip, c) = Group(other, chip, c)
    BY <1>1, Zenon DEF Group
  <2>2. Credited(input, chip, c) = Outcome(input, chip, c, bursts, choices, credits)
    BY Zenon DEF Credited, CreditedOf
  <2>3. Credited(other, chip, c) = Outcome(other, chip, c, bursts, choices, credits)
    BY <1>1, <2>1, Zenon DEF Credited, CreditedOf
  <2> HIDE DEF bursts, choices, credits
  <2>4. \A r : Outcome(r, chip, c, bursts, choices, credits).accepted = {Crossing(r, k) : k \in credits}
    BY DEF Outcome
  <2>5. \A k : Crossing(input, k) = Crossing(other, k)
    BY <1>1, Zenon
  <2> HIDE DEF Crossing
  <2>6. {Crossing(input, k) : k \in credits} = {Crossing(other, k) : k \in credits}
    BY <2>5
  <2>7. Credited(input, chip, c).accepted = {Crossing(input, k) : k \in credits}
    BY <2>2, <2>4, Zenon
  <2>8. Credited(other, chip, c).accepted = {Crossing(other, k) : k \in credits}
    BY <2>3, <2>4, Zenon
  <2> QED
    BY <2>6, <2>7, <2>8, Zenon
<1>4. \A a : a \in Derive(input).accepted <=> \E g \in Groups(input) : a \in Credited(input, g[1], g[2]).accepted
  BY DeriveIs
<1>5. \A a : a \in Derive(other).accepted <=> \E g \in Groups(other) : a \in Credited(other, g[1], g[2]).accepted
  BY DeriveIs
<1>6. \A a : a \in Derive(input).accepted <=> a \in Derive(other).accepted
  BY <1>2, <1>3, <1>4, <1>5
<1> QED
  BY <1>6

(* An event is one of those that can be, and so is not None.               *)
LEMMA ResolvedIs ==
    ASSUME NEW antennas, NEW read, Some(Resolve(antennas, read))
    PROVE  Resolve(antennas, read) \in {m.checkpoint : m \in antennas}
<1> DEFINE exact == {m \in antennas : m.reader = read.reader /\ m.antenna = read.antenna}
           wild == {m \in antennas : m.reader = read.reader /\ m.antenna = None}
<1>1. \/ exact # {} /\ Resolve(antennas, read) = (CHOOSE m \in exact : TRUE).checkpoint
      \/ exact = {} /\ wild # {} /\ Resolve(antennas, read) = (CHOOSE m \in wild : TRUE).checkpoint
  BY DEF Resolve, Some
<1>2. exact \subseteq antennas /\ wild \subseteq antennas
  OBVIOUS
<1> HIDE DEF exact, wild
<1> QED
  BY <1>1, <1>2

LEMMA WornBy ==
    ASSUME NEW assignments, NEW chip, NEW at, Some(ParticipantAt(assignments, chip, at))
    PROVE  ParticipantAt(assignments, chip, at) \in {w.participant : w \in assignments}
<1> DEFINE worn == {w \in assignments : w.chip = chip /\ Covers(w, at)}
<1>1. worn # {} /\ ParticipantAt(assignments, chip, at) = (CHOOSE w \in worn : TRUE).participant
  BY DEF ParticipantAt, Some
<1>2. worn \subseteq assignments
  OBVIOUS
<1> HIDE DEF worn
<1> QED
  BY <1>1, <1>2

LEMMA EventsGiven ==
    ASSUME TimingShape,
           NEW reads, IsLog(reads, Readings, MaxReads), NEW entries, IsLog(entries, Hands, MaxHands),
           NEW starts \in Seq(Guns)
    PROVE  None \notin Range(DerivationOf(reads, entries, starts).events)
<1> DEFINE input == InputOf(reads, entries, starts)
           accepted == Derive(input).accepted
           crossed == CrossedOf(accepted)
           byHand == WrittenOf(input)
           people == {w.participant : w \in setup.chips} \cup {h.participant : h \in Hands}
           mats == {m.checkpoint : m \in setup.antennas} \cup {h.checkpoint : h \in Hands}
<1>1. IsEvidence(input) /\ AreReads(Range(input.manual)) /\ DerivationOf(reads, entries, starts) = Derive(input)
  BY EvidenceIs
<1>2. input.manual = entries /\ input.chips = setup.chips /\ input.antennas = setup.antennas
  BY DEF InputOf
<1> HIDE DEF input
<1>3. ASSUME NEW c \in accepted, Some(c.participant)
      PROVE  c.participant \in people /\ c.checkpoint \in mats
  <2>1. PICK g, part, m, chosen, kept, k : IsOf(input, c, g, part, m, chosen, kept, k)
    BY <1>1, CrossingIsOf
  <2>2. g \in Groups(input) /\ c = CrossingOf(input, g[1], g[2], part, chosen, k) /\ c.checkpoint = g[2]
    BY <2>1 DEF IsOf
  <2>3. c.participant = ParticipantAt(setup.chips, g[1], chosen[k].at)
    <3>1. CrossingOf(input, g[1], g[2], part, chosen, k).participant
             = ParticipantAt(input.chips, g[1], chosen[k].at)
      BY DEF CrossingOf
    <3> QED
      BY <1>2, <2>2, <3>1
  <2>4. c.participant \in {w.participant : w \in setup.chips}
    BY <1>3, <2>3, WornBy
  <2>5. PICK r \in Range(input.reads) : Some(Resolve(input.antennas, r)) /\ g[2] = Resolve(input.antennas, r)
    BY <2>2 DEF Groups
  <2>6. c.checkpoint \in {m1.checkpoint : m1 \in setup.antennas}
    BY <1>2, <2>2, <2>5, ResolvedIs
  <2> QED
    BY <2>4, <2>6
<1>4. ASSUME NEW e \in Range(entries)
      PROVE  e.participant \in people /\ e.checkpoint \in mats
  <2>1. Range(entries) \subseteq RowsGiven(Hands, MaxHands)
    BY LogIsReads, Given, Bounded
  <2>2. PICK row \in Hands, n \in 1..MaxHands : e = Having(row, "seq", n)
    BY <2>1 DEF RowsGiven
  <2>3. {"at", "participant", "checkpoint"} \subseteq DOMAIN row
    BY Given
  <2>4. e.participant = row.participant /\ e.checkpoint = row.checkpoint
    BY <2>2, <2>3 DEF Having
  <2> QED
    BY <2>4
<1> HIDE DEF people, mats
<1>5. \A s \in crossed : s.participant \in people /\ s.checkpoint \in mats
  BY <1>3 DEF CrossedOf
<1>6. \A s \in byHand : s.participant \in people /\ s.checkpoint \in mats
  BY <1>2, <1>4 DEF WrittenOf
<1>7. \A s \in crossed \cup byHand : s.at \in Int /\ s.id \in Int /\ s.manual \in BOOLEAN
  BY <1>1, SourcesAre DEF AreSources
<1>8. \A e \in Range(Derive(input).events) : \E s \in crossed \cup byHand, lap \in Nat : e = EventWith(s, lap)
  BY <1>1, EventsAreSources
<1> HIDE DEF crossed, byHand
<1>9. \A s \in crossed \cup byHand, lap \in Nat : EventWith(s, lap) \in EventsOf(setup)
  BY <1>5, <1>6, <1>7 DEF EventWith, EventsOf, people, mats
<1>10. None \notin EventsOf(setup)
  BY Given DEF TimingShape
<1> QED
  BY <1>1, <1>8, <1>9, <1>10

(* The events of the chips alone are the events without the hands, but for *)
(* their laps.                                                             *)
SameEvent(e, f) ==
    /\ e.participant = f.participant /\ e.checkpoint = f.checkpoint /\ e.at = f.at
    /\ e.manual = f.manual /\ e.id = f.id

ByChips(all, chips) ==
    /\ AreEvents(all) /\ AreEvents(chips) /\ None \notin all /\ None \notin chips
    /\ \A c \in chips : ~c.manual /\ \E e \in all : SameEvent(e, c)
    /\ \A e \in all : ~e.manual => \E c \in chips : SameEvent(e, c)

LEMMA ChipsAlone ==
    ASSUME TimingShape
    PROVE  ByChips(Range(DerivationOf(journal, written, started).events),
                   Range(DerivationOf(journal, <<>>, started).events))
<1> DEFINE input == InputOf(journal, written, started)
           other == InputOf(journal, <<>>, started)
           all == Range(Derive(input).events)
           chips == Range(Derive(other).events)
           crossed == CrossedOf(Derive(input).accepted)
<1>1. IsLog(<<>>, Hands, MaxHands)
  BY Bounded DEF IsLog
<1>2. /\ IsEvidence(input) /\ AreReads(Range(input.manual))
      /\ DerivationOf(journal, written, started) = Derive(input)
  BY EvidenceIs DEF TimingShape
<1>3. /\ IsEvidence(other) /\ AreReads(Range(other.manual))
      /\ DerivationOf(journal, <<>>, started) = Derive(other)
  BY <1>1, EvidenceIs DEF TimingShape
<1>4. None \notin all /\ None \notin chips
  BY <1>1, <1>2, <1>3, EventsGiven DEF TimingShape
<1>5. SameButHands(input, other) /\ other.manual = <<>>
  BY DEF InputOf, SameButHands
<1> HIDE DEF input, other
<1>6. AreEvents(all) /\ AreEvents(chips)
  BY <1>2, <1>3, EventsAre
<1>7. crossed = CrossedOf(Derive(other).accepted)
  BY <1>5, HandsCreditNothing
<1>8. WrittenOf(other) = {}
  BY <1>5 DEF WrittenOf, Range
<1>9. /\ \A e \in all : \E s \in crossed \cup WrittenOf(input), lap \in Nat : e = EventWith(s, lap)
      /\ \A s \in crossed \cup WrittenOf(input) : \E lap \in Nat : EventWith(s, lap) \in all
  BY <1>2, EventsAreSources
<1>10. /\ \A e \in chips : \E s \in crossed, lap \in Nat : e = EventWith(s, lap)
       /\ \A s \in crossed : \E lap \in Nat : EventWith(s, lap) \in chips
  <2>1. /\ \A e \in chips : \E s \in CrossedOf(Derive(other).accepted) \cup WrittenOf(other), lap \in Nat : e = EventWith(s, lap)
        /\ \A s \in CrossedOf(Derive(other).accepted) \cup WrittenOf(other) : \E lap \in Nat : EventWith(s, lap) \in chips
    BY <1>3, EventsAreSources
  <2> QED
    BY <1>7, <1>8, <2>1
<1>11. (\A s \in crossed : s.manual = FALSE) /\ (\A s \in WrittenOf(input) : s.manual = TRUE)
  BY DEF CrossedOf, WrittenOf
<1> HIDE DEF all, chips, crossed
<1>12. \A s, lap, m : SameEvent(EventWith(s, lap), EventWith(s, m)) /\ EventWith(s, lap).manual = s.manual
  BY DEF SameEvent, EventWith
<1>13. \A c \in chips : ~c.manual /\ \E e \in all : SameEvent(e, c)
  BY <1>9, <1>10, <1>11, <1>12
<1>14. \A e \in all : ~e.manual => \E c \in chips : SameEvent(e, c)
  BY <1>9, <1>10, <1>11, <1>12
<1> QED
  BY <1>2, <1>3, <1>4, <1>6, <1>13, <1>14 DEF ByChips, all, chips

(* At a line: what is counted with the hands, and without.                 *)
AtALine(gun, all, chips) ==
    /\ Some(all.counted) /\ ~all.counted.manual => Some(chips.counted) /\ chips.counted.at = all.counted.at
    /\ Some(chips.counted) => Some(all.counted) /\ Some(all.countedChip)
    /\ Some(all.beforeGun) /\ ~all.beforeGun.manual => Some(chips.beforeGun)
    /\ Some(chips.beforeGun) => Some(all.beforeGun)
    /\ ~Some(gun) => ~Some(all.beforeGun) /\ ~Some(chips.beforeGun)

(* Two races that differ in their hands alone.                             *)
ByChipsAlone(input, other) ==
    /\ IsRace(input) /\ IsRace(other) /\ ByChips(input.events, other.events)
    /\ other.roster = input.roster /\ other.course = input.course /\ other.mode = input.mode
    /\ other.gun = input.gun /\ other.handsFirst = input.handsFirst
    /\ other.declarations = input.declarations

LEMMA FewerEvents ==
    ASSUME NEW S, AreEvents(S), NEW T \in SUBSET S
    PROVE  AreEvents(T)
<1>1. IsFiniteSet(T)
  BY FS_Subset DEF AreEvents
<1> QED
  BY <1>1 DEF AreEvents

LEMMA CrossingsAlone ==
    ASSUME NEW input, NEW other, ByChipsAlone(input, other), NEW p, NEW c
    PROVE  AtALine(input.gun, Crossings(input, p, c), Crossings(other, p, c))
<1> DEFINE Here1(r) == {e \in r.events : e.participant = p /\ e.checkpoint = c}
           Racing(r) == {e \in Here1(r) : DuringTheRace(r.gun, e.at)}
           Before(r) == Here1(r) \ Racing(r)
           Chips(r) == {e \in Racing(r) : ~e.manual}
           h == input.handsFirst
           all == Crossings(input, p, c)
           chips == Crossings(other, p, c)
<1>1. /\ other.gun = input.gun /\ other.handsFirst = h /\ h \in BOOLEAN
      /\ AreEvents(input.events) /\ AreEvents(other.events)
      /\ None \notin input.events /\ None \notin other.events
  BY DEF ByChipsAlone, ByChips, IsRace
<1>2. /\ \A f \in other.events : ~f.manual /\ \E e \in input.events : SameEvent(e, f)
      /\ \A e \in input.events : ~e.manual => \E f \in other.events : SameEvent(e, f)
  BY DEF ByChipsAlone, ByChips
<1>3. \A f \in Racing(other) : \E e \in Racing(input) : SameEvent(e, f) /\ ~e.manual
  BY <1>1, <1>2 DEF SameEvent
<1>4. \A e \in Racing(input) : ~e.manual => \E f \in Racing(other) : SameEvent(e, f)
  BY <1>1, <1>2 DEF SameEvent
<1>5. \A f \in Before(other) : \E e \in Before(input) : SameEvent(e, f)
  BY <1>1, <1>2 DEF SameEvent
<1>6. \A e \in Before(input) : ~e.manual => \E f \in Before(other) : SameEvent(e, f)
  BY <1>1, <1>2 DEF SameEvent
<1>7. ~Some(input.gun) => Before(input) = {} /\ Before(other) = {}
  BY <1>1 DEF DuringTheRace
<1>8. /\ Racing(input) \subseteq input.events /\ Before(input) \subseteq input.events
      /\ Chips(input) \subseteq Racing(input)
      /\ Racing(other) \subseteq other.events /\ Before(other) \subseteq other.events
  OBVIOUS
<1>9. \A e \in Chips(input) : ~e.manual
  OBVIOUS
<1>10. \A e \in Racing(input) : ~e.manual => e \in Chips(input)
  OBVIOUS
<1>11. /\ all.counted = FirstOf(h, Racing(input)) /\ all.beforeGun = LastOf(h, Before(input))
       /\ all.countedChip = FirstOf(h, Chips(input))
  BY DEF Crossings
<1>12. /\ chips.counted = FirstOf(other.handsFirst, Racing(other))
       /\ chips.beforeGun = LastOf(other.handsFirst, Before(other))
  BY DEF Crossings
<1> HIDE DEF Racing, Before, Chips, all, chips, h
<1>13. AreEvents(Racing(input)) /\ AreEvents(Before(input)) /\ AreEvents(Chips(input))
       /\ AreEvents(Racing(other)) /\ AreEvents(Before(other))
  BY <1>1, <1>8, FewerEvents
<1>14. /\ Racing(input) = {} => ~Some(all.counted)
       /\ Racing(input) # {} => Some(all.counted) /\ all.counted \in Racing(input)
                                /\ \A e \in Racing(input) : all.counted.at <= e.at
  BY <1>1, <1>8, <1>11, <1>13, FirstIs DEF Some
<1>15. Chips(input) # {} => Some(all.countedChip)
  BY <1>1, <1>8, <1>11, <1>13, FirstIs DEF Some
<1>16. /\ Before(input) = {} => ~Some(all.beforeGun)
       /\ Before(input) # {} => Some(all.beforeGun) /\ all.beforeGun \in Before(input)
  BY <1>1, <1>8, <1>11, <1>13, FirstIs DEF Some
<1>17. /\ Racing(other) = {} => ~Some(chips.counted)
       /\ Racing(other) # {} => Some(chips.counted) /\ chips.counted \in Racing(other)
                                /\ \A e \in Racing(other) : chips.counted.at <= e.at
  BY <1>1, <1>8, <1>12, <1>13, FirstIs DEF Some
<1>18. /\ Before(other) = {} => ~Some(chips.beforeGun)
       /\ Before(other) # {} => Some(chips.beforeGun) /\ chips.beforeGun \in Before(other)
  BY <1>1, <1>8, <1>12, <1>13, FirstIs DEF Some
<1>19. ASSUME Some(all.counted), ~all.counted.manual
       PROVE  Some(chips.counted) /\ chips.counted.at = all.counted.at
  <2>1. all.counted \in Racing(input) /\ \A e \in Racing(input) : all.counted.at <= e.at
    BY <1>14, <1>19
  <2>2. PICK f \in Racing(other) : SameEvent(all.counted, f)
    BY <1>4, <1>19, <2>1
  <2>3. Some(chips.counted) /\ chips.counted \in Racing(other) /\ chips.counted.at <= f.at
    BY <1>17, <2>2
  <2>4. PICK e \in Racing(input) : SameEvent(e, chips.counted)
    BY <1>3, <2>3
  <2>5. all.counted.at <= e.at /\ e.at = chips.counted.at /\ f.at = all.counted.at
    BY <2>1, <2>2, <2>4 DEF SameEvent
  <2>6. all.counted.at \in Int /\ chips.counted.at \in Int
    BY <1>13, <2>1, <2>3 DEF AreEvents
  <2> QED
    BY <2>3, <2>5, <2>6
<1>20. Some(chips.counted) => Some(all.counted) /\ Some(all.countedChip)
  BY <1>3, <1>10, <1>14, <1>15, <1>17
<1>21. Some(all.beforeGun) /\ ~all.beforeGun.manual => Some(chips.beforeGun)
  BY <1>6, <1>16, <1>18
<1>22. Some(chips.beforeGun) => Some(all.beforeGun)
  BY <1>5, <1>16, <1>18
<1>23. ~Some(input.gun) => ~Some(all.beforeGun) /\ ~Some(chips.beforeGun)
  BY <1>7, <1>16, <1>18
<1>24. AtALine(input.gun, all, chips)
  BY <1>19, <1>20, <1>21, <1>22, <1>23 DEF AtALine
<1> QED
  BY <1>24 DEF all, chips

(* Where no hand was used, or nothing was seen, the start is the chips'.   *)
LEMMA StartsAlone ==
    ASSUME NEW gun, NEW all, NEW chips, AtALine(gun, all, chips),
           ~(Some(StartOf(all, gun).event) /\ StartOf(all, gun).event.manual)
    PROVE  StartOf(all, gun).at = StartOf(chips, gun).at
<1> DEFINE fromGun(x) == ~Some(x.counted) /\ Some(x.beforeGun) /\ Some(gun)
           event(x) == IF fromGun(x) THEN x.beforeGun ELSE x.counted
           at(x) == IF fromGun(x) THEN gun ELSE IF Some(event(x)) THEN event(x).at ELSE None
<1>1. \A x : StartOf(x, gun).event = event(x) /\ StartOf(x, gun).at = at(x)
  BY DEF StartOf
<1>2. ~(Some(event(all)) /\ event(all).manual)
  BY <1>1
<1>3. CASE fromGun(all)
  <2>1. ~all.beforeGun.manual
    BY <1>2, <1>3
  <2>2. fromGun(chips)
    BY <1>3, <2>1 DEF AtALine
  <2> QED
    BY <1>1, <1>3, <2>2
<1>4. CASE ~fromGun(all) /\ Some(all.counted)
  <2>1. ~all.counted.manual
    BY <1>2, <1>4
  <2>2. Some(chips.counted) /\ chips.counted.at = all.counted.at
    BY <1>4, <2>1 DEF AtALine
  <2>3. ~fromGun(chips)
    BY <2>2
  <2> QED
    BY <1>1, <1>4, <2>2, <2>3
<1>5. CASE ~fromGun(all) /\ ~Some(all.counted)
  <2>1. ~fromGun(chips) /\ ~Some(chips.counted)
    BY <1>5 DEF AtALine
  <2> QED
    BY <1>1, <1>5, <2>1
<1> QED
  BY <1>3, <1>4, <1>5

(* The hand shows in the line it changes.                                  *)
LEMMA HandsShow ==
    ASSUME NEW input, NEW other, ByChipsAlone(input, other), NEW p
    PROVE  /\ EntryOf(input, p).time # EntryOf(other, p).time => HandFlagged(EntryOf(input, p))
           /\ Some(EntryOf(other, p).finishAt) /\ EntryOf(input, p).finishAt # EntryOf(other, p).finishAt
                 => "manual finish over chip" \in EntryOf(input, p).flags
<1> DEFINE line == Sole(input.course, "start")
           AtStart(r) == IF Some(line) THEN Crossings(r, p, line) ELSE NoCrossings
           AtFinish(r) == Crossings(r, p, Sole(input.course, "finish"))
           Start(r) == StartOf(AtStart(r), input.gun)
           finishAt(r) == IF Some(AtFinish(r).counted) THEN AtFinish(r).counted.at ELSE None
           used == AtFinish(input).counted
<1>1. other.course = input.course /\ other.mode = input.mode /\ other.gun = input.gun
  BY DEF ByChipsAlone
<1>2. AtALine(input.gun, AtStart(input), AtStart(other))
  <2>1. AtALine(input.gun, NoCrossings, NoCrossings)
    BY DEF AtALine, NoCrossings, Some
  <2> QED
    BY <2>1, CrossingsAlone
<1>3. AtALine(input.gun, AtFinish(input), AtFinish(other))
  BY CrossingsAlone
<1>4. /\ EntryOf(input, p) = Entry(input, p, Start(input), AtStart(input), AtFinish(input))
      /\ EntryOf(other, p) = Entry(other, p, Start(other), AtStart(other), AtFinish(other))
  <2>1. EntryOf(input, p) = Entry(input, p, Start(input), AtStart(input), AtFinish(input))
    BY Zenon DEF EntryOf
  <2>2. EntryOf(other, p) = Entry(other, p, Start(other), AtStart(other), AtFinish(other))
    BY <1>1, Zenon DEF EntryOf
  <2> QED
    BY <2>1, <2>2
<1> HIDE DEF AtStart, AtFinish, Start, line
<1>5. ASSUME NEW r, NEW s, NEW atStart, NEW atFinish
      PROVE  /\ HandFlags(atStart, s.event, "start") \subseteq Entry(r, p, s, atStart, atFinish).flags
             /\ HandFlags(atFinish, atFinish.counted, "finish") \subseteq Entry(r, p, s, atStart, atFinish).flags
             /\ Entry(r, p, s, atStart, atFinish).finishAt
                   = IF Some(atFinish.counted) THEN atFinish.counted.at ELSE None
  <2>1. HandFlags(atStart, s.event, "start") \subseteq Entry(r, p, s, atStart, atFinish).flags
    BY DEF Entry
  <2>2. HandFlags(atFinish, atFinish.counted, "finish") \subseteq Entry(r, p, s, atStart, atFinish).flags
    BY DEF Entry
  <2>3. Entry(r, p, s, atStart, atFinish).finishAt = IF Some(atFinish.counted) THEN atFinish.counted.at ELSE None
    BY DEF Entry
  <2> QED
    BY <2>1, <2>2, <2>3
<1>6. /\ HandFlags(AtStart(input), Start(input).event, "start") \subseteq EntryOf(input, p).flags
      /\ HandFlags(AtFinish(input), used, "finish") \subseteq EntryOf(input, p).flags
      /\ EntryOf(input, p).finishAt = finishAt(input) /\ EntryOf(other, p).finishAt = finishAt(other)
  BY <1>4, <1>5
<1>7. ASSUME Some(Start(input).event), Start(input).event.manual
      PROVE  HandFlagged(EntryOf(input, p))
  <2>1. "manual start" \in HandFlags(AtStart(input), Start(input).event, "start")
    BY <1>7 DEF HandFlags, Flag, ByHand
  <2> QED
    BY <1>6, <2>1 DEF HandFlagged
<1>8. ASSUME Some(used), used.manual
      PROVE  /\ HandFlagged(EntryOf(input, p))
             /\ Some(AtFinish(input).countedChip) => "manual finish over chip" \in EntryOf(input, p).flags
  <2>1. "manual finish" \in HandFlags(AtFinish(input), used, "finish")
    BY <1>8 DEF HandFlags, Flag, ByHand
  <2>2. Some(AtFinish(input).countedChip) =>
           "manual finish over chip" \in HandFlags(AtFinish(input), used, "finish")
    BY <1>8 DEF HandFlags, Flag, OverChip
  <2> QED
    BY <1>6, <2>1, <2>2 DEF HandFlagged
<1>9. ~(Some(used) /\ used.manual) => finishAt(input) = finishAt(other)
  <2>1. Some(used) /\ ~used.manual => finishAt(input) = finishAt(other)
    BY <1>3 DEF AtALine
  <2>2. ~Some(used) => finishAt(input) = finishAt(other)
    BY <1>3 DEF AtALine
  <2> QED
    BY <2>1, <2>2
<1>10. ~(Some(Start(input).event) /\ Start(input).event.manual) => Start(input).at = Start(other).at
  BY <1>2, StartsAlone DEF Start
<1>11. ASSUME finishAt(input) = finishAt(other), Start(input).at = Start(other).at
       PROVE  EntryOf(input, p).time = EntryOf(other, p).time
  <2>1. \A s, t, atStart, atStart2, f, g :
           /\ s.at = t.at
           /\ (IF Some(f.counted) THEN f.counted.at ELSE None) = (IF Some(g.counted) THEN g.counted.at ELSE None)
           => Entry(input, p, s, atStart, f).time = Entry(other, p, t, atStart2, g).time
    BY <1>1 DEF Entry
  <2> QED
    BY <1>4, <1>11, <2>1
<1> HIDE DEF used
<1>12. EntryOf(input, p).time # EntryOf(other, p).time => HandFlagged(EntryOf(input, p))
  BY <1>7, <1>8, <1>9, <1>10, <1>11
<1>13. ASSUME Some(finishAt(other)), finishAt(input) # finishAt(other)
       PROVE  "manual finish over chip" \in EntryOf(input, p).flags
  <2>1. Some(AtFinish(other).counted)
    BY <1>13 DEF Some
  <2>2. Some(AtFinish(input).countedChip)
    BY <1>3, <2>1 DEF AtALine
  <2> QED
    BY <1>8, <1>9, <1>13, <2>2
<1> HIDE DEF finishAt
<1> QED
  BY <1>6, <1>12, <1>13

LEMMA HandsStand == TimingShape => NoSilentHand
<1> SUFFICES ASSUME TimingShape,
                    NEW e \in Range(results)
             PROVE  LET byChips == SheetOf(Range(DerivationOf(journal, <<>>, started).events), declared)
                        chips == LineOf(byChips, e.participant)
                    IN  /\ e.time # chips.time => HandFlagged(e)
                        /\ Some(chips.finishAt) /\ e.finishAt # chips.finishAt
                              => "manual finish over chip" \in e.flags
  BY DEF NoSilentHand
<1> DEFINE events == Range(DerivationOf(journal, written, started).events)
           crossings == Range(DerivationOf(journal, <<>>, started).events)
           input == ScoredFrom(events, declared, started)
           other == ScoredFrom(crossings, declared, started)
<1>1. IsLog(<<>>, Hands, MaxHands)
  BY Bounded DEF IsLog
<1>2. IsRace(input) /\ ScoreOf(events, declared, started) = Score(input) /\ input.roster = setup.roster
  BY RaceIs DEF TimingShape
<1>3. IsRace(other) /\ ScoreOf(crossings, declared, started) = Score(other) /\ other.roster = setup.roster
  BY <1>1, RaceIs DEF TimingShape
<1>4. ByChipsAlone(input, other)
  <2>1. ByChips(events, crossings)
    BY ChipsAlone
  <2> HIDE DEF events, crossings
  <2>2. /\ input.events = events /\ other.events = crossings
        /\ other.roster = input.roster /\ other.course = input.course /\ other.mode = input.mode
        /\ other.gun = input.gun /\ other.handsFirst = input.handsFirst
        /\ other.declarations = input.declarations
    BY DEF ScoredFrom
  <2> QED
    BY <1>2, <1>3, <2>1, <2>2 DEF ByChipsAlone
<1>5. results = ScoreOf(events, declared, started) /\ SheetOf(crossings, declared) = ScoreOf(crossings, declared, started)
  BY DEF results, SheetOf, derivation
<1> HIDE DEF events, crossings, input, other
<1>6. Range(Score(input)) = LinesOf(input)
  BY <1>2, LineOfIs
<1>7. PICK p \in DOMAIN input.roster : e = LineIn(input, p)
  BY <1>2, <1>5, <1>6 DEF LinesOf
<1>8. LineOf(Score(other), p) = LineIn(other, p)
  BY <1>2, <1>3, <1>7, LineOfIs
<1>9. /\ e.participant = p /\ e.time = EntryOf(input, p).time /\ e.finishAt = EntryOf(input, p).finishAt
      /\ e.flags = EntryOf(input, p).flags
  BY <1>7, LineHolds, EntryIs DEF LineIn
<1>10. LineIn(other, p).time = EntryOf(other, p).time /\ LineIn(other, p).finishAt = EntryOf(other, p).finishAt
  BY LineHolds DEF LineIn
<1>11. HandFlagged(EntryOf(input, p)) <=> HandFlagged(e)
  BY <1>9 DEF HandFlagged
<1>12. /\ EntryOf(input, p).time # EntryOf(other, p).time => HandFlagged(EntryOf(input, p))
       /\ Some(EntryOf(other, p).finishAt) /\ EntryOf(input, p).finishAt # EntryOf(other, p).finishAt
             => "manual finish over chip" \in EntryOf(input, p).flags
  BY <1>4, HandsShow
<1>13. LineOf(SheetOf(crossings, declared), e.participant) = LineIn(other, p)
  BY <1>3, <1>5, <1>8, <1>9
<1>14. /\ e.time # LineIn(other, p).time => HandFlagged(e)
       /\ Some(LineIn(other, p).finishAt) /\ e.finishAt # LineIn(other, p).finishAt
             => "manual finish over chip" \in e.flags
  BY <1>9, <1>10, <1>11, <1>12
<1> QED
  BY <1>13, <1>14 DEF crossings

(* Whatever is written by hand, before or after the reads it stands beside:*)
(* where it makes a runner's time another than the chips say, or none, the *)
(* line says that a hand was used, and where the chips have a finish of    *)
(* their own, that it was passed over.                                     *)
THEOREM HandsAreSeen == TimingSpec => []NoSilentHand
<1>1. TimingInit => TimingShape
  BY TimingShapeAtFirst
<1>2. TimingShape /\ [TimingNext]_timingVars => TimingShape'
  BY TimingShapeHolds
<1>3. TimingShape => NoSilentHand
  BY HandsStand
<1> QED
  BY <1>1, <1>2, <1>3, PTL DEF TimingSpec

-----------------------------------------------------------------------------
(* From step to step.                                                      *)

(* What is true of the first step, and after a step if before it, is true  *)
(* of all of them.                                                         *)
LEMMA EveryStep ==
    ASSUME NEW n \in Nat, NEW G, 0 \in G, \A i \in 1..n : i - 1 \in G => i \in G
    PROVE  \A i \in 0..n : i \in G
<1> DEFINE Bad == {i \in 0..n : i \notin G}
<1>1. Bad = {}
  <2>1. SUFFICES ASSUME Bad # {} PROVE FALSE
    OBVIOUS
  <2>2. PICK i \in Bad : \A j \in Bad : i <= j
    <3>1. Bad \in SUBSET Nat
      OBVIOUS
    <3> HIDE DEF Bad
    <3> QED
      BY <2>1, <3>1, LeastOf
  <2>3. i \in 1..n /\ i - 1 \in 0..n /\ ~(i <= i - 1)
    OBVIOUS
  <2>4. i - 1 \in G
    BY <2>2, <2>3
  <2> QED
    BY <2>3, <2>4
<1> QED
  BY <1>1

(* A function that goes on from step to step is one.                       *)
GoesBy(step, first, n, f) == f = [i \in 0..n |-> IF i = 0 THEN first ELSE step[<<i, f[i - 1]>>]]

LEMMA SomethingGoesBy ==
    ASSUME NEW n \in Nat, NEW V, NEW first \in V, NEW step \in [(1..n) \X V -> V]
    PROVE  \E f \in [0..n -> V] : GoesBy(step, first, n, f)
<1> DEFINE Good(m) == \E f \in [0..m -> V] : GoesBy(step, first, m, f)
           G == {m \in 0..n : Good(m)}
<1>1. Good(0)
  <2> DEFINE f == [i \in 0..0 |-> first]
  <2>1. 0..0 = {0} /\ f[0] = first /\ f \in [0..0 -> V]
    OBVIOUS
  <2>2. f = [i \in 0..0 |-> IF i = 0 THEN first ELSE step[<<i, f[i - 1]>>]]
    BY <2>1
  <2> QED
    BY <2>1, <2>2 DEF GoesBy
<1>2. ASSUME NEW m \in 1..n, Good(m - 1)
      PROVE  Good(m)
  <2>1. PICK f \in [0..(m - 1) -> V] : GoesBy(step, first, m - 1, f)
    BY <1>2
  <2> DEFINE g == [i \in 0..m |-> IF i = m THEN step[<<m, f[m - 1]>>] ELSE f[i]]
  <2>2. \A i \in 0..(m - 1) : g[i] = f[i] /\ f[i] = IF i = 0 THEN first ELSE step[<<i, f[i - 1]>>]
    BY <2>1 DEF GoesBy
  <2>3. g[m] = step[<<m, f[m - 1]>>]
    OBVIOUS
  <2>4. g = [i \in 0..m |-> g[i]] /\ m - 1 \in 0..(m - 1) /\ m # 0
    OBVIOUS
  <2>5. \A i \in 0..m : g[i] \in V
    <3>1. f[m - 1] \in V /\ <<m, f[m - 1]>> \in (1..n) \X V
      BY <2>4
    <3>2. g[m] \in V
      BY <2>3, <3>1
    <3>3. \A i \in 0..m : i = m \/ i \in 0..(m - 1)
      OBVIOUS
    <3> HIDE DEF g
    <3> QED
      BY <2>2, <3>2, <3>3
  <2> HIDE DEF g
  <2>6. ASSUME NEW i \in 0..m
        PROVE  g[i] = IF i = 0 THEN first ELSE step[<<i, g[i - 1]>>]
    <3>1. CASE i = m
      BY <2>2, <2>3, <2>4, <3>1
    <3>2. CASE i # m /\ i # 0
      <4>1. i \in 0..(m - 1) /\ i - 1 \in 0..(m - 1)
        BY <3>2
      <4> QED
        BY <2>2, <3>2, <4>1
    <3>3. CASE i = 0
      <4>1. 0 \in 0..(m - 1)
        BY <2>4
      <4> QED
        BY <2>2, <3>3, <4>1
    <3> QED
      BY <3>1, <3>2, <3>3
  <2>7. g \in [0..m -> V]
    BY <2>4, <2>5
  <2>8. g = [i \in 0..m |-> IF i = 0 THEN first ELSE step[<<i, g[i - 1]>>]]
    BY <2>4, <2>6
  <2> QED
    BY <2>7, <2>8 DEF GoesBy
<1>3. \A m \in 1..n : m - 1 \in G => m \in G
  <2> HIDE DEF Good
  <2> QED
    BY <1>2
<1>4. 0 \in G
  BY <1>1
<1>5. n \in G
  <2> HIDE DEF G
  <2> QED
    BY <1>3, <1>4, EveryStep
<1> QED
  BY <1>5

-----------------------------------------------------------------------------
(* A page after batches.                                                   *)

SameCrossing(c, d) == c.bib = d.bib /\ c.point = d.point /\ c.lap = d.lap

(* What is published: for each of some runners a list of crossings, theirs,*)
(* and one of a mat and a lap.                                             *)
ArePublished(now) ==
    /\ IsFiniteSet(DOMAIN now) /\ DOMAIN now \subseteq Int
    /\ \A bib \in DOMAIN now : now[bib] \in Seq(Range(now[bib])) /\ \A c \in Range(now[bib]) : c.bib = bib
    /\ \A c, d \in OnThePage(now) : SameCrossing(c, d) => c = d

BatchesOf(now) == [crossings : Seq(OnThePage(now)), replaces : Seq(Int)]

(* All the crossings of the runners it restates.                           *)
IsWhole(now, batch) == Range(batch.crossings) = {c \in OnThePage(now) : c.bib \in Range(batch.replaces)}

(* A page with some runners restated.                                      *)
Restated(page, now, bibs) == {c \in page : c.bib \notin bibs} \cup {c \in OnThePage(now) : c.bib \in bibs}

LEMMA Brought ==
    ASSUME NEW now, ArePublished(now), NEW batch \in BatchesOf(now), IsWhole(now, batch)
    PROVE  {batch.crossings[i] : i \in {j \in DOMAIN batch.crossings :
                \A k \in (j + 1)..Len(batch.crossings) :
                    ~SameCrossing(batch.crossings[j], batch.crossings[k])}} = Range(batch.crossings)
<1> DEFINE s == batch.crossings
           last == {j \in DOMAIN s : \A k \in (j + 1)..Len(s) : ~SameCrossing(s[j], s[k])}
<1>1. s \in Seq(OnThePage(now))
  BY DEF BatchesOf
<1>2. Len(s) \in Nat /\ DOMAIN s = 1..Len(s) /\ \A i \in 1..Len(s) : s[i] \in OnThePage(now)
  BY <1>1
<1> HIDE DEF s
<1>3. ASSUME NEW i \in 1..Len(s)
      PROVE  \E j \in last : s[j] = s[i]
  <2> DEFINE same == {j \in 1..Len(s) : SameCrossing(s[i], s[j])}
  <2>1. i \in same
    BY DEF SameCrossing
  <2>2. PICK j \in same : \A k \in same : k <= j
    <3> HIDE DEF same
    <3>1. same \in SUBSET (1..Len(s)) /\ same # {}
      BY <2>1 DEF same
    <3> QED
      BY <1>2, <3>1, GreatestIs
  <2>3. j \in 1..Len(s) /\ SameCrossing(s[i], s[j])
    OBVIOUS
  <2>4. s[j] = s[i]
    BY <1>2, <2>3 DEF ArePublished
  <2>5. ASSUME NEW k \in (j + 1)..Len(s)
        PROVE  ~SameCrossing(s[j], s[k])
    <3>1. k \in 1..Len(s) /\ ~(k <= j)
      BY <1>2, <2>3
    <3>2. k \notin same
      BY <2>2, <3>1
    <3> QED
      BY <2>4, <3>1, <3>2
  <2>6. j \in last
    BY <1>2, <2>3, <2>5
  <2> QED
    BY <2>4, <2>6
<1>4. last \subseteq 1..Len(s)
  BY <1>2
<1> HIDE DEF last
<1>5. {s[j] : j \in last} = Range(s)
  BY <1>2, <1>3, <1>4 DEF Range
<1> QED
  BY <1>5 DEF last, s

LEMMA TakenIs ==
    ASSUME NEW now, ArePublished(now), NEW batch \in BatchesOf(now), IsWhole(now, batch), NEW page, NEW bibs
    PROVE  Take(Restated(page, now, bibs), batch) = Restated(page, now, bibs \cup Range(batch.replaces))
<1> DEFINE here == Restated(page, now, bibs)
           brought == Range(batch.crossings)
           theirs == Range(batch.replaces)
<1>1. Take(here, batch) =
        {c \in here : c.bib \notin theirs /\ \A d \in brought : ~SameCrossing(c, d)} \cup brought
  <2>1. {batch.crossings[i] : i \in {j \in DOMAIN batch.crossings :
            \A k \in (j + 1)..Len(batch.crossings) :
                ~SameCrossing(batch.crossings[j], batch.crossings[k])}} = brought
    BY Brought
  <2> HIDE DEF here, brought, theirs
  <2> QED
    BY <2>1, Zenon DEF Take, SameCrossing, theirs
<1>2. \A c : c \in brought <=> c \in OnThePage(now) /\ c.bib \in theirs
  BY DEF IsWhole
<1> HIDE DEF brought, theirs
<1>3. \A c \in here, d \in brought : c.bib \notin theirs => ~SameCrossing(c, d)
  BY <1>2 DEF SameCrossing
<1>4. \A c : c \in here <=> \/ c \in page /\ c.bib \notin bibs
                            \/ c \in OnThePage(now) /\ c.bib \in bibs
  BY DEF Restated
<1>5. \A c : c \in Restated(page, now, bibs \cup theirs) <=>
          \/ c \in page /\ c.bib \notin bibs /\ c.bib \notin theirs
          \/ c \in OnThePage(now) /\ (c.bib \in bibs \/ c.bib \in theirs)
  BY DEF Restated
<1> HIDE DEF here
<1>6. \A c : c \in Take(here, batch) <=> c \in Restated(page, now, bibs \cup theirs)
  BY <1>1, <1>2, <1>3, <1>4, <1>5
<1> QED
  BY <1>6 DEF here, theirs

LEMMA CrossingsOfOne ==
    ASSUME NEW now, ArePublished(now), NEW bib
    PROVE  /\ CrossingsBy(now, bib) \in Seq(OnThePage(now))
           /\ Range(CrossingsBy(now, bib)) = {c \in OnThePage(now) : c.bib = bib}
<1>1. \A c : c \in OnThePage(now) <=> \E b \in DOMAIN now : c \in Range(now[b])
  BY DEF OnThePage
<1>2. CASE bib \in DOMAIN now
  <2>1. CrossingsBy(now, bib) = now[bib]
    BY <1>2 DEF CrossingsBy
  <2>2. Range(now[bib]) \subseteq OnThePage(now) /\ now[bib] \in Seq(Range(now[bib]))
    BY <1>1, <1>2 DEF ArePublished
  <2>3. now[bib] \in Seq(OnThePage(now))
    BY <2>2, SeqMonotonic
  <2>4. Range(now[bib]) = {c \in OnThePage(now) : c.bib = bib}
    BY <1>1, <1>2 DEF ArePublished
  <2> QED
    BY <2>1, <2>3, <2>4
<1>3. CASE bib \notin DOMAIN now
  <2>1. CrossingsBy(now, bib) = <<>> /\ Range(<<>>) = {}
    BY <1>3 DEF CrossingsBy, Range
  <2>2. {c \in OnThePage(now) : c.bib = bib} = {}
    BY <1>1, <1>3 DEF ArePublished
  <2> QED
    BY <2>1, <2>2
<1> QED
  BY <1>2, <1>3

LEMMA RunnerAdded ==
    ASSUME NEW now, ArePublished(now), NEW batch \in BatchesOf(now), IsWhole(now, batch), NEW bib \in Int
    PROVE  LET more == WithRunner(now, batch, bib) IN
           /\ more \in BatchesOf(now) /\ IsWhole(now, more)
           /\ Range(more.replaces) = Range(batch.replaces) \cup {bib}
<1> DEFINE more == WithRunner(now, batch, bib)
           page == OnThePage(now)
           theirs == CrossingsBy(now, bib)
<1>1. theirs \in Seq(page) /\ Range(theirs) = {c \in page : c.bib = bib}
  BY CrossingsOfOne
<1>2. batch.crossings \in Seq(page) /\ batch.replaces \in Seq(Int)
  BY DEF BatchesOf
<1>3. Range(batch.crossings) = {c \in page : c.bib \in Range(batch.replaces)}
  BY DEF IsWhole
<1>4. more = [crossings |-> batch.crossings \o theirs, replaces |-> Append(batch.replaces, bib)]
  BY DEF WithRunner
<1> HIDE DEF more, page, theirs
<1>5. batch.crossings \o theirs \in Seq(page) /\ Append(batch.replaces, bib) \in Seq(Int)
  BY <1>1, <1>2, ConcatProperties, AppendProperties
<1>6. Range(batch.crossings \o theirs) = Range(batch.crossings) \cup Range(theirs)
  BY <1>1, <1>2, RangeConcatenation
<1>7. Range(Append(batch.replaces, bib)) = Range(batch.replaces) \cup {bib}
  <2> DEFINE s == batch.replaces
             t == Append(s, bib)
             n == Len(s)
  <2>1. n \in Nat /\ DOMAIN s = 1..n /\ DOMAIN t = 1..(n + 1) /\ t[n + 1] = bib /\ \A i \in 1..n : t[i] = s[i]
    BY <1>2
  <2> HIDE DEF s, t, n
  <2>2. \A i : i \in 1..(n + 1) <=> i = n + 1 \/ i \in 1..n
    BY <2>1
  <2>3. Range(t) = Range(s) \cup {bib}
    BY <2>1, <2>2 DEF Range
  <2> QED
    BY <2>3 DEF s, t
<1>8. more.crossings = batch.crossings \o theirs /\ more.replaces = Append(batch.replaces, bib)
  BY <1>4
<1>9. Range(more.crossings) = {c \in page : c.bib \in Range(more.replaces)}
  BY <1>1, <1>3, <1>6, <1>7, <1>8
<1>10. more \in BatchesOf(now)
  BY <1>4, <1>5 DEF BatchesOf, page
<1> QED
  BY <1>7, <1>8, <1>9, <1>10 DEF IsWhole, more, page

(* What is packed restates some runners, each batch with all of theirs.    *)
RestatedBy(batches) == UNION {Range(b.replaces) : b \in Range(batches)}

Packs(now, packed, bibs) ==
    /\ packed \in [done : Seq(BatchesOf(now)), batch : BatchesOf(now)]
    /\ IsWhole(now, packed.batch) /\ \A b \in Range(packed.done) : IsWhole(now, b)
    /\ RestatedBy(packed.done) \cup Range(packed.batch.replaces) = bibs

LEMMA NoBatchIs ==
    ASSUME NEW now, ArePublished(now)
    PROVE  /\ NoBatch \in BatchesOf(now) /\ IsWhole(now, NoBatch) /\ Range(NoBatch.replaces) = {}
           /\ Packs(now, [done |-> <<>>, batch |-> NoBatch], {})
<1>1. Range(<<>>) = {} /\ NoBatch.crossings = <<>> /\ NoBatch.replaces = <<>>
  BY DEF Range, NoBatch
<1>2. NoBatch \in BatchesOf(now)
  BY DEF NoBatch, BatchesOf
<1>3. IsWhole(now, NoBatch)
  BY <1>1 DEF IsWhole
<1> HIDE DEF NoBatch
<1> QED
  BY <1>1, <1>2, <1>3 DEF Packs, RestatedBy

LEMMA OneMoreRestates ==
    ASSUME NEW B, NEW batches \in Seq(B), NEW b \in B
    PROVE  /\ Append(batches, b) \in Seq(B)
           /\ Range(Append(batches, b)) = Range(batches) \cup {b}
           /\ RestatedBy(Append(batches, b)) = RestatedBy(batches) \cup Range(b.replaces)
<1> DEFINE more == Append(batches, b)
           n == Len(batches)
<1>1. /\ more \in Seq(B) /\ n \in Nat /\ DOMAIN batches = 1..n /\ DOMAIN more = 1..(n + 1)
      /\ more[n + 1] = b /\ \A i \in 1..n : more[i] = batches[i]
  OBVIOUS
<1> HIDE DEF more, n
<1>2. \A i : i \in 1..(n + 1) <=> i = n + 1 \/ i \in 1..n
  BY <1>1
<1>3. Range(more) = Range(batches) \cup {b}
  BY <1>1, <1>2 DEF Range
<1>4. RestatedBy(more) = RestatedBy(batches) \cup Range(b.replaces)
  BY <1>3 DEF RestatedBy
<1> QED
  BY <1>1, <1>3, <1>4 DEF more

LEMMA PackedStill ==
    ASSUME NEW now, ArePublished(now), NEW packed, NEW bibs, Packs(now, packed, bibs),
           NEW bib \in Int, NEW max
    PROVE  Packs(now, Pack(now, packed, bib, max), bibs \cup {bib})
<1> DEFINE next == Pack(now, packed, bib, max)
           B == BatchesOf(now)
<1>0. ASSUME NEW b \in B, IsWhole(now, b)
      PROVE  Range(WithRunner(now, b, bib).replaces) = Range(b.replaces) \cup {bib}
  BY <1>0, RunnerAdded
<1>1. /\ packed.done \in Seq(B) /\ packed.batch \in B /\ IsWhole(now, packed.batch)
      /\ \A b \in Range(packed.done) : IsWhole(now, b)
      /\ RestatedBy(packed.done) \cup Range(packed.batch.replaces) = bibs
  BY DEF Packs
<1>2. CASE packed.batch.replaces # <<>> /\ IsFull(now, packed.batch, bib, max)
  <2>1. next.done = Append(packed.done, packed.batch) /\ next.batch = WithRunner(now, NoBatch, bib)
    BY <1>2 DEF Pack
  <2>2. next \in [done : {next.done}, batch : {next.batch}]
    BY <1>2 DEF Pack
  <2> HIDE DEF next, B
  <2>3. /\ next.done \in Seq(B) /\ Range(next.done) = Range(packed.done) \cup {packed.batch}
        /\ RestatedBy(next.done) = RestatedBy(packed.done) \cup Range(packed.batch.replaces)
    BY <1>1, <2>1, OneMoreRestates
  <2>4. NoBatch \in B /\ IsWhole(now, NoBatch) /\ Range(NoBatch.replaces) = {}
    BY NoBatchIs DEF B
  <2>5. next.batch \in B /\ IsWhole(now, next.batch) /\ Range(next.batch.replaces) = {bib}
    <3>1. WithRunner(now, NoBatch, bib) \in B
      BY <2>4, RunnerAdded DEF B
    <3>2. IsWhole(now, WithRunner(now, NoBatch, bib))
      BY <2>4, RunnerAdded DEF B
    <3>3. Range(WithRunner(now, NoBatch, bib).replaces) = Range(NoBatch.replaces) \cup {bib}
      BY <1>0, <2>4
    <3> QED
      BY <2>1, <2>4, <3>1, <3>2, <3>3
  <2>6. next \in [done : Seq(B), batch : B]
    BY <2>2, <2>3, <2>5
  <2> QED
    BY <1>1, <2>3, <2>5, <2>6 DEF Packs, B, next
<1>3. CASE ~(packed.batch.replaces # <<>> /\ IsFull(now, packed.batch, bib, max))
  <2>1. next.done = packed.done /\ next.batch = WithRunner(now, packed.batch, bib)
    BY <1>3 DEF Pack
  <2>2. next \in [done : {next.done}, batch : {next.batch}]
    BY <1>3 DEF Pack
  <2> HIDE DEF next
  <2>3. /\ next.batch \in B /\ IsWhole(now, next.batch)
        /\ Range(next.batch.replaces) = Range(packed.batch.replaces) \cup {bib}
    <3>1. WithRunner(now, packed.batch, bib) \in B
      BY <1>1, RunnerAdded
    <3>2. IsWhole(now, WithRunner(now, packed.batch, bib))
      BY <1>1, RunnerAdded
    <3>3. Range(WithRunner(now, packed.batch, bib).replaces) = Range(packed.batch.replaces) \cup {bib}
      BY <1>0, <1>1
    <3> QED
      BY <2>1, <3>1, <3>2, <3>3
  <2> HIDE DEF B
  <2>4. next \in [done : Seq(B), batch : B]
    BY <1>1, <2>1, <2>2, <2>3
  <2> QED
    BY <1>1, <2>1, <2>3, <2>4 DEF Packs, B, next
<1> QED
  BY <1>2, <1>3

(* The batches of some runners restate just them, each with all of theirs. *)
LEMMA BatchesAre ==
    ASSUME NEW now, ArePublished(now), NEW runners \in Seq(Int), NEW max
    PROVE  /\ Batches(now, runners, max) \in Seq(BatchesOf(now))
           /\ \A b \in Range(Batches(now, runners, max)) : IsWhole(now, b)
           /\ RestatedBy(Batches(now, runners, max)) = Range(runners)
<1> DEFINE n == Len(runners)
           first == [done |-> <<>>, batch |-> NoBatch]
           IsPacked(f) == f = [i \in 0..n |-> IF i = 0 THEN first ELSE Pack(now, f[i - 1], runners[i], max)]
           packed == CHOOSE f : IsPacked(f)
           all == packed[n]
           bibs(i) == {runners[j] : j \in 1..i}
           V == {v \in [done : Seq(BatchesOf(now)), batch : BatchesOf(now)] :
                    \E bs \in SUBSET Int : Packs(now, v, bs)}
           step == [x \in (1..n) \X V |-> Pack(now, x[2], runners[x[1]], max)]
<1>1. n \in Nat /\ \A i \in 1..n : runners[i] \in Int
  OBVIOUS
<1>2. Batches(now, runners, max) = all.done \o (IF all.batch.replaces = <<>> THEN <<>> ELSE <<all.batch>>)
  BY Zenon DEF Batches
<1>3. \E f : IsPacked(f)
  <2> HIDE DEF n
  <2>1. first \in V /\ Packs(now, first, {})
    <3>1. Packs(now, first, {})
      BY NoBatchIs
    <3>2. first \in [done : Seq(BatchesOf(now)), batch : BatchesOf(now)]
      BY <3>1 DEF Packs
    <3> QED
      BY <3>1, <3>2
  <2>2. ASSUME NEW i \in 1..n, NEW v \in V
        PROVE  Pack(now, v, runners[i], max) \in V
    <3>1. PICK bs \in SUBSET Int : Packs(now, v, bs)
      OBVIOUS
    <3>2. Packs(now, Pack(now, v, runners[i], max), bs \cup {runners[i]})
      BY <1>1, <3>1, PackedStill
    <3>3. bs \cup {runners[i]} \in SUBSET Int
      BY <1>1
    <3>4. Pack(now, v, runners[i], max) \in [done : Seq(BatchesOf(now)), batch : BatchesOf(now)]
      BY <3>2 DEF Packs
    <3> QED
      BY <3>2, <3>3, <3>4
  <2> HIDE DEF V, first
  <2>3. step \in [(1..n) \X V -> V]
    BY <2>2
  <2>4. PICK f \in [0..n -> V] : GoesBy(step, first, n, f)
    <3> HIDE DEF step
    <3> QED
      BY <1>1, <2>1, <2>3, SomethingGoesBy
  <2>5. \A i \in 1..n : step[<<i, f[i - 1]>>] = Pack(now, f[i - 1], runners[i], max)
    <3>1. \A i \in 1..n : i - 1 \in 0..n
      BY <1>1
    <3> QED
      BY <3>1
  <2> HIDE DEF step
  <2>6. f = [i \in 0..n |-> IF i = 0 THEN first ELSE step[<<i, f[i - 1]>>]]
    BY <2>4 DEF GoesBy
  <2>7. \A i \in 0..n : i # 0 => i \in 1..n
    BY <1>1
  <2>8. f = [i \in 0..n |-> IF i = 0 THEN first ELSE Pack(now, f[i - 1], runners[i], max)]
    BY <2>5, <2>6, <2>7
  <2> QED
    BY <2>8
<1>4. packed = [i \in 0..n |-> IF i = 0 THEN first ELSE Pack(now, packed[i - 1], runners[i], max)]
  BY <1>3, Zenon
<1> HIDE DEF packed, n
<1>5. packed[0] = first /\ \A i \in 1..n : packed[i] = Pack(now, packed[i - 1], runners[i], max)
  BY <1>1, <1>4
<1> DEFINE G == {i \in 0..n : Packs(now, packed[i], bibs(i))}
<1>6. 0 \in G
  <2>1. bibs(0) = {}
    OBVIOUS
  <2>2. Packs(now, packed[0], {}) /\ 0 \in 0..n
    BY <1>1, <1>5, NoBatchIs
  <2> HIDE DEF bibs
  <2> QED
    BY <2>1, <2>2
<1>7. ASSUME NEW i \in 1..n, i - 1 \in G
      PROVE  i \in G
  <2>1. Packs(now, packed[i - 1], bibs(i - 1))
    BY <1>7
  <2>2. \A j : j \in 1..i <=> j = i \/ j \in 1..(i - 1)
    BY <1>1
  <2>3. bibs(i) = bibs(i - 1) \cup {runners[i]}
    BY <2>2
  <2>4. Packs(now, packed[i], bibs(i))
    <3> HIDE DEF bibs
    <3>1. runners[i] \in Int /\ packed[i] = Pack(now, packed[i - 1], runners[i], max)
      BY <1>1, <1>5
    <3>2. Packs(now, Pack(now, packed[i - 1], runners[i], max), bibs(i - 1) \cup {runners[i]})
      BY <2>1, <3>1, PackedStill
    <3> QED
      BY <2>3, <3>1, <3>2
  <2> QED
    BY <2>4
<1>8. n \in G
  <2> HIDE DEF G
  <2>1. \A i \in 1..n : i - 1 \in G => i \in G
    BY <1>7
  <2>2. \A i \in 0..n : i \in G
    BY <1>1, <1>6, <2>1, EveryStep
  <2> QED
    BY <1>1, <2>2
<1>9. Packs(now, all, Range(runners))
  <2>1. bibs(n) = Range(runners)
    BY DEF Range, n
  <2> QED
    BY <1>8, <2>1
<1> HIDE DEF all
<1>10. /\ all.done \in Seq(BatchesOf(now)) /\ all.batch \in BatchesOf(now)
       /\ IsWhole(now, all.batch) /\ \A b \in Range(all.done) : IsWhole(now, b)
       /\ RestatedBy(all.done) \cup Range(all.batch.replaces) = Range(runners)
  BY <1>9 DEF Packs
<1>11. CASE all.batch.replaces = <<>>
  <2>1. Batches(now, runners, max) = all.done
    BY <1>2, <1>10, <1>11
  <2>2. Range(all.batch.replaces) = {}
    BY <1>11 DEF Range
  <2> QED
    BY <1>10, <2>1, <2>2
<1>12. CASE all.batch.replaces # <<>>
  <2>1. Batches(now, runners, max) = Append(all.done, all.batch)
    <3>1. Batches(now, runners, max) = all.done \o <<all.batch>>
      BY <1>2, <1>12
    <3> QED
      BY <1>10, <3>1, AppendIsConcat
  <2>2. /\ Append(all.done, all.batch) \in Seq(BatchesOf(now))
        /\ Range(Append(all.done, all.batch)) = Range(all.done) \cup {all.batch}
        /\ RestatedBy(Append(all.done, all.batch)) = RestatedBy(all.done) \cup Range(all.batch.replaces)
    BY <1>10, OneMoreRestates
  <2> QED
    BY <1>10, <2>1, <2>2
<1> QED
  BY <1>11, <1>12

(* A page after them: just these runners are restated.                     *)
LEMMA PageAfterIs ==
    ASSUME NEW now, ArePublished(now), NEW page, NEW batches \in Seq(BatchesOf(now)),
           \A b \in Range(batches) : IsWhole(now, b)
    PROVE  PageAfter(page, batches) = Restated(page, now, RestatedBy(batches))
<1> DEFINE n == Len(batches)
           IsAfter(f) == f = [i \in 0..n |-> IF i = 0 THEN page ELSE Take(f[i - 1], batches[i])]
           after == CHOOSE f : IsAfter(f)
           bibs(i) == UNION {Range(batches[j].replaces) : j \in 1..i}
           V == {Restated(page, now, bs) : bs \in SUBSET Int}
           step == [x \in (1..n) \X V |-> Take(x[2], batches[x[1]])]
<1>1. n \in Nat /\ DOMAIN batches = 1..n /\ \A i \in 1..n : batches[i] \in BatchesOf(now)
  OBVIOUS
<1>2. PageAfter(page, batches) = after[n]
  BY Zenon DEF PageAfter
<1> HIDE DEF n
<1>3. \A i \in 1..n : IsWhole(now, batches[i]) /\ Range(batches[i].replaces) \subseteq Int
  <2>1. ASSUME NEW i \in 1..n
        PROVE  IsWhole(now, batches[i]) /\ Range(batches[i].replaces) \subseteq Int
    <3>1. batches[i] \in Range(batches)
      BY <1>1 DEF Range
    <3>2. batches[i].replaces \in Seq(Int)
      BY <1>1 DEF BatchesOf
    <3>3. Range(batches[i].replaces) \subseteq Int
      BY <3>2 DEF Range
    <3> QED
      BY <3>1, <3>3
  <2> QED
    BY <2>1
<1>4. page = Restated(page, now, {})
  BY DEF Restated
<1>5. \E f : IsAfter(f)
  <2>1. page \in V
    BY <1>4
  <2>2. ASSUME NEW i \in 1..n, NEW v \in V
        PROVE  Take(v, batches[i]) \in V
    <3>1. PICK bs \in SUBSET Int : v = Restated(page, now, bs)
      OBVIOUS
    <3>2. Take(v, batches[i]) = Restated(page, now, bs \cup Range(batches[i].replaces))
      BY <1>1, <1>3, <3>1, TakenIs
    <3>3. bs \cup Range(batches[i].replaces) \in SUBSET Int
      BY <1>3
    <3> QED
      BY <3>2, <3>3
  <2> HIDE DEF V
  <2>3. step \in [(1..n) \X V -> V]
    BY <2>2
  <2>4. PICK f \in [0..n -> V] : GoesBy(step, page, n, f)
    <3> HIDE DEF step
    <3> QED
      BY <1>1, <2>1, <2>3, SomethingGoesBy
  <2>5. \A i \in 1..n : step[<<i, f[i - 1]>>] = Take(f[i - 1], batches[i])
    <3>1. \A i \in 1..n : i - 1 \in 0..n
      BY <1>1
    <3> QED
      BY <3>1
  <2> HIDE DEF step
  <2>6. f = [i \in 0..n |-> IF i = 0 THEN page ELSE step[<<i, f[i - 1]>>]]
    BY <2>4 DEF GoesBy
  <2>7. \A i \in 0..n : i # 0 => i \in 1..n
    BY <1>1
  <2>8. f = [i \in 0..n |-> IF i = 0 THEN page ELSE Take(f[i - 1], batches[i])]
    BY <2>5, <2>6, <2>7
  <2> QED
    BY <2>8
<1>6. after = [i \in 0..n |-> IF i = 0 THEN page ELSE Take(after[i - 1], batches[i])]
  BY <1>5, Zenon
<1> HIDE DEF after
<1>7. after[0] = page /\ \A i \in 1..n : after[i] = Take(after[i - 1], batches[i])
  BY <1>1, <1>6
<1> DEFINE G == {i \in 0..n : after[i] = Restated(page, now, bibs(i))}
<1>8. 0 \in G
  <2>1. bibs(0) = {} /\ 0 \in 0..n
    BY <1>1
  <2> HIDE DEF bibs
  <2> QED
    BY <1>4, <1>7, <2>1
<1>9. ASSUME NEW i \in 1..n, i - 1 \in G
      PROVE  i \in G
  <2>1. after[i - 1] = Restated(page, now, bibs(i - 1))
    BY <1>9
  <2>2. \A j : j \in 1..i <=> j = i \/ j \in 1..(i - 1)
    BY <1>1
  <2>3. bibs(i) = bibs(i - 1) \cup Range(batches[i].replaces)
    BY <2>2
  <2> HIDE DEF bibs
  <2>4. Take(after[i - 1], batches[i]) = Restated(page, now, bibs(i - 1) \cup Range(batches[i].replaces))
    BY <1>1, <1>3, <2>1, TakenIs
  <2>5. after[i] = Restated(page, now, bibs(i))
    BY <1>7, <2>3, <2>4
  <2> QED
    BY <1>1, <2>5
<1>10. n \in G
  <2> HIDE DEF G
  <2>1. \A i \in 1..n : i - 1 \in G => i \in G
    BY <1>9
  <2>2. \A i \in 0..n : i \in G
    BY <1>1, <1>8, <2>1, EveryStep
  <2> QED
    BY <1>1, <2>2
<1>11. bibs(n) = RestatedBy(batches)
  BY <1>1 DEF RestatedBy, Range
<1> QED
  BY <1>2, <1>10, <1>11

(* Who is restated: the runners of whom it says otherwise.                 *)
LEMMA ToRestateIs ==
    ASSUME NEW held, ArePublished(held), NEW now, ArePublished(now)
    PROVE  ToRestate(held, now) \in Seq(Int) /\ Range(ToRestate(held, now)) = Differing(held, now)
<1> DEFINE S == Differing(held, now)
           s == ToRestate(held, now)
<1>1. S \subseteq DOMAIN now \cup DOMAIN held
  BY DEF Differing
<1>2. IsFiniteSet(S) /\ S \subseteq Int
  BY <1>1, FS_Union, FS_Subset DEF ArePublished
<1>3. s = InOrder(S, Pairs(S, <))
  BY DEF ToRestate
<1> HIDE DEF S, s
<1>4. Orders(S, Pairs(S, <))
  BY <1>2 DEF Orders, Pairs
<1>5. IsListOf(s, S, Pairs(S, <))
  BY <1>2, <1>3, <1>4, InOrderLists
<1>6. Len(s) \in Nat /\ s \in [1..Len(s) -> S] /\ \A x \in S : \E i \in 1..Len(s) : s[i] = x
  BY <1>5 DEF IsListOf
<1>7. s \in Seq(Int)
  <2>1. s \in [1..Len(s) -> Int]
    BY <1>2, <1>6
  <2> QED
    BY <1>6, <2>1
<1>8. Range(s) = S
  BY <1>6 DEF Range
<1> QED
  BY <1>7, <1>8 DEF S, s

(* Sent in batches of what changed, however small, a page is what is true. *)
LEMMA SentIsKeptUp ==
    ASSUME NEW held, ArePublished(held), NEW now, ArePublished(now), NEW max
    PROVE  IsKeptUp(now, held, max)
<1> DEFINE runners == ToRestate(held, now)
           batches == Batches(now, runners, max)
           bibs == Differing(held, now)
           page == OnThePage(held)
<1>1. runners \in Seq(Int) /\ Range(runners) = bibs
  BY ToRestateIs
<1>2. batches \in Seq(BatchesOf(now)) /\ (\A b \in Range(batches) : IsWhole(now, b)) /\ RestatedBy(batches) = bibs
  <2> HIDE DEF runners, bibs
  <2> QED
    BY <1>1, BatchesAre
<1> HIDE DEF batches
<1>3. PageAfter(page, batches) = Restated(page, now, bibs)
  BY <1>2, PageAfterIs
<1>4. \A c : c \in OnThePage(now) <=> \E b \in DOMAIN now : c \in Range(now[b]) /\ c.bib = b
  BY DEF OnThePage, ArePublished
<1>5. \A c : c \in page <=> \E b \in DOMAIN held : c \in Range(held[b]) /\ c.bib = b
  BY DEF OnThePage, ArePublished
<1>6. \A b : b \in bibs <=> \/ b \in DOMAIN now /\ (b \notin DOMAIN held \/ held[b] # now[b])
                            \/ b \in DOMAIN held /\ b \notin DOMAIN now
  BY DEF Differing
<1> HIDE DEF page, bibs
<1>7. \A c : c.bib \notin bibs => (c \in page <=> c \in OnThePage(now))
  BY <1>4, <1>5, <1>6
<1>8. Restated(page, now, bibs) = OnThePage(now)
  BY <1>7 DEF Restated
<1> QED
  BY <1>3, <1>8 DEF IsKeptUp, page, batches

-----------------------------------------------------------------------------
(* What is published of events.                                            *)

CrossingAs(race, gun, e) ==
    [bib |-> race.roster[e.participant], point |-> race.key[e.checkpoint],
     at |-> e.at, lap |-> e.lap, elapsed |-> Elapsed(gun, e.at)]

ShownOf(race, events) == {e \in events : IsPublished(race, e)}

BibsShown(race, events) == {race.roster[e.participant] : e \in ShownOf(race, events)}

TheirsOf(race, gun, events, bib) ==
    {CrossingAs(race, gun, e) : e \in {f \in ShownOf(race, events) : race.roster[f.participant] = bib}}

(* Events a race can publish: a mat is known by its key, and a runner by a *)
(* bib; and one event of a runner, a checkpoint and a lap.                 *)
CanBeShown(race, events) ==
    /\ IsRoster(race.roster) /\ IsFiniteSet(events)
    /\ \A e \in events : e.at \in Int /\ e.lap \in Nat
    /\ \A c, d \in DOMAIN race.course : race.key[c] \in Int /\ (race.key[c] = race.key[d] => c = d)
    /\ \A e, f \in events :
          e.participant = f.participant /\ e.checkpoint = f.checkpoint /\ e.lap = f.lap /\ e.lap # 0
          => e = f

LEMMA PublishedAs ==
    ASSUME NEW race, NEW gun, NEW events
    PROVE  Published(race, gun, events) =
              [bib \in BibsShown(race, events) |->
                  InOrder(TheirsOf(race, gun, events, bib),
                          Pairs(TheirsOf(race, gun, events, bib), CrossedBefore))]
BY Zenon DEF Published, BibsShown, ShownOf, TheirsOf, CrossingAs

LEMMA ShownOnce ==
    ASSUME NEW race, NEW gun, NEW events, CanBeShown(race, events),
           NEW e \in ShownOf(race, events), NEW f \in ShownOf(race, events),
           SameCrossing(CrossingAs(race, gun, e), CrossingAs(race, gun, f))
    PROVE  e = f
<1>1. /\ e \in events /\ f \in events /\ e.lap # 0
      /\ e.checkpoint \in DOMAIN race.course /\ f.checkpoint \in DOMAIN race.course
      /\ e.participant \in DOMAIN race.roster /\ f.participant \in DOMAIN race.roster
  BY DEF ShownOf, IsPublished
<1>2. /\ race.roster[e.participant] = race.roster[f.participant]
      /\ race.key[e.checkpoint] = race.key[f.checkpoint] /\ e.lap = f.lap
  BY DEF SameCrossing, CrossingAs
<1>3. e.checkpoint = f.checkpoint
  BY <1>1, <1>2 DEF CanBeShown
<1>4. e.participant = f.participant
  BY <1>1, <1>2 DEF CanBeShown, IsRoster, IsInjective
<1> QED
  BY <1>1, <1>2, <1>3, <1>4 DEF CanBeShown

LEMMA TheirsAre ==
    ASSUME NEW race, NEW gun, NEW events, CanBeShown(race, events), NEW bib
    PROVE  LET theirs == TheirsOf(race, gun, events, bib) IN
           /\ IsFiniteSet(theirs) /\ Orders(theirs, Pairs(theirs, CrossedBefore))
           /\ IsListOf(InOrder(theirs, Pairs(theirs, CrossedBefore)), theirs, Pairs(theirs, CrossedBefore))
<1> DEFINE mine == {f \in ShownOf(race, events) : race.roster[f.participant] = bib}
           theirs == TheirsOf(race, gun, events, bib)
           g == [e \in mine |-> CrossingAs(race, gun, e)]
<1>1. IsFiniteSet(theirs)
  <2>1. mine \subseteq events /\ IsFiniteSet(events)
    BY DEF ShownOf, CanBeShown
  <2>2. IsFiniteSet(mine) /\ DOMAIN g = mine
    BY <2>1, FS_Subset
  <2>3. theirs = {g[e] : e \in DOMAIN g}
    BY DEF TheirsOf
  <2> HIDE DEF g, mine, theirs
  <2> QED
    BY <2>2, <2>3, ImageFinite
<1>2. \A c \in theirs : \E e \in mine : c = CrossingAs(race, gun, e)
  BY DEF TheirsOf
<1>3. \A e \in mine : /\ e \in ShownOf(race, events) /\ e.at \in Int /\ e.lap \in Nat
                      /\ race.key[e.checkpoint] \in Int /\ race.roster[e.participant] = bib
  BY DEF ShownOf, IsPublished, CanBeShown
<1>4. \A e : /\ CrossingAs(race, gun, e).at = e.at /\ CrossingAs(race, gun, e).lap = e.lap
             /\ CrossingAs(race, gun, e).point = race.key[e.checkpoint]
             /\ CrossingAs(race, gun, e).bib = race.roster[e.participant]
  BY DEF CrossingAs
<1> HIDE DEF theirs, mine
<1>5. \A c \in theirs : c.at \in Int /\ c.lap \in Int /\ c.point \in Int /\ c.bib = bib
  BY <1>2, <1>3, <1>4
<1>6. \A c, d \in theirs : c.lap = d.lap /\ c.point = d.point => c = d
  <2>1. ASSUME NEW c \in theirs, NEW d \in theirs, c.lap = d.lap, c.point = d.point
        PROVE  c = d
    <3>1. PICK e \in mine : c = CrossingAs(race, gun, e)
      BY <1>2
    <3>2. PICK f \in mine : d = CrossingAs(race, gun, f)
      BY <1>2
    <3>3. SameCrossing(c, d)
      BY <1>5, <2>1 DEF SameCrossing
    <3>4. e = f
      BY <1>3, <3>1, <3>2, <3>3, ShownOnce
    <3> QED
      BY <3>1, <3>2, <3>4
  <2> QED
    BY <2>1
<1>7. Orders(theirs, Pairs(theirs, CrossedBefore))
  <2>1. \A c \in theirs : ~CrossedBefore(c, c)
    BY <1>5 DEF CrossedBefore
  <2>2. \A c, d, e \in theirs : CrossedBefore(c, d) /\ CrossedBefore(d, e) => CrossedBefore(c, e)
    BY <1>5 DEF CrossedBefore
  <2>3. \A c, d \in theirs : c # d => CrossedBefore(c, d) \/ CrossedBefore(d, c)
    BY <1>5, <1>6 DEF CrossedBefore
  <2> QED
    BY <2>1, <2>2, <2>3 DEF Orders, Pairs
<1> QED
  BY <1>1, <1>7, InOrderLists DEF theirs

LEMMA PublishedIs ==
    ASSUME NEW race, NEW gun, NEW events, CanBeShown(race, events)
    PROVE  LET now == Published(race, gun, events) IN
           /\ ArePublished(now)
           /\ \A e \in ShownOf(race, events) :
                 CrossingAs(race, gun, e) \in Range(now[race.roster[e.participant]])
           /\ \A c \in OnThePage(now) : \E e \in ShownOf(race, events) : c = CrossingAs(race, gun, e)
<1> DEFINE now == Published(race, gun, events)
           bibs == BibsShown(race, events)
           theirs(bib) == TheirsOf(race, gun, events, bib)
           shown == ShownOf(race, events)
<1>1. DOMAIN now = bibs /\ \A bib \in bibs : now[bib] = InOrder(theirs(bib), Pairs(theirs(bib), CrossedBefore))
  BY PublishedAs
<1> HIDE DEF now
<1>2. \A bib : IsListOf(InOrder(theirs(bib), Pairs(theirs(bib), CrossedBefore)),
                        theirs(bib), Pairs(theirs(bib), CrossedBefore))
  BY TheirsAre
<1>3. \A bib : \A c : c \in theirs(bib) <=>
                \E e \in shown : race.roster[e.participant] = bib /\ c = CrossingAs(race, gun, e)
  BY DEF TheirsOf
<1>4. \A b : b \in bibs <=> \E e \in shown : b = race.roster[e.participant]
  BY DEF BibsShown
<1>5. IsFiniteSet(bibs) /\ bibs \subseteq Int
  <2>1. /\ \A e \in shown : e.participant \in DOMAIN race.roster
        /\ IsFiniteSet(DOMAIN race.roster) /\ \A p \in DOMAIN race.roster : race.roster[p] \in Int
    BY DEF ShownOf, IsPublished, CanBeShown, IsRoster, Range
  <2>2. bibs \subseteq {race.roster[p] : p \in DOMAIN race.roster}
    BY <1>4, <2>1
  <2>3. IsFiniteSet({race.roster[p] : p \in DOMAIN race.roster})
    BY <2>1, ImageFinite
  <2>4. IsFiniteSet(bibs)
    BY <2>2, <2>3, FS_Subset
  <2> HIDE DEF bibs
  <2> QED
    BY <2>1, <2>2, <2>4
<1>6. \A e : CrossingAs(race, gun, e).bib = race.roster[e.participant]
  BY DEF CrossingAs
<1> HIDE DEF theirs, bibs, shown
<1>7. \A bib \in bibs : now[bib] \in Seq(theirs(bib)) /\ Range(now[bib]) = theirs(bib)
  <2>1. ASSUME NEW bib \in bibs
        PROVE  now[bib] \in Seq(theirs(bib)) /\ Range(now[bib]) = theirs(bib)
    <3> DEFINE s == now[bib]
    <3>1. IsListOf(s, theirs(bib), Pairs(theirs(bib), CrossedBefore))
      BY <1>1, <1>2
    <3> HIDE DEF s
    <3>2. /\ Len(s) \in Nat /\ s \in [1..Len(s) -> theirs(bib)]
          /\ \A x \in theirs(bib) : \E i \in 1..Len(s) : s[i] = x
      BY <3>1 DEF IsListOf
    <3>3. s \in Seq(theirs(bib)) /\ Range(s) = theirs(bib)
      BY <3>2 DEF Range
    <3> QED
      BY <3>3 DEF s
  <2> QED
    BY <2>1
<1>8. \A c : c \in OnThePage(now) <=> \E e \in shown : c = CrossingAs(race, gun, e)
  <2>1. \A c : c \in OnThePage(now) <=> \E bib \in bibs : c \in Range(now[bib])
    BY <1>1 DEF OnThePage
  <2>2. \A c : c \in OnThePage(now) <=> \E bib \in bibs : c \in theirs(bib)
    BY <1>7, <2>1
  <2>3. ASSUME NEW e \in shown
        PROVE  /\ race.roster[e.participant] \in bibs
               /\ CrossingAs(race, gun, e) \in theirs(race.roster[e.participant])
    BY <1>3, <1>4
  <2>4. \A c : \A bib \in bibs : c \in theirs(bib) => \E e \in shown : c = CrossingAs(race, gun, e)
    BY <1>3
  <2> QED
    BY <2>2, <2>3, <2>4
<1>9. \A c, d \in OnThePage(now) : SameCrossing(c, d) => c = d
  BY <1>8, ShownOnce DEF shown
<1>10. \A bib \in bibs : now[bib] \in Seq(Range(now[bib])) /\ \A c \in Range(now[bib]) : c.bib = bib
  BY <1>3, <1>6, <1>7
<1>11. ArePublished(now)
  BY <1>1, <1>5, <1>9, <1>10 DEF ArePublished
<1>12. \A e \in shown : CrossingAs(race, gun, e) \in Range(now[race.roster[e.participant]])
  BY <1>3, <1>4, <1>7
<1> QED
  BY <1>8, <1>11, <1>12 DEF now, shown

-----------------------------------------------------------------------------
(* The events of a race can be published.                                  *)

(* One lap of a runner at a checkpoint is one event.                       *)
LEMMA OneOfALap ==
    ASSUME NEW input, IsEvidence(input), AreReads(Range(input.manual)),
           NEW events, events = Derive(input).events, NEW i \in DOMAIN events, NEW j \in DOMAIN events,
           events[i].participant = events[j].participant, events[i].checkpoint = events[j].checkpoint,
           events[i].lap = events[j].lap, events[i].lap # 0
    PROVE  i = j
<1> DEFINE T == OfRunner(input, events, i)
           n == Cardinality(T)
           lap == [k \in T |-> events[k].lap]
<1>1. LapsFit(input, events, i) /\ LapsFit(input, events, j)
  BY LapsAreCounted
<1>2. i \in T /\ j \in T
  BY <1>1 DEF LapsFit, OfRunner
<1>3. {events[k].lap : k \in T} = 1..n
  BY <1>1, Zenon DEF LapsFit
<1>4. IsFiniteSet(T)
  <2> DEFINE m == Len(Sources(input, Derive(input).accepted))
  <2>1. DOMAIN events = 1..m
    BY EventsAre
  <2>2. m \in Nat
    BY SourcesAre DEF IsListOf
  <2> HIDE DEF m
  <2>3. IsFiniteSet(DOMAIN events)
    BY <2>1, <2>2, FS_Interval
  <2>4. T \subseteq DOMAIN events
    BY DEF OfRunner
  <2> QED
    BY <2>3, <2>4, FS_Subset
<1>5. n \in Nat
  BY <1>4, FS_CardinalityType
<1> HIDE DEF T, n
<1>6. Cardinality(1..n) = n
  BY <1>5, FS_Interval
<1>7. lap \in Surjection(T, 1..n)
  BY <1>3 DEF Surjection
<1>8. lap \in Injection(T, 1..n)
  BY <1>4, <1>6, <1>7, FS_SurjSameCardinalityImpliesInj DEF n
<1>9. lap[i] = lap[j]
  BY <1>2
<1> HIDE DEF lap
<1> QED
  BY <1>2, <1>8, <1>9 DEF Injection, IsInjective

(* What happened from the gun on has a lap.                                *)
LEMMA RacingHasALap ==
    ASSUME NEW input, IsEvidence(input), AreReads(Range(input.manual)),
           NEW e \in Range(Derive(input).events), Some(input.gun) => e.at >= input.gun
    PROVE  e.lap # 0
<1> DEFINE S == CrossedOf(Derive(input).accepted) \cup WrittenOf(input)
           events == Derive(input).events
<1>1. PICK i \in DOMAIN events : e = events[i]
  BY DEF Range
<1>2. LapsFit(input, events, i)
  BY LapsAreCounted
<1>3. e.lap = 0 <=> IsOver(input, e)
  BY <1>1, <1>2, Zenon DEF LapsFit
<1>4. PICK s \in S, lap \in Nat : e = EventWith(s, lap)
  BY EventsAreSources
<1>5. e.manual = s.manual /\ e.id = s.id /\ e.at = s.at
  BY <1>4 DEF EventWith
<1>6. IsOver(input, e) <=> ~s.raceSide
  BY <1>5, OverIs
<1>7. s.raceSide
  <2>1. CASE s \in WrittenOf(input)
    <3>1. PICK h \in Range(input.manual) : s.at = h.at /\ s.raceSide = (Some(input.gun) => h.at >= input.gun)
      BY <2>1 DEF WrittenOf
    <3> QED
      BY <1>5, <3>1
  <2>2. CASE s \in CrossedOf(Derive(input).accepted)
    <3>1. PICK c \in Derive(input).accepted : s.at = c.at /\ s.raceSide = c.raceSide
      BY <2>2 DEF CrossedOf
    <3>2. IsCrossing(input, c)
      BY CrossingsAreApart
    <3>3. PICK r \in Here(input, c.chip, c.checkpoint) : c.source = r.seq /\ c.at = r.at
      BY <3>2 DEF IsCrossing
    <3>4. r \in {q \in Range(input.reads) : q.seq \in c.burst}
      BY <3>2, <3>3 DEF IsCrossing, Here
    <3>5. Sided({q \in Range(input.reads) : q.seq \in c.burst}, input.gun)
      BY <1>5, <3>1, <3>3, <3>4 DEF Sided
    <3> QED
      BY <3>1, <3>2, <3>5 DEF IsCrossing
  <2> QED
    BY <2>1, <2>2
<1> QED
  BY <1>3, <1>6, <1>7

LEMMA EventsCanBeShown ==
    ASSUME TimingShape, ~CannotBePlaced(setup),
           NEW reads, IsLog(reads, Readings, MaxReads), NEW entries, IsLog(entries, Hands, MaxHands),
           NEW starts \in Seq(Guns)
    PROVE  CanBeShown(setup, Range(DerivationOf(reads, entries, starts).events))
<1> DEFINE input == InputOf(reads, entries, starts)
           events == Derive(input).events
<1>1. IsEvidence(input) /\ AreReads(Range(input.manual)) /\ DerivationOf(reads, entries, starts) = Derive(input)
  BY EvidenceIs
<1> HIDE DEF input
<1>2. setup \in Setups
  BY DEF TimingShape
<1>3. IsRoster(setup.roster) /\ \A c \in DOMAIN setup.course : setup.key[c] \in Int
  BY <1>2, Given DEF IsCourse
<1>4. \A c, d \in DOMAIN setup.course : setup.key[c] = setup.key[d] => c = d
  BY DEF CannotBePlaced, KeysCollide
<1>5. IsFiniteSet(Range(events)) /\ \A e \in Range(events) : e.at \in Int
  BY <1>1, EventsAre DEF AreEvents
<1>6. \A e \in Range(events) : e.lap \in Nat
  <2>1. ASSUME NEW e \in Range(events)
        PROVE  e.lap \in Nat
    <3>1. PICK s \in CrossedOf(Derive(input).accepted) \cup WrittenOf(input), lap \in Nat : e = EventWith(s, lap)
      BY <1>1, EventsAreSources
    <3> QED
      BY <3>1 DEF EventWith
  <2> QED
    BY <2>1
<1>7. \A e, f \in Range(events) :
          e.participant = f.participant /\ e.checkpoint = f.checkpoint /\ e.lap = f.lap /\ e.lap # 0
          => e = f
  <2>1. ASSUME NEW i \in DOMAIN events, NEW j \in DOMAIN events,
               events[i].participant = events[j].participant, events[i].checkpoint = events[j].checkpoint,
               events[i].lap = events[j].lap, events[i].lap # 0
        PROVE  i = j
    BY <1>1, <2>1, OneOfALap
  <2> HIDE DEF events
  <2>2. ASSUME NEW e \in Range(events), NEW f \in Range(events),
               e.participant = f.participant, e.checkpoint = f.checkpoint, e.lap = f.lap, e.lap # 0
        PROVE  e = f
    <3>1. PICK i \in DOMAIN events : e = events[i]
      BY DEF Range
    <3>2. PICK j \in DOMAIN events : f = events[j]
      BY DEF Range
    <3>3. i = j
      BY <2>1, <2>2, <3>1, <3>2
    <3> QED
      BY <3>1, <3>2, <3>3
  <2> QED
    BY <2>2
<1> QED
  BY <1>1, <1>3, <1>4, <1>5, <1>6, <1>7 DEF CanBeShown

-----------------------------------------------------------------------------
(* The mats, the finish, and the page.                                     *)

LEMMA GreaterOfTwo ==
    ASSUME NEW a \in Int, NEW b \in Int
    PROVE  Max({a, b}) = IF a >= b THEN a ELSE b
<1> DEFINE m == IF a >= b THEN a ELSE b
<1>1. m \in {a, b} /\ \A y \in {a, b} : m >= y
  OBVIOUS
<1>2. \A x \in {a, b} : (\A y \in {a, b} : x >= y) => x = m
  OBVIOUS
<1>3. Max({a, b}) = CHOOSE x \in {a, b} : \A y \in {a, b} : x >= y
  BY DEF Max
<1> HIDE DEF m
<1>4. Max({a, b}) = m
  BY <1>1, <1>2, <1>3
<1> QED
  BY <1>4 DEF m

LEMMA MetersAre ==
    ASSUME NEW race, IsCourse(race), ~CannotBePlaced(race), NEW c \in DOMAIN race.course
    PROVE  Meters(race, c) \in Int
<1>1. race.meters \in Int /\ race.laps \in Int /\ race.course[c] \in {"start", "split", "finish", "lap"}
  BY DEF IsCourse, Range
<1>2. LapsOf(race) \in Int /\ LapsOf(race) > 0
  BY <1>1, GreaterOfTwo DEF LapsOf
<1>3. LapLength(race) \in Int
  BY <1>1, <1>2 DEF LapLength
<1>4. race.course[c] = "split" => race.splits[c] \in Int
  <2>1. race.course[c] = "split" => ~Misplaced(race, c)
    BY DEF CannotBePlaced, OfKind
  <2> QED
    BY <1>3, <2>1 DEF Misplaced
<1>5. CASE race.course[c] = "start"
  BY <1>5 DEF Meters
<1>6. CASE race.course[c] \in {"finish", "lap"}
  <2>1. Meters(race, c) = LapLength(race)
    BY <1>6 DEF Meters
  <2> QED
    BY <1>3, <2>1
<1>7. CASE race.course[c] = "split"
  <2>1. Meters(race, c) = race.splits[c]
    BY <1>7 DEF Meters
  <2> QED
    BY <1>4, <1>7, <2>1
<1> QED
  BY <1>1, <1>5, <1>6, <1>7

(* Every checkpoint is a mat of the manifest.                              *)
LEMMA MatsAre ==
    ASSUME NEW race, IsCourse(race), ~CannotBePlaced(race), NEW gun, NEW c \in DOMAIN race.course
    PROVE  race.key[c] \in {point.key : point \in Range(Manifest(race, gun).points)}
<1> DEFINE S == DOMAIN race.course
           Before(d, e) == AlongTheCourse(race, d, e)
           R == Pairs(S, Before)
           mats == InOrder(S, R)
<1>1. IsFiniteSet(S) /\ \A d \in S : race.key[d] \in Int /\ race.sequence[d] \in Int
  BY DEF IsCourse
<1>2. \A d \in S : Meters(race, d) \in Int
  BY MetersAre
<1>3. \A d, e \in S : race.key[d] = race.key[e] => d = e
  BY DEF CannotBePlaced, KeysCollide
<1>4. \A d, e : <<d, e>> \in R <=> d \in S /\ e \in S /\ AlongTheCourse(race, d, e)
  BY DEF Pairs
<1>5. Manifest(race, gun).points = [i \in DOMAIN mats |-> [key |-> race.key[mats[i]], meters |-> Meters(race, mats[i])]]
  <2>1. Manifest(race, gun) =
          [meters |-> race.meters, gun |-> gun, laps |-> LapsOf(race),
           points |-> [i \in DOMAIN mats |->
                        [key |-> race.key[mats[i]], meters |-> Meters(race, mats[i])]]]
    BY Zenon DEF Manifest
  <2> HIDE DEF mats
  <2> QED
    BY <2>1
<1> HIDE DEF S, R
<1>6. Orders(S, R)
  <2>1. \A d \in S : ~AlongTheCourse(race, d, d)
    BY <1>1, <1>2 DEF AlongTheCourse
  <2>2. \A d, e, f \in S : AlongTheCourse(race, d, e) /\ AlongTheCourse(race, e, f) => AlongTheCourse(race, d, f)
    BY <1>1, <1>2 DEF AlongTheCourse
  <2>3. \A d, e \in S : d # e => AlongTheCourse(race, d, e) \/ AlongTheCourse(race, e, d)
    BY <1>1, <1>2, <1>3 DEF AlongTheCourse
  <2> QED
    BY <1>4, <2>1, <2>2, <2>3 DEF Orders
<1>7. IsListOf(mats, S, R)
  BY <1>1, <1>6, InOrderLists
<1> HIDE DEF mats
<1>8. PICK i \in 1..Len(mats) : mats[i] = c
  BY <1>7 DEF IsListOf, S
<1>9. i \in DOMAIN mats
  BY <1>7 DEF IsListOf
<1> DEFINE points == Manifest(race, gun).points
<1>10. i \in DOMAIN points /\ points[i].key = race.key[c]
  BY <1>5, <1>8, <1>9
<1> HIDE DEF points
<1>11. points[i] \in Range(points)
  BY <1>10 DEF Range
<1> QED
  BY <1>10, <1>11 DEF points

LEMMA FinishAtIs ==
    ASSUME NEW input, NEW p
    PROVE  EntryOf(input, p).finishAt =
              IF Some(Crossings(input, p, Sole(input.course, "finish")).counted)
              THEN Crossings(input, p, Sole(input.course, "finish")).counted.at ELSE None
<1> DEFINE finish == Crossings(input, p, Sole(input.course, "finish"))
           line == Sole(input.course, "start")
           start == IF Some(line) THEN Crossings(input, p, line) ELSE NoCrossings
<1>1. EntryOf(input, p) = Entry(input, p, StartOf(start, input.gun), start, finish)
  BY Zenon DEF EntryOf
<1> HIDE DEF finish, start
<1>2. Entry(input, p, StartOf(start, input.gun), start, finish).finishAt =
          IF Some(finish.counted) THEN finish.counted.at ELSE None
  BY DEF Entry
<1> QED
  BY <1>1, <1>2 DEF finish

(* The time a line is scored by is that of an event at the finish, in the  *)
(* race.                                                                   *)
LEMMA FinishIsAnEvent ==
    ASSUME NEW input, IsRace(input), NEW p, Some(EntryOf(input, p).finishAt)
    PROVE  \E f \in input.events :
              /\ f.participant = p /\ f.checkpoint = Sole(input.course, "finish")
              /\ f.at = EntryOf(input, p).finishAt /\ (Some(input.gun) => f.at >= input.gun)
<1> DEFINE racing == {e \in {f \in input.events : f.participant = p /\ f.checkpoint = Sole(input.course, "finish")} :
                        DuringTheRace(input.gun, e.at)}
           f == Crossings(input, p, Sole(input.course, "finish")).counted
<1>1. f = FirstOf(input.handsFirst, racing)
  BY DEF Crossings
<1>2. EntryOf(input, p).finishAt = IF Some(f) THEN f.at ELSE None
  BY FinishAtIs
<1>3. AreEvents(racing)
  BY FewerEvents DEF IsRace
<1> HIDE DEF f
<1>4. Some(f)
  BY <1>2 DEF Some
<1>5. f \in racing
  <2> HIDE DEF racing
  <2>1. f \in racing \cup {None}
    BY <1>1, <1>3, FirstIs DEF IsRace
  <2> QED
    BY <1>4, <2>1 DEF Some
<1> QED
  BY <1>2, <1>4, <1>5 DEF DuringTheRace

LEMMA ElapsedIs ==
    ASSUME NEW from, from \in Int \cup {None}, NEW to \in Int, Some(from) => to >= from
    PROVE  Elapsed(from, to) = Minus(to, from)
<1>1. Some(to)
  BY NoneIsNothing DEF Some
<1>2. CASE Some(from)
  <2>1. from \in Int
    BY <1>2 DEF Some
  <2>2. to - from \in Int /\ to - from >= 0
    BY <1>2, <2>1
  <2>3. Max({to - from, 0}) = to - from
    BY <2>2, GreaterOfTwo
  <2> QED
    BY <1>1, <1>2, <2>3 DEF Elapsed, Minus
<1>3. CASE ~Some(from)
  BY <1>3 DEF Elapsed, Minus
<1> QED
  BY <1>2, <1>3

LEMMA FinishIsShown ==
    ASSUME TimingShape, ~CannotBePlaced(setup), Scorable, NEW e \in Range(results),
           Some(e.finishAt), e.bib <= LastBib
    PROVE  ShowsTheFinish(PublishedOf(journal, written, started), e)
<1> DEFINE input == InputOf(journal, written, started)
           events == Range(derivation.events)
           race == ScoredFrom(events, declared, started)
           now == PublishedOf(journal, written, started)
           line == Sole(setup.course, "finish")
<1>1. /\ IsLog(journal, Readings, MaxReads) /\ IsLog(written, Hands, MaxHands) /\ started \in Seq(Guns)
      /\ derivation = DerivationOf(journal, written, started)
  BY DEF TimingShape, derivation
<1>2. /\ IsEvidence(input) /\ AreReads(Range(input.manual)) /\ events = Range(Derive(input).events)
      /\ input.gun = Gun
  <2>1. input.gun = Gun
    BY DEF InputOf, Gun
  <2> QED
    BY <1>1, <2>1, EvidenceIs
<1>3. IsRace(race) /\ results = Score(race)
  <2>1. IsRace(race) /\ ScoreOf(events, declared, started) = Score(race)
    BY <1>1, RaceIs
  <2> QED
    BY <2>1, Zenon DEF results, SheetOf
<1>4. race.events = events /\ race.roster = setup.roster /\ race.course = setup.course /\ race.gun = Gun
  BY DEF ScoredFrom, Gun
<1>5. CanBeShown(setup, events)
  BY <1>1, EventsCanBeShown
<1>6. now = Published(setup, Gun, events)
  BY <1>1, Zenon DEF PublishedOf, Gun
<1> HIDE DEF input, events, race, now
<1>7. PICK p \in DOMAIN setup.roster : e = LineIn(race, p)
  BY <1>3, <1>4, LineOfIs DEF LinesOf
<1>8. e.bib = setup.roster[p] /\ e.finishAt = EntryOf(race, p).finishAt
  BY <1>4, <1>7, LineHolds DEF LineIn
<1>9. PICK f \in events : /\ f.participant = p /\ f.checkpoint = line
                          /\ f.at = e.finishAt /\ (Some(Gun) => f.at >= Gun)
  BY <1>3, <1>4, <1>8, FinishIsAnEvent
<1>10. f.lap # 0
  BY <1>2, <1>9, RacingHasALap
<1>11. line \in DOMAIN setup.course
  <2>1. OfKind(setup.course, "finish") # {}
    BY FS_EmptySet DEF Scorable, Unscorable
  <2>2. line \in OfKind(setup.course, "finish")
    BY <2>1 DEF Sole
  <2> QED
    BY <2>2 DEF OfKind
<1>12. f \in ShownOf(setup, events)
  BY <1>7, <1>8, <1>9, <1>10, <1>11 DEF ShownOf, IsPublished
<1>13. CrossingAs(setup, Gun, f) \in Range(now[e.bib])
  <2>1. CrossingAs(setup, Gun, f) \in Range(now[setup.roster[f.participant]])
    BY <1>5, <1>6, <1>12, PublishedIs
  <2> QED
    BY <1>8, <1>9, <2>1
<1>14. Elapsed(Gun, f.at) = Minus(f.at, Gun)
  <2>1. f.at \in Int /\ Gun \in Int \cup {None}
    BY <1>2, <1>5 DEF CanBeShown, IsEvidence
  <2> QED
    BY <1>9, <2>1, ElapsedIs
<1>15. /\ CrossingAs(setup, Gun, f).point = setup.key[line] /\ CrossingAs(setup, Gun, f).at = e.finishAt
       /\ CrossingAs(setup, Gun, f).elapsed = Minus(e.finishAt, Gun)
  BY <1>9, <1>14 DEF CrossingAs
<1> QED
  BY <1>13, <1>15 DEF ShowsTheFinish, now

LEMMA PageStands == TimingShape => PageKeepsUp
<1> SUFFICES ASSUME TimingShape, ~CannotBePlaced(setup)
             PROVE  PageKeepsUp
  BY DEF PageKeepsUp
<1> DEFINE now == PublishedOf(journal, written, started)
           earlier == {PublishedOf(journal, written, <<>>), PublishedOf(journal, <<>>, started)}
                \cup {PublishedOf(Front(journal), written, started) : i \in {1} \cap DOMAIN journal}
           mats == {point.key : point \in Range(Manifest(setup, Gun).points)}
<1>1. IsLog(journal, Readings, MaxReads) /\ IsLog(written, Hands, MaxHands) /\ started \in Seq(Guns)
  BY DEF TimingShape
<1>2. ASSUME NEW reads, IsLog(reads, Readings, MaxReads), NEW entries, IsLog(entries, Hands, MaxHands),
             NEW starts \in Seq(Guns)
      PROVE  ArePublished(PublishedOf(reads, entries, starts))
  <2>1. CanBeShown(setup, Range(DerivationOf(reads, entries, starts).events))
    BY <1>2, EventsCanBeShown
  <2>2. PublishedOf(reads, entries, starts) =
            Published(setup, GunOf(setup, starts), Range(DerivationOf(reads, entries, starts).events))
    BY Zenon DEF PublishedOf
  <2> QED
    BY <2>1, <2>2, PublishedIs
<1>3. <<>> \in Seq(Guns) /\ IsLog(<<>>, Hands, MaxHands)
  BY Bounded DEF IsLog
<1>4. ASSUME 1 \in DOMAIN journal
      PROVE  IsLog(Front(journal), Readings, MaxReads)
  <2>1. journal \in Seq(RowsGiven(Readings, MaxReads)) /\ journal # <<>>
    BY <1>1, <1>4 DEF IsLog
  <2>2. /\ Front(journal) \in Seq(RowsGiven(Readings, MaxReads))
        /\ journal = Append(Front(journal), Last(journal)) /\ Last(journal) \in RowsGiven(Readings, MaxReads)
    BY <2>1, LastOnTop
  <2>3. /\ Len(journal) = Len(Front(journal)) + 1 /\ Len(Front(journal)) \in Nat
        /\ \A i \in 1..Len(Front(journal)) : journal[i] = Front(journal)[i]
    BY <2>2, AppendProperties
  <2>4. MaxReads \in Nat /\ Len(journal) <= MaxReads /\ \A i \in 1..Len(journal) : journal[i].seq = i
    BY <1>1, Bounded DEF IsLog
  <2> QED
    BY <2>2, <2>3, <2>4 DEF IsLog
<1>5. ArePublished(now) /\ \A held \in earlier : ArePublished(held)
  <2>1. ArePublished(PublishedOf(journal, written, <<>>)) /\ ArePublished(PublishedOf(journal, <<>>, started))
    BY <1>1, <1>2, <1>3
  <2>2. 1 \in DOMAIN journal => ArePublished(PublishedOf(Front(journal), written, started))
    BY <1>1, <1>2, <1>4
  <2>3. ArePublished(now)
    BY <1>1, <1>2
  <2> HIDE DEF now
  <2> QED
    BY <2>1, <2>2, <2>3
<1>6. \A held \in earlier, max \in {1, 3} : IsKeptUp(now, held, max)
  <2> HIDE DEF now, earlier
  <2> QED
    BY <1>5, SentIsKeptUp
<1>7. \A c \in OnThePage(now) : c.point \in mats
  <2> DEFINE events == Range(DerivationOf(journal, written, started).events)
  <2>1. CanBeShown(setup, events)
    BY <1>1, EventsCanBeShown
  <2>2. now = Published(setup, Gun, events)
    BY Zenon DEF PublishedOf, Gun
  <2>3. IsCourse(setup)
    BY Given DEF TimingShape
  <2> HIDE DEF now, events
  <2>4. ASSUME NEW c \in OnThePage(now)
        PROVE  c.point \in mats
    <3>1. PICK e \in ShownOf(setup, events) : c = CrossingAs(setup, Gun, e)
      BY <2>1, <2>2, PublishedIs
    <3>2. c.point = setup.key[e.checkpoint] /\ e.checkpoint \in DOMAIN setup.course
      BY <3>1 DEF CrossingAs, ShownOf, IsPublished
    <3> QED
      BY <2>3, <3>2, MatsAre
  <2> QED
    BY <2>4
<1>8. Scorable => \A e \in Range(results) :
          Some(e.finishAt) /\ e.bib <= LastBib => ShowsTheFinish(now, e)
  BY FinishIsShown
<1> HIDE DEF now, earlier, mats
<1> QED
  BY <1>6, <1>7, <1>8, Zenon DEF PageKeepsUp, now, earlier, mats

(* Whatever evidence comes in: a page that held what was true before the   *)
(* last read, the entries by hand or the start recorded holds what is true *)
(* now and nothing else once the batches of what changed are taken, its    *)
(* crossings are at mats of the manifest, and it shows the finish that the *)
(* sheet scores.                                                           *)
THEOREM PageIsKeptUp == TimingSpec => []PageKeepsUp
<1>1. TimingInit => TimingShape
  BY TimingShapeAtFirst
<1>2. TimingShape /\ [TimingNext]_timingVars => TimingShape'
  BY TimingShapeHolds
<1>3. TimingShape => PageKeepsUp
  BY PageStands
<1> QED
  BY <1>1, <1>2, <1>3, PTL DEF TimingSpec
==============================================================================
