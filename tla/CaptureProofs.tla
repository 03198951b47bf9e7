--------------------------- MODULE CaptureProofs ---------------------------
(***************************************************************************)
(* What TLAPS proves of the reassembler, the decoder and the capture, for  *)
(* every set of records, every noise, every stream and however its bytes   *)
(* arrive.  A scan is a loop over a buffer, so most of what is shown of it *)
(* is shown from the end of the buffer back to its beginning (Backward).   *)
(***************************************************************************)
EXTENDS Capture, SequenceTheorems, WellFoundedInduction, TLAPS

-----------------------------------------------------------------------------
(***************************************************************************)
(* Induction, over the places of a buffer.                                 *)
(***************************************************************************)

(* A set of numbers has a least.                                           *)
LEMMA LeastOf ==
    ASSUME NEW S \in SUBSET Nat, S # {}
    PROVE  \E x \in S : \A y \in S : x <= y
<1>1. PICK x \in S : \A y \in S : ~(<<y, x>> \in OpToRel(<, Nat))
  BY WFMin, NatLessThanWellFounded, Zenon
<1>2. \A y \in S : ~(y < x)
  BY <1>1, Zenon DEF OpToRel
<1>3. \A y \in S : x <= y
  BY <1>2
<1> QED
  BY <1>3

(* What holds at a place if it holds before it holds everywhere.           *)
LEMMA Forward ==
    ASSUME NEW n \in Nat, NEW S,
           \A k \in 0..n : (\A j \in 0..(k - 1) : j \in S) => k \in S
    PROVE  \A k \in 0..n : k \in S
<1> DEFINE Bad == {k \in 0..n : k \notin S}
<1>1. Bad = {}
  <2>1. ASSUME Bad # {}
        PROVE  FALSE
    <3>1. PICK k \in Bad : \A j \in Bad : k <= j
      <4>1. Bad \in SUBSET Nat
        OBVIOUS
      <4> QED
        BY <2>1, <4>1, LeastOf
    <3>2. \A j \in 0..(k - 1) : j \in S
      BY <3>1
    <3> QED
      BY <3>1, <3>2
  <2> QED
    BY <2>1
<1> QED
  BY <1>1

(* And what holds at a place if it holds behind it.                        *)
LEMMA Backward ==
    ASSUME NEW n \in Nat, NEW S,
           \A k \in 0..n : (\A j \in (k + 1)..n : j \in S) => k \in S
    PROVE  \A k \in 0..n : k \in S
<1> DEFINE T == {k \in 0..n : n - k \in S}
<1>1. \A k \in 0..n : (\A j \in 0..(k - 1) : j \in T) => k \in T
  <2>1. ASSUME NEW k \in 0..n, \A j \in 0..(k - 1) : j \in T
        PROVE  k \in T
    <3>1. n - k \in 0..n
      OBVIOUS
    <3>2. ASSUME NEW j \in (n - k + 1)..n
          PROVE  j \in S
      <4>1. n - j \in 0..(k - 1) /\ n - (n - j) = j
        OBVIOUS
      <4>2. n - j \in T
        BY <2>1, <4>1
      <4> QED
        BY <4>1, <4>2
    <3> QED
      BY <3>1, <3>2
  <2> QED
    BY <2>1
<1>2. \A k \in 0..n : k \in T
  <2> HIDE DEF T
  <2> QED
    BY <1>1, Forward
<1>3. ASSUME NEW k \in 0..n
      PROVE  k \in S
  <2>1. n - k \in 0..n /\ n - (n - k) = k
    OBVIOUS
  <2>2. n - k \in T
    BY <1>2, <2>1
  <2> QED
    BY <2>1, <2>2
<1> QED
  BY <1>3

-----------------------------------------------------------------------------
(***************************************************************************)
(* The checksum is a byte.                                                 *)
(***************************************************************************)

(* What CheckOf is recursively, as far as the k-th byte.                   *)
SumsUp(bytes, k, f) ==
    \A i \in 0..k : f[i] = IF i = 0 THEN 0 ELSE (f[i - 1] * 3 + bytes[i] + 1) % 7

LEMMA SomethingSumsUp ==
    ASSUME NEW bytes, NEW n \in Nat
    PROVE  \E f : f = [i \in 0..n |-> IF i = 0 THEN 0 ELSE (f[i - 1] * 3 + bytes[i] + 1) % 7]
<1> DEFINE S == {k \in 0..n : \E f : SumsUp(bytes, k, f)}
<1>1. ASSUME NEW k \in 0..n, \A j \in 0..(k - 1) : j \in S
      PROVE  k \in S
  <2>1. CASE k = 0
    <3> DEFINE f == [i \in {0} |-> 0]
    <3>1. SumsUp(bytes, 0, f)
      BY DEF SumsUp
    <3> QED
      BY <2>1, <3>1
  <2>2. CASE k # 0
    <3>1. k - 1 \in S /\ k - 1 \in 0..n
      BY <1>1, <2>2
    <3>2. PICK f : SumsUp(bytes, k - 1, f)
      BY <3>1
    <3> DEFINE v == (f[k - 1] * 3 + bytes[k] + 1) % 7
               h == [i \in 0..k |-> IF i = k THEN v ELSE f[i]]
    <3>3. SumsUp(bytes, k, h)
      <4>1. h[k] = v /\ h[k - 1] = f[k - 1]
        BY <2>2
      <4>2. \A i \in 0..(k - 1) : h[i] = f[i] /\ (i # 0 => h[i - 1] = f[i - 1])
        OBVIOUS
      <4>3. \A i \in 0..k : i = k \/ i \in 0..(k - 1)
        OBVIOUS
      <4> HIDE DEF h
      <4> QED
        BY <2>2, <3>2, <4>1, <4>2, <4>3 DEF SumsUp
    <3> QED
      BY <3>3
  <2> QED
    BY <2>1, <2>2
<1>2. n \in S
  <2>1. \A k \in 0..n : k \in S
    <3> HIDE DEF S
    <3> QED
      BY <1>1, Forward
  <2> QED
    BY <2>1
<1>3. PICK f : SumsUp(bytes, n, f)
  BY <1>2
<1> DEFINE g == [i \in 0..n |-> f[i]]
<1>4. \A i \in 0..n : g[i] = IF i = 0 THEN 0 ELSE (g[i - 1] * 3 + bytes[i] + 1) % 7
  <2>1. \A i \in 0..n : g[i] = f[i] /\ (i # 0 => g[i - 1] = f[i - 1])
    OBVIOUS
  <2> HIDE DEF g
  <2> QED
    BY <1>3, <2>1 DEF SumsUp
<1>5. g = [i \in 0..n |-> IF i = 0 THEN 0 ELSE (g[i - 1] * 3 + bytes[i] + 1) % 7]
  <2> DEFINE r == [i \in 0..n |-> IF i = 0 THEN 0 ELSE (g[i - 1] * 3 + bytes[i] + 1) % 7]
  <2>1. \A i \in 0..n : g[i] = r[i]
    BY <1>4
  <2>2. g = [i \in 0..n |-> g[i]] /\ r = [i \in 0..n |-> r[i]]
    OBVIOUS
  <2> HIDE DEF g, r
  <2>3. g = r
    BY <2>1, <2>2
  <2> QED
    BY <2>3 DEF r
<1> QED
  BY <1>5

LEMMA CheckIsAByte ==
    ASSUME NEW bytes \in Seq(Bytes)
    PROVE  CheckOf(bytes) \in Bytes
<1> DEFINE n == Len(bytes)
           Sum(f) == f = [i \in 0..n |-> IF i = 0 THEN 0 ELSE (f[i - 1] * 3 + bytes[i] + 1) % 7]
           sum == CHOOSE f : Sum(f)
<1>1. n \in Nat /\ \A i \in 1..n : bytes[i] \in Int
  BY DEF Bytes, SOH
<1>2. Sum(sum)
  <2>1. \E f : Sum(f)
    BY <1>1, SomethingSumsUp
  <2> HIDE DEF Sum
  <2> QED
    BY <2>1
<1>3. CheckOf(bytes) = sum[n]
  BY Zenon DEF CheckOf
<1> HIDE DEF sum
<1>4. \A i \in 0..n : sum[i] = IF i = 0 THEN 0 ELSE (sum[i - 1] * 3 + bytes[i] + 1) % 7
  BY <1>2
<1> DEFINE S == {k \in 0..n : sum[k] \in 0..6}
<1>5. ASSUME NEW k \in 0..n, \A j \in 0..(k - 1) : j \in S
      PROVE  k \in S
  <2>1. CASE k = 0
    BY <1>4, <2>1
  <2>2. CASE k # 0
    <3>1. k - 1 \in 0..(k - 1) /\ k \in 1..n
      BY <2>2
    <3>2. sum[k - 1] \in 0..6 /\ bytes[k] \in Int
      BY <1>1, <1>5, <3>1
    <3>3. sum[k - 1] * 3 + bytes[k] + 1 \in Int
      BY SMTT(60), <3>2
    <3>4. sum[k] = (sum[k - 1] * 3 + bytes[k] + 1) % 7
      BY <1>4, <2>2
    <3> QED
      BY SMTT(60), <3>3, <3>4
  <2> QED
    BY <2>1, <2>2
<1>6. n \in S
  <2>1. \A k \in 0..n : k \in S
    <3> HIDE DEF S
    <3> QED
      BY <1>1, <1>5, Forward
  <2> QED
    BY <1>1, <2>1
<1> QED
  BY <1>3, <1>6 DEF Bytes, SOH

-----------------------------------------------------------------------------
(***************************************************************************)
(* What is at a place of a buffer: a frame, the beginning of one, or       *)
(* neither; and the next place at which one can begin.                     *)
(***************************************************************************)

FrameAt(s, p) ==
    /\ p + 2 <= Len(s) /\ s[p + 1] = SOH /\ s[p + 2] <= MaxData
    /\ p + 4 + s[p + 2] <= Len(s)
    /\ s[p + 4 + s[p + 2]] = CheckOf(SubSeq(s, p + 2, p + 3 + s[p + 2]))

Size(s, p) == 4 + s[p + 2]

WaitsAt(s, p) ==
    /\ p < Len(s) /\ s[p + 1] = SOH
    /\ p + 1 = Len(s) \/ (s[p + 2] <= MaxData /\ Len(s) < p + 4 + s[p + 2])

IsNext(s, p, q) ==
    /\ q \in (p + 1)..Len(s)
    /\ q = Len(s) \/ s[q + 1] = SOH
    /\ \A i \in (p + 1)..(q - 1) : s[i + 1] # SOH

Rest(s, p) == SubSeq(s, p + 1, Len(s))

(* The rest of a buffer, byte by byte.                                     *)
LEMMA RestIs ==
    ASSUME NEW s \in Seq(Bytes), NEW p \in 0..Len(s)
    PROVE  /\ Rest(s, p) \in Seq(Bytes) /\ Len(Rest(s, p)) = Len(s) - p
           /\ \A i \in 1..(Len(s) - p) : Rest(s, p)[i] = s[p + i] /\ s[p + i] \in Bytes
           /\ Rest(s, p) = <<>> <=> p = Len(s)
<1>1. Len(s) \in Nat /\ p + 1 \in Int /\ Len(s) \in Int
  OBVIOUS
<1>2. \A i \in (p + 1)..Len(s) : s[i] \in Bytes
  <2>1. \A i \in (p + 1)..Len(s) : i \in 1..Len(s)
    BY <1>1
  <2> QED
    BY <2>1, ElementOfSeq
<1>3. /\ Rest(s, p) \in Seq(Bytes)
      /\ Len(Rest(s, p)) = IF p + 1 <= Len(s) THEN Len(s) - (p + 1) + 1 ELSE 0
      /\ \A i \in 1..(Len(s) - (p + 1) + 1) : Rest(s, p)[i] = s[p + 1 + i - 1]
  BY <1>1, <1>2, SubSeqProperties DEF Rest
<1>4. Len(Rest(s, p)) = Len(s) - p
  BY <1>1, <1>3
<1>5. \A i \in 1..(Len(s) - p) : Rest(s, p)[i] = s[p + i] /\ s[p + i] \in Bytes
  <2>1. ASSUME NEW i \in 1..(Len(s) - p)
        PROVE  Rest(s, p)[i] = s[p + i] /\ s[p + i] \in Bytes
    <3>1. i \in 1..(Len(s) - (p + 1) + 1) /\ p + 1 + i - 1 = p + i /\ p + i \in (p + 1)..Len(s)
      BY <1>1
    <3> QED
      BY <1>2, <1>3, <3>1
  <2> QED
    BY <2>1
<1>6. Rest(s, p) = <<>> <=> p = Len(s)
  BY <1>3, <1>4, EmptySeq
<1> QED
  BY <1>3, <1>4, <1>5, <1>6

(* What Decode makes of it, place by place.                                *)
LEMMA DecodeIs ==
    ASSUME NEW s \in Seq(Bytes), NEW p \in 0..(Len(s) - 1)
    PROVE  /\ Rest(s, p) # <<>>
           /\ Decode(Rest(s, p)).is = "frame" <=> FrameAt(s, p)
           /\ FrameAt(s, p) => /\ Decode(Rest(s, p)).consumed = Size(s, p)
                               /\ Size(s, p) \in 4..MaxFrame /\ p + Size(s, p) \in (p + 1)..Len(s)
           /\ Decode(Rest(s, p)).is = "incomplete" <=> WaitsAt(s, p)
           /\ WaitsAt(s, p) => ~FrameAt(s, p) /\ Len(s) - p < MaxFrame
<1> DEFINE r == Rest(s, p)
           n == Len(s) - p
<1>1. /\ Len(s) \in Nat /\ p \in 0..Len(s) /\ p < Len(s) /\ n >= 1
      /\ r # <<>> /\ Len(r) = n /\ r \in Seq(Bytes)
  BY RestIs
<1>2. \A i \in 1..n : r[i] = s[p + i] /\ s[p + i] \in 0..9
  BY <1>1, RestIs DEF Bytes, SOH
<1>3. r[1] = s[p + 1] /\ s[p + 1] \in 0..9
  BY <1>1, <1>2
<1>4. n > 1 => r[2] = s[p + 2] /\ s[p + 2] \in 0..9
  BY <1>1, <1>2
<1> DEFINE d == s[p + 2]
<1>5. ASSUME n > 1, d <= MaxData, ~(n < HeaderLen + r[2] + 1)
      PROVE  /\ r[HeaderLen + r[2] + 1] = s[p + 4 + d]
             /\ SubSeq(r, 2, HeaderLen + r[2]) = SubSeq(s, p + 2, p + 3 + d)
  <2>1. d \in 0..9 /\ r[2] = d /\ d + 4 \in 1..n
    BY SMTT(60), <1>1, <1>4, <1>5 DEF HeaderLen
  <2>2. r[d + 4] = s[p + (d + 4)]
    BY <1>2, <2>1
  <2>3. HeaderLen + r[2] + 1 = d + 4 /\ p + (d + 4) = p + 4 + d
    <3>1. p \in Int /\ d \in Int /\ r[2] = d
      BY <2>1
    <3> HIDE DEF r, d
    <3> QED
      BY <3>1 DEF HeaderLen
  <2>4. SubSeq(SubSeq(s, p + 1, Len(s)), 2, d + 3) = SubSeq(s, (p + 1) + 2 - 1, (p + 1) + (d + 3) - 1)
    <3>1. Len(s) \in Nat /\ p \in Nat /\ p < Len(s)
      BY <1>1
    <3>2. d \in Nat /\ d + 4 <= Len(s) - p
      BY <2>1
    <3>3. /\ p + 1 \in 1..Len(s) /\ Len(s) \in 1..Len(s)
          /\ 2 \in 1..(Len(s) - (p + 1) + 1) /\ d + 3 \in 1..(Len(s) - (p + 1) + 1)
      <4> HIDE DEF r, n, d
      <4> QED
        BY <3>1, <3>2
    <3> HIDE DEF d
    <3> QED
      BY SMTT(60), <3>3, SubSeqOfSubSeq
  <2>5. HeaderLen + r[2] = d + 3 /\ (p + 1) + 2 - 1 = p + 2 /\ (p + 1) + (d + 3) - 1 = p + 3 + d
    <3>1. p \in Int /\ d \in Int /\ r[2] = d
      BY <2>1
    <3> HIDE DEF r, d
    <3> QED
      BY <3>1 DEF HeaderLen
  <2> QED
    BY <2>2, <2>3, <2>4, <2>5 DEF Rest
<1> DEFINE check == CheckOf(SubSeq(r, 2, HeaderLen + r[2]))
           code == CheckOf(SubSeq(s, p + 2, p + 3 + d))
<1>6. Decode(r) =
        IF r[1] # SOH THEN [is |-> "unsynchronized"]
        ELSE IF n = 1 THEN [is |-> "incomplete"]
        ELSE IF r[2] > MaxData THEN [is |-> "overlong"]
        ELSE IF n < HeaderLen + r[2] + 1 THEN [is |-> "incomplete"]
        ELSE IF r[HeaderLen + r[2] + 1] # check THEN [is |-> "corrupt"]
        ELSE [is |-> "frame", consumed |-> HeaderLen + r[2] + 1]
  BY <1>1 DEF Decode
<1>7. FrameAt(s, p) <=> /\ n > 1 /\ s[p + 1] = SOH /\ d <= MaxData /\ ~(n < 4 + d)
                        /\ s[p + 4 + d] = code
  <2>1. n > 1 <=> p + 2 <= Len(s)
    BY <1>1
  <2>2. n > 1 => (p + 4 + d <= Len(s) <=> ~(n < 4 + d))
    <3>1. n > 1 => d \in 0..9
      BY <1>4
    <3> HIDE DEF d
    <3> QED
      BY SMTT(60), <1>1, <3>1
  <2>3. FrameAt(s, p) <=> /\ p + 2 <= Len(s) /\ s[p + 1] = SOH /\ d <= MaxData
                          /\ p + 4 + d <= Len(s) /\ s[p + 4 + d] = code
    BY Zenon DEF FrameAt
  <2> HIDE DEF n, d, code
  <2> QED
    BY <2>1, <2>2, <2>3
<1>8. WaitsAt(s, p) <=> s[p + 1] = SOH /\ (n = 1 \/ (n > 1 /\ d <= MaxData /\ n < 4 + d))
  <2>1. n > 1 => d \in 0..9
    BY <1>4
  <2>2. n = 1 <=> p + 1 = Len(s)
    BY <1>1
  <2>3. n > 1 => (Len(s) < p + 4 + d <=> n < 4 + d)
    <3>1. ASSUME n > 1
          PROVE  Len(s) < p + 4 + d <=> n < 4 + d
      <4>1. d \in 0..9 /\ p \in Int /\ Len(s) \in Int /\ n = Len(s) - p
        BY <1>1, <2>1, <3>1
      <4> HIDE DEF d, n
      <4> QED
        BY <4>1
    <3> QED
      BY <3>1
  <2>4. n = 1 \/ n > 1
    BY <1>1
  <2> QED
    BY <1>1, <2>1, <2>2, <2>3, <2>4 DEF WaitsAt
<1>9. n > 1 => HeaderLen + r[2] + 1 = 4 + d /\ r[2] = d /\ d \in 0..9
  BY SMTT(60), <1>4 DEF HeaderLen
<1>10. n > 1 /\ d <= MaxData /\ ~(n < 4 + d) => check = code /\ r[HeaderLen + r[2] + 1] = s[p + 4 + d]
  BY <1>5, <1>9
<1>11. n = 1 \/ n > 1
  BY <1>1
<1> HIDE DEF r, n, d, check, code
<1>12. CASE r[1] # SOH
  <2>1. Decode(r) = [is |-> "unsynchronized"] /\ ~FrameAt(s, p) /\ ~WaitsAt(s, p)
    BY <1>3, <1>6, <1>7, <1>8, <1>12, Zenon
  <2>2. Decode(r).is = "unsynchronized"
    BY <2>1
  <2> QED
    BY <1>1, <2>1, <2>2 DEF r
<1>13. CASE r[1] = SOH /\ n = 1
  <2>1. Decode(r).is = "incomplete" /\ ~FrameAt(s, p) /\ WaitsAt(s, p) /\ n < MaxFrame
    BY <1>3, <1>6, <1>7, <1>8, <1>13 DEF MaxFrame, HeaderLen, MaxData
  <2> QED
    BY <1>1, <2>1 DEF r, n
<1>14. CASE r[1] = SOH /\ n > 1 /\ d > MaxData
  <2>0. n # 1 /\ r[2] > MaxData /\ ~(d <= MaxData)
    BY <1>9, <1>14 DEF MaxData
  <2>1. Decode(r) = [is |-> "overlong"] /\ ~FrameAt(s, p) /\ ~WaitsAt(s, p)
    BY <1>6, <1>7, <1>8, <1>14, <2>0, Zenon
  <2>2. Decode(r).is = "overlong"
    BY <2>1
  <2> QED
    BY <1>1, <2>1, <2>2 DEF r
<1>15. CASE r[1] = SOH /\ n > 1 /\ d <= MaxData /\ n < 4 + d
  <2>0. n # 1 /\ ~(r[2] > MaxData) /\ n < HeaderLen + r[2] + 1
    BY <1>9, <1>15 DEF MaxData
  <2>1. Decode(r) = [is |-> "incomplete"] /\ ~FrameAt(s, p) /\ WaitsAt(s, p)
    BY <1>3, <1>6, <1>7, <1>8, <1>15, <2>0, Zenon
  <2>2. n < MaxFrame
    BY <1>1, <1>9, <1>15 DEF MaxFrame, HeaderLen, MaxData
  <2> QED
    BY <1>1, <2>1, <2>2 DEF r, n
<1>16. CASE r[1] = SOH /\ n > 1 /\ d <= MaxData /\ ~(n < 4 + d)
  <2>0. n # 1 /\ ~(r[2] > MaxData) /\ ~(n < HeaderLen + r[2] + 1) /\ HeaderLen + r[2] + 1 = 4 + d
    BY <1>9, <1>16 DEF MaxData
  <2>1. ~WaitsAt(s, p)
    BY <1>8, <1>16, <2>0
  <2>2. 4 + d \in 4..MaxFrame /\ p + (4 + d) \in (p + 1)..Len(s)
    <3>1. d \in 0..9
      BY <1>9, <1>16
    <3> HIDE DEF d
    <3> QED
      BY <1>1, <1>16, <3>1 DEF MaxFrame, HeaderLen, MaxData, n
  <2>3. CASE s[p + 4 + d] = code
    <3>1. FrameAt(s, p)
      BY <1>3, <1>7, <1>16, <2>3
    <3>2. Decode(r) = [is |-> "frame", consumed |-> 4 + d]
      BY <1>6, <1>10, <1>16, <2>0, <2>3
    <3>3. Decode(r).is = "frame" /\ Decode(r).consumed = 4 + d
      BY <3>2
    <3> QED
      BY <1>1, <2>1, <2>2, <3>1, <3>3 DEF r, d, Size
  <2>4. CASE s[p + 4 + d] # code
    <3>1. ~FrameAt(s, p)
      BY <1>7, <2>4
    <3>2. Decode(r) = [is |-> "corrupt"]
      BY <1>6, <1>10, <1>16, <2>0, <2>4, Zenon
    <3>3. Decode(r).is = "corrupt"
      BY <3>2
    <3> QED
      BY <1>1, <2>1, <3>1, <3>3 DEF r
  <2> QED
    BY <2>3, <2>4
<1>17. d <= MaxData \/ d > MaxData \/ n = 1
  BY <1>9, <1>11 DEF MaxData
<1> QED
  BY <1>11, <1>12, <1>13, <1>14, <1>15, <1>16, <1>17

(* The next place at which a frame can begin.                              *)
LEMMA NextIs ==
    ASSUME NEW s \in Seq(Bytes), NEW p \in 0..(Len(s) - 1)
    PROVE  IsNext(s, p, p + Resynchronize(Rest(s, p)))
<1> DEFINE r == Rest(s, p)
           n == Len(s) - p
           starts == {i \in 2..Len(r) : r[i] = SOH}
           first == CHOOSE i \in starts : \A j \in starts : i <= j
<1>1. Len(s) \in Nat /\ n \in Nat /\ n >= 1 /\ Len(r) = n /\ p \in 0..Len(s)
  BY RestIs
<1>2. \A i \in 1..n : r[i] = s[p + i]
  BY <1>1, RestIs
<1>3. Resynchronize(r) = IF starts = {} THEN n ELSE first - 1
  BY <1>1 DEF Resynchronize
<1>4. CASE starts = {}
  <2>1. p + Resynchronize(r) = Len(s)
    BY <1>1, <1>3, <1>4
  <2>2. ASSUME NEW i \in (p + 1)..(Len(s) - 1), s[i + 1] = SOH
        PROVE  FALSE
    <3>1. i + 1 - p \in 2..n /\ p + (i + 1 - p) = i + 1 /\ i + 1 - p \in 1..n
      BY <1>1
    <3>2. r[i + 1 - p] = s[i + 1]
      BY <1>2, <3>1
    <3>3. i + 1 - p \in starts
      BY <1>1, <2>2, <3>1, <3>2
    <3> QED
      BY <1>4, <3>3
  <2>3. Len(s) \in (p + 1)..Len(s)
    BY <1>1
  <2>4. IsNext(s, p, Len(s))
    BY <2>2, <2>3 DEF IsNext
  <2> QED
    BY <2>1, <2>4
<1>5. CASE starts # {}
  <2>1. first \in starts /\ \A j \in starts : first <= j
    <3>1. starts \in SUBSET Nat
      OBVIOUS
    <3> HIDE DEF starts
    <3>2. \E i \in starts : \A j \in starts : i <= j
      BY <1>5, <3>1, LeastOf
    <3> QED
      BY <3>2
  <2>2. first \in 2..n /\ r[first] = SOH
    BY <1>1, <2>1
  <2> DEFINE q == p + (first - 1)
  <2>3. p + Resynchronize(r) = q
    BY <1>3, <1>5
  <2> HIDE DEF first
  <2>4. q \in (p + 1)..Len(s) /\ q + 1 = p + first /\ first \in 1..n
    BY <1>1, <2>2
  <2>5. s[q + 1] = SOH
    BY <1>2, <2>2, <2>4
  <2>6. ASSUME NEW i \in (p + 1)..(q - 1), s[i + 1] = SOH
        PROVE  FALSE
    <3>1. i + 1 - p \in 2..n /\ p + (i + 1 - p) = i + 1 /\ i + 1 - p \in 1..n /\ i + 1 - p < first
      BY <1>1, <2>2
    <3>2. r[i + 1 - p] = s[i + 1]
      BY <1>2, <3>1
    <3>3. i + 1 - p \in starts
      BY <1>1, <2>6, <3>1, <3>2
    <3>4. first <= i + 1 - p
      BY <2>1, <3>3
    <3> QED
      BY <2>2, <3>1, <3>4
  <2> HIDE DEF q
  <2>7. IsNext(s, p, q)
    BY <2>4, <2>5, <2>6 DEF IsNext
  <2> QED
    BY <2>3, <2>7
<1> QED
  BY <1>4, <1>5

LEMMA OneNext ==
    ASSUME NEW s, NEW p \in Int, NEW q, NEW z, Len(s) \in Nat, IsNext(s, p, q), IsNext(s, p, z)
    PROVE  q = z
<1>1. q \in (p + 1)..Len(s) /\ z \in (p + 1)..Len(s)
  BY DEF IsNext
<1>2. ~(q < z)
  <2>1. ASSUME q < z
        PROVE  FALSE
    <3>1. q \in (p + 1)..(z - 1) /\ q # Len(s)
      BY <1>1, <2>1
    <3> QED
      BY <3>1 DEF IsNext
  <2> QED
    BY <2>1
<1>3. ~(z < q)
  <2>1. ASSUME z < q
        PROVE  FALSE
    <3>1. z \in (p + 1)..(q - 1) /\ z # Len(s)
      BY <1>1, <2>1
    <3> QED
      BY <3>1 DEF IsNext
  <2> QED
    BY <2>1
<1> QED
  BY <1>1, <1>2, <1>3

-----------------------------------------------------------------------------
(***************************************************************************)
(* The loop of the scan, from a place on.                                  *)
(***************************************************************************)

(* One turn of it.                                                         *)
Turn(s, base, giveUp, f, p) ==
    LET rest == Rest(s, p)
        found == Decode(rest)
    IN  CASE rest = <<>> -> [frames |-> <<>>, at |-> p]
          [] rest # <<>> /\ found.is = "frame" ->
                LET after == f[p + found.consumed] IN
                [after EXCEPT !.frames = <<[from |-> base + p, to |-> base + p + found.consumed]>> \o @]
          [] rest # <<>> /\ found.is = "incomplete" /\ ~giveUp -> [frames |-> <<>>, at |-> p]
          [] OTHER -> f[p + Resynchronize(rest)]

(* What it adds to what comes after a frame.                               *)
Found(s, base, p, after) ==
    [after EXCEPT !.frames = <<[from |-> base + p, to |-> base + p + Size(s, p)]>> \o @]

LEMMA TurnIs ==
    ASSUME NEW s \in Seq(Bytes), NEW base, NEW giveUp \in BOOLEAN, NEW f, NEW p \in 0..Len(s)
    PROVE  /\ p = Len(s) => Turn(s, base, giveUp, f, p) = [frames |-> <<>>, at |-> p]
           /\ p # Len(s) /\ FrameAt(s, p) =>
                Turn(s, base, giveUp, f, p) = Found(s, base, p, f[p + Size(s, p)])
           /\ p # Len(s) /\ WaitsAt(s, p) /\ ~giveUp =>
                Turn(s, base, giveUp, f, p) = [frames |-> <<>>, at |-> p]
           /\ p # Len(s) /\ ~FrameAt(s, p) /\ ~(WaitsAt(s, p) /\ ~giveUp) =>
                \E q : IsNext(s, p, q) /\ Turn(s, base, giveUp, f, p) = f[q]
<1> DEFINE r == Rest(s, p)
<1>1. CASE p = Len(s)
  <2>1. r = <<>>
    BY <1>1, RestIs
  <2> QED
    BY <1>1, <2>1 DEF Turn
<1>2. CASE p # Len(s)
  <2>1. p \in 0..(Len(s) - 1)
    BY <1>2
  <2>2. r # <<>> /\ (Decode(r).is = "frame" <=> FrameAt(s, p))
        /\ (FrameAt(s, p) => Decode(r).consumed = Size(s, p))
        /\ (Decode(r).is = "incomplete" <=> WaitsAt(s, p)) /\ (WaitsAt(s, p) => ~FrameAt(s, p))
    BY <2>1, DecodeIs
  <2>3. IsNext(s, p, p + Resynchronize(r))
    BY <2>1, NextIs
  <2> DEFINE t == Turn(s, base, giveUp, f, p)
  <2>4. CASE FrameAt(s, p)
    <3>1. t = Found(s, base, p, f[p + Size(s, p)])
      BY <2>2, <2>4 DEF Turn, Found
    <3> QED
      BY <1>2, <2>2, <2>4, <3>1
  <2>5. CASE WaitsAt(s, p) /\ ~giveUp
    <3>1. t = [frames |-> <<>>, at |-> p]
      BY <2>2, <2>5 DEF Turn
    <3> QED
      BY <1>2, <2>2, <2>5, <3>1
  <2>6. CASE ~FrameAt(s, p) /\ ~(WaitsAt(s, p) /\ ~giveUp)
    <3>1. t = f[p + Resynchronize(r)]
      BY <2>2, <2>6 DEF Turn
    <3> QED
      BY <1>2, <2>3, <2>6, <3>1
  <2> QED
    BY <2>4, <2>5, <2>6
<1> QED
  BY <1>1, <1>2

(* A turn looks only at what comes after its place.                        *)
LEMMA TurnLooksAhead ==
    ASSUME NEW s \in Seq(Bytes), NEW base, NEW giveUp \in BOOLEAN, NEW f, NEW h, NEW p \in 0..Len(s),
           \A q \in (p + 1)..Len(s) : f[q] = h[q]
    PROVE  Turn(s, base, giveUp, f, p) = Turn(s, base, giveUp, h, p)
<1> DEFINE r == Rest(s, p)
<1>1. CASE p = Len(s)
  BY <1>1, TurnIs
<1>2. CASE p # Len(s)
  <2>1. p \in 0..(Len(s) - 1)
    BY <1>2
  <2>2. CASE FrameAt(s, p)
    <3>1. p + Size(s, p) \in (p + 1)..Len(s)
      BY <2>1, <2>2, DecodeIs
    <3>2. f[p + Size(s, p)] = h[p + Size(s, p)]
      BY <3>1
    <3> QED
      BY <1>2, <2>2, <3>2, TurnIs
  <2>3. CASE WaitsAt(s, p) /\ ~giveUp
    BY <1>2, <2>3, TurnIs
  <2>4. CASE ~FrameAt(s, p) /\ ~(WaitsAt(s, p) /\ ~giveUp)
    <3>1. PICK q : IsNext(s, p, q) /\ Turn(s, base, giveUp, f, p) = f[q]
      BY <1>2, <2>4, TurnIs
    <3>2. PICK z : IsNext(s, p, z) /\ Turn(s, base, giveUp, h, p) = h[z]
      BY <1>2, <2>4, TurnIs
    <3>3. q = z /\ q \in (p + 1)..Len(s)
      <4>1. Len(s) \in Nat /\ p \in Int
        OBVIOUS
      <4> QED
        BY <3>1, <3>2, <4>1, OneNext DEF IsNext
    <3> QED
      BY <3>1, <3>2, <3>3
  <2> QED
    BY <2>2, <2>3, <2>4
<1> QED
  BY <1>1, <1>2

LEMMA SomethingScans ==
    ASSUME NEW s \in Seq(Bytes), NEW base, NEW giveUp \in BOOLEAN
    PROVE  \E f : f = [p \in 0..Len(s) |-> Turn(s, base, giveUp, f, p)]
<1> DEFINE n == Len(s)
           From(k, f) == \A p \in k..n : f[p] = Turn(s, base, giveUp, f, p)
           S == {k \in 0..n : \E f : From(k, f)}
<1>0. n \in Nat
  OBVIOUS
<1>1. ASSUME NEW k \in 0..n, \A j \in (k + 1)..n : j \in S
      PROVE  k \in S
  <2>1. PICK f : \A p \in (k + 1)..n : f[p] = Turn(s, base, giveUp, f, p)
    <3>1. CASE k = n
      BY <3>1
    <3>2. CASE k # n
      <4>1. k + 1 \in (k + 1)..n
        BY <3>2
      <4> QED
        BY <1>1, <4>1
    <3> QED
      BY <3>1, <3>2
  <2> DEFINE v == Turn(s, base, giveUp, f, k)
             h == [p \in 0..n |-> IF p = k THEN v ELSE f[p]]
  <2>2. \A p \in 0..n : h[p] = IF p = k THEN v ELSE f[p]
    OBVIOUS
  <2> HIDE DEF h
  <2>3. ASSUME NEW p \in k..n
        PROVE  Turn(s, base, giveUp, h, p) = Turn(s, base, giveUp, f, p)
    <3>1. \A q \in (p + 1)..n : h[q] = f[q]
      <4>1. \A q \in (p + 1)..n : q \in 0..n /\ q # k
        BY <2>3
      <4> QED
        BY <2>2, <4>1
    <3>2. p \in 0..n
      BY <2>3
    <3> QED
      BY <3>1, <3>2, TurnLooksAhead
  <2>4. ASSUME NEW p \in k..n
        PROVE  h[p] = Turn(s, base, giveUp, h, p)
    <3>1. p \in 0..n /\ (p = k \/ p \in (k + 1)..n)
      BY <2>4
    <3> QED
      BY <2>1, <2>2, <2>3, <3>1
  <2> HIDE DEF v
  <2> QED
    BY <2>4
<1>2. 0 \in S
  <2>1. \A k \in 0..n : k \in S
    <3> HIDE DEF S, n
    <3> QED
      BY <1>0, <1>1, Backward
  <2> QED
    BY <2>1
<1>3. PICK f : From(0, f)
  BY <1>2
<1> DEFINE g == [p \in 0..n |-> f[p]]
<1>4. \A p \in 0..n : g[p] = Turn(s, base, giveUp, g, p)
  <2>1. ASSUME NEW p \in 0..n
        PROVE  g[p] = Turn(s, base, giveUp, g, p)
    <3>1. \A q \in (p + 1)..n : f[q] = g[q]
      OBVIOUS
    <3>2. Turn(s, base, giveUp, f, p) = Turn(s, base, giveUp, g, p)
      <4> HIDE DEF g
      <4> QED
        BY <3>1, TurnLooksAhead
    <3> QED
      BY <1>3, <3>2
  <2> QED
    BY <2>1
<1>5. g = [p \in 0..n |-> Turn(s, base, giveUp, g, p)]
  <2> DEFINE r == [p \in 0..n |-> Turn(s, base, giveUp, g, p)]
  <2>1. g = [p \in 0..n |-> g[p]] /\ r = [p \in 0..n |-> r[p]]
    OBVIOUS
  <2>2. \A p \in 0..n : r[p] = g[p]
    BY <1>4
  <2> HIDE DEF g, r
  <2>3. g = r
    BY <2>1, <2>2
  <2> QED
    BY <2>3 DEF r
<1> QED
  BY <1>5

(* What the scan comes to, place by place.                                 *)
LEMMA ScanIs ==
    ASSUME NEW s \in Seq(Bytes), NEW base, NEW giveUp \in BOOLEAN
    PROVE  \A p \in 0..Len(s) :
              ScanFrom(s, base, giveUp)[p] = Turn(s, base, giveUp, ScanFrom(s, base, giveUp), p)
<1> DEFINE Good(f) == f = [p \in 0..Len(s) |-> Turn(s, base, giveUp, f, p)]
           scan == ScanFrom(s, base, giveUp)
<1>1. scan = CHOOSE f : Good(f)
  BY Zenon DEF ScanFrom, Turn, Rest
<1>2. Good(scan)
  <2>1. \E f : Good(f)
    BY SomethingScans
  <2> HIDE DEF Good, scan
  <2> QED
    BY <1>1, <2>1
<1> HIDE DEF scan
<1>3. \A p \in 0..Len(s) : scan[p] = Turn(s, base, giveUp, scan, p)
  BY <1>2
<1> QED
  BY <1>3 DEF scan

(* A place at which a scan stops, and one it leaves for the next.  At the  *)
(* others it takes a frame.                                                *)
Stops(s, p, giveUp) == p = Len(s) \/ (WaitsAt(s, p) /\ ~giveUp)

Skips(s, p, giveUp) == p < Len(s) /\ ~FrameAt(s, p) /\ ~(WaitsAt(s, p) /\ ~giveUp)

LEMMA SomeNext ==
    ASSUME NEW s \in Seq(Bytes), NEW p \in 0..Len(s), p < Len(s)
    PROVE  \E q \in (p + 1)..Len(s) : IsNext(s, p, q)
<1>1. p \in 0..(Len(s) - 1)
  OBVIOUS
<1>2. IsNext(s, p, p + Resynchronize(Rest(s, p)))
  BY <1>1, NextIs
<1> QED
  BY <1>2 DEF IsNext

LEMMA ScanStops ==
    ASSUME NEW s \in Seq(Bytes), NEW base, NEW giveUp \in BOOLEAN, NEW p \in 0..Len(s),
           NEW scan, scan = ScanFrom(s, base, giveUp), Stops(s, p, giveUp)
    PROVE  scan[p] = [frames |-> <<>>, at |-> p]
<1>1. scan[p] = Turn(s, base, giveUp, scan, p)
  BY ScanIs
<1>2. p = Len(s) \/ (p # Len(s) /\ WaitsAt(s, p) /\ ~giveUp)
  BY DEF Stops
<1> QED
  BY <1>1, <1>2, TurnIs

LEMMA FrameFits ==
    ASSUME NEW s \in Seq(Bytes), NEW p \in 0..Len(s), FrameAt(s, p)
    PROVE  p < Len(s) /\ Size(s, p) \in 4..12 /\ p + Size(s, p) \in (p + 4)..Len(s)
<1>1. p \in 0..(Len(s) - 1)
  BY DEF FrameAt
<1>2. MaxFrame = 12
  BY DEF MaxFrame, HeaderLen, MaxData
<1>3. Size(s, p) \in 4..12 /\ p + Size(s, p) \in (p + 1)..Len(s)
  BY <1>1, <1>2, DecodeIs
<1> QED
  BY SMTT(60), <1>1, <1>3

LEMMA ScanTakes ==
    ASSUME NEW s \in Seq(Bytes), NEW base, NEW giveUp \in BOOLEAN, NEW p \in 0..Len(s),
           NEW scan, scan = ScanFrom(s, base, giveUp), FrameAt(s, p)
    PROVE  scan[p] = Found(s, base, p, scan[p + Size(s, p)])
<1>1. scan[p] = Turn(s, base, giveUp, scan, p)
  BY ScanIs
<1>2. p # Len(s)
  BY FrameFits
<1> QED
  BY <1>1, <1>2, TurnIs

LEMMA ScanSkips ==
    ASSUME NEW s \in Seq(Bytes), NEW base, NEW giveUp \in BOOLEAN, NEW p \in 0..Len(s),
           NEW scan, scan = ScanFrom(s, base, giveUp), Skips(s, p, giveUp),
           NEW q, IsNext(s, p, q)
    PROVE  scan[p] = scan[q]
<1>1. scan[p] = Turn(s, base, giveUp, scan, p)
  BY ScanIs
<1>2. p # Len(s) /\ ~FrameAt(s, p) /\ ~(WaitsAt(s, p) /\ ~giveUp)
  BY DEF Skips
<1>3. \E z : IsNext(s, p, z) /\ Turn(s, base, giveUp, scan, p) = scan[z]
  BY <1>2, TurnIs
<1>4. PICK z : IsNext(s, p, z) /\ scan[p] = scan[z]
  BY <1>1, <1>3
<1>5. Len(s) \in Nat /\ p \in Int
  OBVIOUS
<1>6. q = z
  BY <1>4, <1>5, OneNext
<1> QED
  BY <1>4, <1>6

(* What holds where a scan stops, and at a place if it holds at the one    *)
(* the scan goes to from there, holds everywhere.                          *)
LEMMA Scanning ==
    ASSUME NEW s \in Seq(Bytes), NEW giveUp \in BOOLEAN, NEW S,
           \A p \in 0..Len(s) : Stops(s, p, giveUp) => p \in S,
           \A p \in 0..Len(s) : FrameAt(s, p) /\ p + Size(s, p) \in S => p \in S,
           \A p \in 0..Len(s) : \A q \in (p + 1)..Len(s) :
              Skips(s, p, giveUp) /\ IsNext(s, p, q) /\ q \in S => p \in S
    PROVE  \A p \in 0..Len(s) : p \in S
<1>0. Len(s) \in Nat
  OBVIOUS
<1>1. ASSUME NEW p \in 0..Len(s), \A q \in (p + 1)..Len(s) : q \in S
      PROVE  p \in S
  <2>1. CASE Stops(s, p, giveUp)
    BY <2>1
  <2>2. CASE FrameAt(s, p)
    <3>1. p + Size(s, p) \in (p + 1)..Len(s)
      <4>1. p + Size(s, p) \in (p + 4)..Len(s)
        BY <2>2, FrameFits
      <4> QED
        BY <4>1
    <3> QED
      BY <1>1, <2>2, <3>1
  <2>3. CASE Skips(s, p, giveUp)
    <3>1. p < Len(s)
      BY <2>3 DEF Skips
    <3>2. PICK q \in (p + 1)..Len(s) : IsNext(s, p, q)
      BY <3>1, SomeNext
    <3> QED
      BY <1>1, <2>3, <3>2
  <2> QED
    BY <2>1, <2>2, <2>3 DEF Stops, Skips
<1> QED
  BY <1>0, <1>1, Backward

(* What is handed over, and how a place of it is added.                    *)
Handed == [from : Nat, to : Nat]

Place(s, base, p) == [from |-> base + p, to |-> base + p + Size(s, p)]

LEMMA PlaceIs ==
    ASSUME NEW s, NEW base \in Nat, NEW p \in Nat, Size(s, p) \in Nat
    PROVE  Place(s, base, p) \in Handed
BY DEF Place, Handed

Outcome == [frames : Seq(Handed), at : Nat]

(* One more frame, before what else there is.                              *)
Adds(one, more, others) == more.frames = <<one>> \o others.frames /\ more.at = others.at

LEMMA FoundIs ==
    ASSUME NEW s, NEW base, NEW p, Place(s, base, p) \in Handed, NEW after, after \in Outcome
    PROVE  /\ Found(s, base, p, after) \in Outcome
           /\ Adds(Place(s, base, p), Found(s, base, p, after), after)
<1>1. after \in [frames : Seq(Handed), at : Nat]
  BY DEF Outcome
<1>2. <<Place(s, base, p)>> \o after.frames \in Seq(Handed)
  <2>1. <<Place(s, base, p)>> \in Seq(Handed)
    OBVIOUS
  <2> QED
    BY <1>1, <2>1, ConcatProperties
<1>3. Found(s, base, p, after) = [after EXCEPT !.frames = <<Place(s, base, p)>> \o after.frames]
  BY DEF Found, Place
<1>4. Found(s, base, p, after) \in Outcome
  BY <1>1, <1>2, <1>3 DEF Outcome
<1>5. Adds(Place(s, base, p), Found(s, base, p, after), after)
  BY <1>1, <1>2, <1>3 DEF Adds
<1> QED
  BY <1>4, <1>5

(* The types of a scan.                                                    *)
LEMMA ScanType ==
    ASSUME NEW s \in Seq(Bytes), NEW base \in Nat, NEW giveUp \in BOOLEAN,
           NEW scan, scan = ScanFrom(s, base, giveUp)
    PROVE  \A p \in 0..Len(s) : scan[p] \in Outcome /\ scan[p].at \in p..Len(s)
<1> DEFINE S == {p \in 0..Len(s) : scan[p] \in Outcome /\ scan[p].at \in p..Len(s)}
<1>1. ASSUME NEW p \in 0..Len(s), Stops(s, p, giveUp)
      PROVE  p \in S
  <2>1. scan[p] = [frames |-> <<>>, at |-> p]
    BY <1>1, ScanStops
  <2>2. <<>> \in Seq(Handed) /\ p \in p..Len(s) /\ p \in Nat
    OBVIOUS
  <2>3. [frames |-> <<>>, at |-> p] \in Outcome
    BY <2>2 DEF Outcome
  <2>4. scan[p].at = p
    BY <2>1
  <2> QED
    BY <2>1, <2>2, <2>3, <2>4, Zenon
<1>2. ASSUME NEW p \in 0..Len(s), FrameAt(s, p), p + Size(s, p) \in S
      PROVE  p \in S
  <2>1. Size(s, p) \in Nat /\ p \in Nat /\ p + Size(s, p) \in p..Len(s)
    <3>1. Size(s, p) \in 4..12 /\ p + Size(s, p) \in (p + 4)..Len(s)
      BY <1>2, FrameFits
    <3> QED
      BY <3>1
  <2>2. scan[p] = Found(s, base, p, scan[p + Size(s, p)])
    BY <1>2, ScanTakes
  <2>3. scan[p + Size(s, p)] \in Outcome /\ scan[p + Size(s, p)].at \in (p + Size(s, p))..Len(s)
    BY <1>2
  <2>4. Place(s, base, p) \in Handed
    BY <2>1, PlaceIs
  <2>5. scan[p] \in Outcome /\ Adds(Place(s, base, p), scan[p], scan[p + Size(s, p)])
    BY <2>2, <2>3, <2>4, FoundIs
  <2>6. scan[p].at \in p..Len(s)
    BY <2>1, <2>3, <2>5 DEF Adds
  <2> QED
    BY <2>5, <2>6
<1>3. ASSUME NEW p \in 0..Len(s), NEW q \in (p + 1)..Len(s), Skips(s, p, giveUp), IsNext(s, p, q), q \in S
      PROVE  p \in S
  <2>1. scan[p] = scan[q]
    BY <1>3, ScanSkips
  <2>2. scan[q] \in Outcome /\ scan[q].at \in q..Len(s)
    BY <1>3
  <2>3. q..Len(s) \subseteq p..Len(s)
    OBVIOUS
  <2> QED
    BY <2>1, <2>2, <2>3
<1>4. \A p \in 0..Len(s) : p \in S
  <2> HIDE DEF S
  <2> QED
    BY <1>1, <1>2, <1>3, Scanning
<1> QED
  BY <1>4

LEMMA ScanFields ==
    ASSUME NEW s \in Seq(Bytes), NEW base \in Nat, NEW giveUp \in BOOLEAN,
           NEW scan, scan = ScanFrom(s, base, giveUp), NEW p \in 0..Len(s)
    PROVE  /\ scan[p].frames \in Seq(Handed)
           /\ scan[p].at \in p..Len(s) /\ scan[p].at \in 0..Len(s)
<1>1. scan[p] \in Outcome /\ scan[p].at \in p..Len(s)
  BY ScanType
<1>2. scan[p] \in [frames : Seq(Handed), at : Nat]
  BY <1>1 DEF Outcome
<1> QED
  BY <1>1, <1>2

(* A frame taken, field by field.                                          *)
LEMMA ScanAdds ==
    ASSUME NEW s \in Seq(Bytes), NEW base \in Nat, NEW giveUp \in BOOLEAN, NEW p \in 0..Len(s),
           NEW scan, scan = ScanFrom(s, base, giveUp), FrameAt(s, p)
    PROVE  /\ Adds(Place(s, base, p), scan[p], scan[p + Size(s, p)])
           /\ Place(s, base, p) \in Handed /\ p + Size(s, p) \in (p + 4)..Len(s)
<1>1. Size(s, p) \in Nat /\ p \in Nat /\ p + Size(s, p) \in 0..Len(s) /\ p + Size(s, p) \in (p + 4)..Len(s)
  <2>1. Size(s, p) \in 4..12 /\ p + Size(s, p) \in (p + 4)..Len(s)
    BY FrameFits
  <2> QED
    BY <2>1
<1>2. scan[p] = Found(s, base, p, scan[p + Size(s, p)])
  BY ScanTakes
<1>3. scan[p + Size(s, p)] \in Outcome
  BY <1>1, ScanType
<1>4. Place(s, base, p) \in Handed
  BY <1>1, PlaceIs
<1> QED
  BY <1>1, <1>2, <1>3, <1>4, FoundIs

(* It ends where a scan stops.                                             *)
LEMMA ScanEnds ==
    ASSUME NEW s \in Seq(Bytes), NEW base \in Nat, NEW giveUp \in BOOLEAN,
           NEW scan, scan = ScanFrom(s, base, giveUp)
    PROVE  \A p \in 0..Len(s) : Stops(s, scan[p].at, giveUp)
<1> DEFINE S == {p \in 0..Len(s) : Stops(s, scan[p].at, giveUp)}
<1>1. ASSUME NEW p \in 0..Len(s), Stops(s, p, giveUp)
      PROVE  p \in S
  <2>1. scan[p] = [frames |-> <<>>, at |-> p]
    BY <1>1, ScanStops
  <2>2. scan[p].at = p
    BY <2>1
  <2> QED
    BY <1>1, <2>2
<1>2. ASSUME NEW p \in 0..Len(s), FrameAt(s, p), p + Size(s, p) \in S
      PROVE  p \in S
  <2>1. Adds(Place(s, base, p), scan[p], scan[p + Size(s, p)])
    BY <1>2, ScanAdds
  <2>2. scan[p].at = scan[p + Size(s, p)].at
    BY <2>1 DEF Adds
  <2> QED
    BY <1>2, <2>2
<1>3. ASSUME NEW p \in 0..Len(s), NEW q \in (p + 1)..Len(s), Skips(s, p, giveUp), IsNext(s, p, q), q \in S
      PROVE  p \in S
  <2>1. scan[p] = scan[q]
    BY <1>3, ScanSkips
  <2> QED
    BY <1>3, <2>1
<1>4. \A p \in 0..Len(s) : p \in S
  <2> HIDE DEF S
  <2> QED
    BY <1>1, <1>2, <1>3, Scanning
<1> QED
  BY <1>4

(* Frames one after another, between two places.                           *)
InOrder(fs) == \A i, j \in 1..Len(fs) : i < j => fs[i].to <= fs[j].from

Tidy(fs, low, high) ==
    /\ fs \in Seq(Handed) /\ low \in Nat /\ high \in Nat /\ low <= high
    /\ \A i \in 1..Len(fs) : low <= fs[i].from /\ fs[i].from < fs[i].to /\ fs[i].to <= high
    /\ InOrder(fs)

LEMMA HandedAt ==
    ASSUME NEW fs \in Seq(Handed)
    PROVE  \A i \in 1..Len(fs) : fs[i] \in Handed /\ fs[i].from \in Nat /\ fs[i].to \in Nat
<1>1. \A i \in 1..Len(fs) : fs[i] \in Handed
  BY ElementOfSeq
<1>2. \A f \in Handed : f.from \in Nat /\ f.to \in Nat
  BY DEF Handed
<1> QED
  BY <1>1, <1>2

LEMMA TidyNone ==
    ASSUME NEW low \in Nat, NEW high \in Nat, low <= high
    PROVE  Tidy(<<>>, low, high)
BY DEF Tidy, InOrder

LEMMA TidyOne ==
    ASSUME NEW one \in Handed, one.from < one.to
    PROVE  Tidy(<<one>>, one.from, one.to)
<1>1. one.from \in Nat /\ one.to \in Nat
  BY DEF Handed
<1>2. <<one>> \in Seq(Handed) /\ Len(<<one>>) = 1 /\ <<one>>[1] = one
  OBVIOUS
<1> DEFINE fs == <<one>>
<1> HIDE DEF fs
<1>3. fs \in Seq(Handed) /\ Len(fs) = 1 /\ fs[1] = one
  BY <1>2 DEF fs
<1>4. \A i, j \in 1..Len(fs) : ~(i < j) /\ i = 1
  BY <1>3
<1>5. Tidy(fs, one.from, one.to)
  BY <1>1, <1>3, <1>4 DEF Tidy, InOrder
<1> QED
  BY <1>5 DEF fs

LEMMA TidyBoth ==
    ASSUME NEW fs, NEW gs, NEW low, NEW mid, NEW high, Tidy(fs, low, mid), Tidy(gs, mid, high)
    PROVE  Tidy(fs \o gs, low, high)
<1> DEFINE hs == fs \o gs
           m == Len(fs)
<1>1. /\ fs \in Seq(Handed) /\ gs \in Seq(Handed)
      /\ low \in Nat /\ mid \in Nat /\ high \in Nat /\ low <= mid /\ mid <= high
      /\ \A i \in 1..Len(fs) : low <= fs[i].from /\ fs[i].from < fs[i].to /\ fs[i].to <= mid
      /\ \A i \in 1..Len(gs) : mid <= gs[i].from /\ gs[i].from < gs[i].to /\ gs[i].to <= high
  BY DEF Tidy
<1>2. /\ hs \in Seq(Handed) /\ Len(hs) = m + Len(gs) /\ m \in Nat /\ Len(gs) \in Nat
      /\ \A i \in 1..(m + Len(gs)) : hs[i] = IF i <= m THEN fs[i] ELSE gs[i - m]
  BY <1>1, ConcatProperties
<1>3. \A i \in 1..Len(fs) : fs[i].from \in Nat /\ fs[i].to \in Nat
  BY <1>1, HandedAt
<1>4. \A i \in 1..Len(gs) : gs[i].from \in Nat /\ gs[i].to \in Nat
  BY <1>1, HandedAt
<1> HIDE DEF hs, m
<1>5. \A i \in 1..Len(hs) : \/ i \in 1..Len(fs) /\ hs[i] = fs[i] /\ i <= m
                            \/ i - m \in 1..Len(gs) /\ hs[i] = gs[i - m] /\ i > m
  BY <1>2 DEF m
<1>6. \A i \in 1..Len(hs) : low <= hs[i].from /\ hs[i].from < hs[i].to /\ hs[i].to <= high
  BY SMTT(60), <1>1, <1>3, <1>4, <1>5
<1>7. ASSUME NEW i \in 1..Len(hs), NEW j \in 1..Len(hs), i < j
      PROVE  hs[i].to <= hs[j].from
  <2>1. CASE j <= m
    <3>1. i \in 1..Len(fs) /\ j \in 1..Len(fs) /\ hs[i] = fs[i] /\ hs[j] = fs[j]
      BY <1>2, <1>5, <1>7, <2>1
    <3> QED
      BY <1>7, <3>1 DEF Tidy, InOrder
  <2>2. CASE j > m /\ i > m
    <3>1. /\ i - m \in 1..Len(gs) /\ j - m \in 1..Len(gs) /\ i - m < j - m
          /\ hs[i] = gs[i - m] /\ hs[j] = gs[j - m]
      BY <1>2, <1>5, <1>7, <2>2
    <3> QED
      BY <3>1 DEF Tidy, InOrder
  <2>3. CASE j > m /\ i <= m
    <3>1. i \in 1..Len(fs) /\ j - m \in 1..Len(gs) /\ hs[i] = fs[i] /\ hs[j] = gs[j - m]
      BY <1>2, <1>5, <1>7, <2>3
    <3>2. fs[i].to <= mid /\ mid <= gs[j - m].from /\ fs[i].to \in Nat /\ gs[j - m].from \in Nat
      BY <1>1, <1>3, <1>4, <3>1
    <3> QED
      BY SMTT(60), <1>1, <3>1, <3>2
  <2> QED
    BY <1>2, <1>7, <2>1, <2>2, <2>3
<1> QED
  BY <1>1, <1>2, <1>6, <1>7 DEF Tidy, InOrder, hs

LEMMA TidyWider ==
    ASSUME NEW fs, NEW low, NEW high, NEW l \in Nat, NEW h \in Nat, Tidy(fs, low, high), l <= low, high <= h
    PROVE  Tidy(fs, l, h)
<1>1. \A i \in 1..Len(fs) : fs[i].from \in Nat /\ fs[i].to \in Nat
  BY HandedAt DEF Tidy
<1> QED
  BY <1>1 DEF Tidy

(* What a scan hands over, it hands over in order, and not beyond where it *)
(* got.                                                                    *)
LEMMA ScanTidy ==
    ASSUME NEW s \in Seq(Bytes), NEW base \in Nat, NEW giveUp \in BOOLEAN,
           NEW scan, scan = ScanFrom(s, base, giveUp)
    PROVE  \A p \in 0..Len(s) : Tidy(scan[p].frames, base + p, base + scan[p].at)
<1> DEFINE S == {p \in 0..Len(s) : Tidy(scan[p].frames, base + p, base + scan[p].at)}
<1>1. ASSUME NEW p \in 0..Len(s), Stops(s, p, giveUp)
      PROVE  p \in S
  <2>1. scan[p] = [frames |-> <<>>, at |-> p]
    BY <1>1, ScanStops
  <2>2. scan[p].at = p /\ scan[p].frames = <<>>
    BY <2>1
  <2>3. base + p \in Nat /\ base + p <= base + p
    OBVIOUS
  <2>4. Tidy(<<>>, base + p, base + p)
    BY <2>3, TidyNone
  <2> QED
    BY <2>2, <2>4
<1>2. ASSUME NEW p \in 0..Len(s), FrameAt(s, p), p + Size(s, p) \in S
      PROVE  p \in S
  <2> DEFINE z == p + Size(s, p)
             one == Place(s, base, p)
  <2>1. Adds(one, scan[p], scan[z]) /\ one \in Handed /\ z \in (p + 4)..Len(s) /\ Size(s, p) \in 4..12
    BY <1>2, ScanAdds, FrameFits
  <2>2. one.from = base + p /\ one.to = base + z /\ one.from < one.to
    <3>1. one.from = base + p /\ one.to = base + p + Size(s, p)
      BY DEF Place
    <3> HIDE DEF one
    <3> QED
      BY SMTT(60), <2>1, <3>1
  <2>3. Tidy(scan[z].frames, base + z, base + scan[z].at)
    BY <1>2
  <2> HIDE DEF z, one
  <2>4. Tidy(<<one>>, base + p, base + z)
    BY <2>1, <2>2, TidyOne
  <2>5. Tidy(<<one>> \o scan[z].frames, base + p, base + scan[z].at)
    BY <2>3, <2>4, TidyBoth
  <2> QED
    BY <2>1, <2>5 DEF Adds
<1>3. ASSUME NEW p \in 0..Len(s), NEW q \in (p + 1)..Len(s), Skips(s, p, giveUp), IsNext(s, p, q), q \in S
      PROVE  p \in S
  <2>1. scan[p] = scan[q]
    BY <1>3, ScanSkips
  <2>2. Tidy(scan[q].frames, base + q, base + scan[q].at)
    BY <1>3
  <2>3. base + p \in Nat /\ base + p <= base + q /\ base + scan[q].at \in Nat /\ base + scan[q].at <= base + scan[q].at
    <3>1. q \in 0..Len(s)
      OBVIOUS
    <3>2. scan[q].at \in 0..Len(s)
      BY <3>1, ScanFields
    <3> QED
      BY <3>2
  <2>4. Tidy(scan[q].frames, base + p, base + scan[q].at)
    BY <2>2, <2>3, TidyWider
  <2> QED
    BY <2>1, <2>4
<1>4. \A p \in 0..Len(s) : p \in S
  <2> HIDE DEF S
  <2> QED
    BY <1>1, <1>2, <1>3, Scanning
<1> QED
  BY <1>4

-----------------------------------------------------------------------------
(***************************************************************************)
(* A piece of a line: what is at a place of it, and what a scan of it      *)
(* makes of it, once there is more behind it or before it.                 *)
(***************************************************************************)

(* s is the line u from its k-th byte on, as far as it goes.               *)
Window(s, u, k) == k + Len(s) <= Len(u) /\ \A i \in 1..Len(s) : s[i] = u[k + i]

LEMMA SubSeqWindow ==
    ASSUME NEW s \in Seq(Bytes), NEW u \in Seq(Bytes), NEW k \in Nat, Window(s, u, k),
           NEW a \in 1..(Len(s) + 1), NEW z \in (a - 1)..Len(s)
    PROVE  SubSeq(s, a, z) = SubSeq(u, k + a, k + z)
<1> DEFINE l == SubSeq(s, a, z)
           r == SubSeq(u, k + a, k + z)
<1>0. Len(s) \in Nat /\ Len(u) \in Nat /\ k + Len(s) <= Len(u) /\ a \in Int /\ z \in Int
  BY DEF Window
<1>1. /\ l \in Seq(Bytes) /\ Len(l) = (IF a <= z THEN z - a + 1 ELSE 0)
      /\ \A i \in 1..(z - a + 1) : l[i] = s[a + i - 1]
  <2>1. \A i \in a..z : s[i] \in Bytes
    <3>1. \A i \in a..z : i \in 1..Len(s)
      BY <1>0
    <3> QED
      BY <3>1, ElementOfSeq
  <2> QED
    BY SMTT(60), <1>0, <2>1, SubSeqProperties
<1>2. /\ r \in Seq(Bytes)
      /\ Len(r) = (IF k + a <= k + z THEN (k + z) - (k + a) + 1 ELSE 0)
      /\ \A i \in 1..((k + z) - (k + a) + 1) : r[i] = u[(k + a) + i - 1]
  <2>1. \A i \in (k + a)..(k + z) : u[i] \in Bytes
    <3>1. \A i \in (k + a)..(k + z) : i \in 1..Len(u)
      BY <1>0
    <3> QED
      BY <3>1, ElementOfSeq
  <2>2. k + a \in Int /\ k + z \in Int
    BY <1>0
  <2> QED
    BY <2>1, <2>2, SubSeqProperties
<1>3. Len(l) = Len(r)
  BY <1>0, <1>1, <1>2
<1>4. ASSUME NEW i \in 1..Len(l)
      PROVE  l[i] = r[i]
  <2>1. i \in 1..(z - a + 1) /\ i \in 1..((k + z) - (k + a) + 1)
    BY <1>0, <1>1
  <2>2. l[i] = s[a + i - 1] /\ r[i] = u[(k + a) + i - 1]
    BY <1>1, <1>2, <2>1
  <2>3. a + i - 1 \in 1..Len(s) /\ k + (a + i - 1) = (k + a) + i - 1
    BY <1>0, <2>1
  <2>4. s[a + i - 1] = u[k + (a + i - 1)]
    BY <2>3 DEF Window
  <2> QED
    BY <2>2, <2>3, <2>4
<1> QED
  BY <1>1, <1>2, <1>3, <1>4, SeqEqual

LEMMA InWindow ==
    ASSUME NEW s \in Seq(Bytes), NEW u \in Seq(Bytes), NEW k \in Nat, Window(s, u, k),
           NEW p \in 0..(Len(s) - 1)
    PROVE  /\ FrameAt(s, p) <=> FrameAt(u, k + p) /\ p + Size(u, k + p) <= Len(s)
           /\ FrameAt(s, p) => Size(s, p) = Size(u, k + p)
           /\ ~FrameAt(s, p) /\ (FrameAt(u, k + p) \/ WaitsAt(u, k + p)) => WaitsAt(s, p)
           /\ k + Len(s) = Len(u) =>
                (FrameAt(s, p) <=> FrameAt(u, k + p)) /\ (WaitsAt(s, p) <=> WaitsAt(u, k + p))
<1> DEFINE n == Len(s)
           m == Len(u)
           d == s[p + 2]
           e == u[k + p + 2]
<1>0. n \in Nat /\ m \in Nat /\ k + n <= m /\ p \in Nat /\ p < n
  BY DEF Window
<1>1. s[p + 1] = u[k + p + 1]
  <2>1. p + 1 \in 1..n /\ k + (p + 1) = k + p + 1
    BY <1>0
  <2>2. s[p + 1] = u[k + (p + 1)]
    BY <2>1 DEF Window
  <2> QED
    BY <2>1, <2>2
<1>2. p + 2 <= n => d = e /\ d \in 0..9
  <2>1. p + 2 <= n => p + 2 \in 1..n /\ k + (p + 2) = k + p + 2
    BY <1>0
  <2>2. p + 2 <= n => s[p + 2] = u[k + (p + 2)] /\ s[p + 2] \in Bytes
    BY <2>1, ElementOfSeq DEF Window
  <2> QED
    BY <2>1, <2>2 DEF Bytes, SOH
<1>3. k + p + 2 <= m => e \in 0..9
  <2>1. k + p + 2 <= m => k + p + 2 \in 1..m
    BY <1>0
  <2> QED
    BY <2>1, ElementOfSeq DEF Bytes, SOH
<1>4. ASSUME p + 2 <= n, p + 4 + d <= n
      PROVE  /\ s[p + 4 + d] = u[k + p + 4 + e]
             /\ SubSeq(s, p + 2, p + 3 + d) = SubSeq(u, k + p + 2, k + p + 3 + e)
  <2>1. d = e /\ d \in 0..9
    BY <1>2, <1>4
  <2> HIDE DEF d, e
  <2>2. p + 4 + d \in 1..n /\ k + (p + 4 + d) = k + p + 4 + e
    BY <1>0, <1>4, <2>1
  <2>3. s[p + 4 + d] = u[k + (p + 4 + d)]
    BY <2>2 DEF Window
  <2>4. /\ p + 2 \in 1..(n + 1) /\ p + 3 + d \in (p + 2 - 1)..n
        /\ k + (p + 2) = k + p + 2 /\ k + (p + 3 + d) = k + p + 3 + e
    BY <1>0, <1>4, <2>1
  <2>5. SubSeq(s, p + 2, p + 3 + d) = SubSeq(u, k + (p + 2), k + (p + 3 + d))
    BY SMTT(60), <2>4, SubSeqWindow
  <2> QED
    BY <2>2, <2>3, <2>4, <2>5
<1> DEFINE Cs == s[p + 4 + d] = CheckOf(SubSeq(s, p + 2, p + 3 + d))
           Cu == u[k + p + 4 + e] = CheckOf(SubSeq(u, k + p + 2, k + p + 3 + e))
<1>5. p + 2 <= n /\ p + 4 + d <= n => (Cs <=> Cu)
  BY <1>4
<1>6. FrameAt(s, p) <=> p + 2 <= n /\ s[p + 1] = SOH /\ d <= MaxData /\ p + 4 + d <= n /\ Cs
  BY Zenon DEF FrameAt
<1>7. FrameAt(u, k + p) <=>
        k + p + 2 <= m /\ u[k + p + 1] = SOH /\ e <= MaxData /\ k + p + 4 + e <= m /\ Cu
  BY Zenon DEF FrameAt
<1>8. WaitsAt(s, p) <=> p < n /\ s[p + 1] = SOH /\ (p + 1 = n \/ (d <= MaxData /\ n < p + 4 + d))
  BY Zenon DEF WaitsAt
<1>9. WaitsAt(u, k + p) <=>
        k + p < m /\ u[k + p + 1] = SOH /\ (k + p + 1 = m \/ (e <= MaxData /\ m < k + p + 4 + e))
  BY Zenon DEF WaitsAt
<1>10. Size(s, p) = 4 + d /\ Size(u, k + p) = 4 + e
  BY DEF Size
<1> DEFINE b == s[p + 1]
           c == u[k + p + 1]
<1>11. b = c
  BY <1>1
<1>12. MaxData \in Nat
  BY DEF MaxData
<1> HIDE DEF n, m, d, e, Cs, Cu, b, c
<1>13. p + 2 <= n \/ p + 1 = n
  BY <1>0
<1>14. FrameAt(s, p) <=> FrameAt(u, k + p) /\ p + (4 + e) <= n
  <2>1. CASE p + 2 <= n
    <3>1. d = e /\ d \in 0..9 /\ k + p + 2 <= m
      BY <1>0, <1>2, <2>1
    <3>2. p + 4 + d <= n <=> p + (4 + e) <= n
      BY <1>0, <3>1
    <3>3. p + (4 + e) <= n => k + p + 4 + e <= m
      BY <1>0, <3>1
    <3> QED
      BY <1>1, <1>5, <1>6, <1>7, <2>1, <3>1, <3>2, <3>3, Zenon
  <2>2. CASE p + 1 = n
    <3>1. ~(p + 2 <= n)
      BY <1>0, <2>2
    <3>2. FrameAt(u, k + p) => ~(p + (4 + e) <= n)
      <4>1. ASSUME FrameAt(u, k + p)
            PROVE  ~(p + (4 + e) <= n)
        <5>1. e \in 0..9
          BY <1>3, <1>7, <4>1
        <5> QED
          BY <1>0, <2>2, <5>1
      <4> QED
        BY <4>1
    <3> QED
      BY <1>6, <3>1, <3>2, Zenon
  <2> QED
    BY <1>13, <2>1, <2>2
<1>15. FrameAt(s, p) => Size(s, p) = Size(u, k + p)
  BY <1>2, <1>6, <1>10
<1>16. ASSUME ~FrameAt(s, p), FrameAt(u, k + p) \/ WaitsAt(u, k + p)
       PROVE  WaitsAt(s, p)
  <2>1. CASE p + 1 = n
    BY <1>0, <1>1, <1>7, <1>8, <1>9, <1>16, <2>1
  <2>2. CASE p + 2 <= n
    <3>1. d = e /\ d \in 0..9 /\ k + p + 2 <= m
      BY <1>0, <1>2, <2>2
    <3>2. CASE FrameAt(u, k + p)
      BY <1>0, <1>1, <1>7, <1>8, <1>14, <1>16, <2>2, <3>1, <3>2
    <3>3. CASE WaitsAt(u, k + p)
      BY <1>0, <1>1, <1>8, <1>9, <2>2, <3>1, <3>3
    <3> QED
      BY <1>16, <3>2, <3>3
  <2> QED
    BY <1>13, <2>1, <2>2
<1>17. ASSUME k + n = m
       PROVE  (FrameAt(s, p) <=> FrameAt(u, k + p)) /\ (WaitsAt(s, p) <=> WaitsAt(u, k + p))
  <2>1. FrameAt(s, p) <=> FrameAt(u, k + p)
    <3>1. FrameAt(u, k + p) => p + (4 + e) <= n
      <4>1. FrameAt(u, k + p) => k + p + 2 <= m /\ k + p + 4 + e <= m
        BY <1>7, Zenon
      <4>2. k + p + 2 <= m /\ k + p + 4 + e <= m => p + (4 + e) <= n
        <5>1. ASSUME k + p + 2 <= m, k + p + 4 + e <= m
              PROVE  p + (4 + e) <= n
          <6>1. e \in 0..9
            BY <1>3, <5>1
          <6> QED
            BY <1>0, <1>17, <5>1, <6>1
        <5> QED
          BY <5>1
      <4> QED
        BY <4>1, <4>2, Zenon
    <3> QED
      BY <1>14, <3>1, Zenon
  <2>2. WaitsAt(s, p) <=> WaitsAt(u, k + p)
    <3>1. p < n /\ k + p < m /\ (p + 1 = n <=> k + p + 1 = m)
      BY <1>0, <1>17
    <3>2. p + 2 <= n => d = e /\ (n < p + 4 + d <=> m < k + p + 4 + e)
      <4>1. ASSUME p + 2 <= n
            PROVE  d = e /\ (n < p + 4 + d <=> m < k + p + 4 + e)
        <5>1. d = e /\ d \in 0..9
          BY <1>2, <4>1
        <5> QED
          BY <1>0, <1>17, <5>1
      <4> QED
        BY <4>1
    <3> QED
      BY <1>1, <1>8, <1>9, <1>13, <3>1, <3>2, Zenon
  <2> QED
    BY <2>1, <2>2
<1> QED
  BY <1>10, <1>14, <1>15, <1>16, <1>17 DEF n, m

(* The next place in a piece is the next one of the line, unless it is the *)
(* end of a piece the line goes on behind.                                 *)
LEMMA NextInWindow ==
    ASSUME NEW s \in Seq(Bytes), NEW u \in Seq(Bytes), NEW k \in Nat, Window(s, u, k),
           NEW p \in 0..Len(s), NEW q, IsNext(s, p, q), q # Len(s) \/ k + Len(s) = Len(u)
    PROVE  IsNext(u, k + p, k + q)
<1>0. /\ Len(s) \in Nat /\ Len(u) \in Nat /\ k + Len(s) <= Len(u)
      /\ q \in (p + 1)..Len(s) /\ (q = Len(s) \/ s[q + 1] = SOH)
      /\ \A i \in (p + 1)..(q - 1) : s[i + 1] # SOH
  BY DEF Window, IsNext
<1>1. \A i \in 0..(Len(s) - 1) : s[i + 1] = u[k + i + 1]
  <2>1. ASSUME NEW i \in 0..(Len(s) - 1)
        PROVE  s[i + 1] = u[k + i + 1]
    <3>1. i + 1 \in 1..Len(s) /\ k + (i + 1) = k + i + 1
      BY <1>0
    <3>2. s[i + 1] = u[k + (i + 1)]
      BY <3>1 DEF Window
    <3> QED
      BY <3>1, <3>2
  <2> QED
    BY <2>1
<1>2. k + q \in (k + p + 1)..Len(u)
  BY <1>0
<1>3. k + q = Len(u) \/ u[k + q + 1] = SOH
  <2>1. q # Len(s) => q \in 0..(Len(s) - 1)
    BY <1>0
  <2> QED
    BY <1>0, <1>1, <2>1
<1>4. ASSUME NEW i \in (k + p + 1)..(k + q - 1)
      PROVE  u[i + 1] # SOH
  <2>1. i - k \in (p + 1)..(q - 1) /\ i - k \in 0..(Len(s) - 1) /\ k + (i - k) + 1 = i + 1
    BY <1>0
  <2>2. s[(i - k) + 1] # SOH
    BY <1>0, <2>1
  <2>3. s[(i - k) + 1] = u[k + (i - k) + 1]
    BY <1>1, <2>1
  <2> QED
    BY <2>1, <2>2, <2>3
<1> QED
  BY <1>2, <1>3, <1>4 DEF IsNext

LEMMA NextBehind ==
    ASSUME NEW s \in Seq(Bytes), NEW u \in Seq(Bytes), Window(s, u, 0),
           NEW p \in 0..Len(s), IsNext(s, p, Len(s)), NEW z, IsNext(u, p, z)
    PROVE  \/ z = Len(s)
           \/ IsNext(u, Len(s), z) /\ Len(s) < Len(u) /\ u[Len(s) + 1] # SOH
<1>0. /\ Len(s) \in Nat /\ Len(u) \in Nat /\ Len(s) <= Len(u) /\ p < Len(s)
      /\ z \in (p + 1)..Len(u) /\ (z = Len(u) \/ u[z + 1] = SOH)
      /\ \A i \in (p + 1)..(z - 1) : u[i + 1] # SOH
      /\ \A i \in (p + 1)..(Len(s) - 1) : s[i + 1] # SOH
  BY DEF Window, IsNext
<1>1. ~(z < Len(s))
  <2>1. ASSUME z < Len(s)
        PROVE  FALSE
    <3>1. z \in (p + 1)..(Len(s) - 1) /\ z + 1 \in 1..Len(s) /\ 0 + (z + 1) = z + 1
      BY <1>0, <2>1
    <3>2. s[z + 1] = u[0 + (z + 1)]
      BY <3>1 DEF Window
    <3>3. u[z + 1] = SOH
      BY <1>0, <2>1
    <3> QED
      BY <1>0, <3>1, <3>2, <3>3
  <2> QED
    BY <2>1
<1>2. ASSUME z > Len(s)
      PROVE  IsNext(u, Len(s), z) /\ Len(s) < Len(u) /\ u[Len(s) + 1] # SOH
  <2>1. z \in (Len(s) + 1)..Len(u) /\ Len(s) \in (p + 1)..(z - 1) /\ Len(s) < Len(u)
    BY <1>0, <1>2
  <2>2. \A i \in (Len(s) + 1)..(z - 1) : u[i + 1] # SOH
    <3>1. \A i \in (Len(s) + 1)..(z - 1) : i \in (p + 1)..(z - 1)
      BY <1>0, <2>1
    <3> QED
      BY <1>0, <3>1
  <2> QED
    BY <1>0, <2>1, <2>2 DEF IsNext
<1> QED
  BY <1>0, <1>1, <1>2

(* A line's scan, from a place on, is the scan of what is left of it.      *)
Shifted(f, h, k) == h.frames = f.frames /\ h.at = k + f.at

LEMMA ScanRest ==
    ASSUME NEW s \in Seq(Bytes), NEW u \in Seq(Bytes), NEW k \in Nat, Window(s, u, k),
           k + Len(s) = Len(u), NEW base \in Nat, NEW giveUp \in BOOLEAN,
           NEW f, f = ScanFrom(s, base + k, giveUp), NEW h, h = ScanFrom(u, base, giveUp)
    PROVE  \A p \in 0..Len(s) : Shifted(f[p], h[k + p], k)
<1> DEFINE S == {p \in 0..Len(s) : Shifted(f[p], h[k + p], k)}
<1>0. /\ Len(s) \in Nat /\ Len(u) \in Nat /\ base + k \in Nat
      /\ \A p \in 0..Len(s) : k + p \in 0..Len(u)
      /\ \A p \in 0..Len(s) : p < Len(s) => p \in 0..(Len(s) - 1)
  OBVIOUS
<1>1. ASSUME NEW p \in 0..Len(s), Stops(s, p, giveUp)
      PROVE  p \in S
  <2>1. f[p] = [frames |-> <<>>, at |-> p]
    BY <1>0, <1>1, ScanStops
  <2>2. Stops(u, k + p, giveUp)
    <3>1. CASE p = Len(s)
      BY <3>1 DEF Stops
    <3>2. CASE WaitsAt(s, p) /\ ~giveUp
      <4>1. p < Len(s)
        BY <3>2 DEF WaitsAt
      <4>2. WaitsAt(u, k + p)
        BY <1>0, <3>2, <4>1, InWindow
      <4> QED
        BY <3>2, <4>2 DEF Stops
    <3> QED
      BY <1>1, <3>1, <3>2 DEF Stops
  <2>3. h[k + p] = [frames |-> <<>>, at |-> k + p]
    BY <1>0, <2>2, ScanStops
  <2>4. Shifted(f[p], h[k + p], k)
    BY <2>1, <2>3 DEF Shifted
  <2> QED
    BY <2>4
<1>2. ASSUME NEW p \in 0..Len(s), FrameAt(s, p), p + Size(s, p) \in S
      PROVE  p \in S
  <2>1. p < Len(s) /\ Size(s, p) \in 4..12 /\ p + Size(s, p) \in 0..Len(s)
    BY <1>2, FrameFits
  <2>2. FrameAt(u, k + p) /\ Size(u, k + p) = Size(s, p)
    BY <1>0, <1>2, <2>1, InWindow
  <2> DEFINE z == p + Size(s, p)
  <2>3. Adds(Place(s, base + k, p), f[p], f[z])
    BY <1>0, <1>2, ScanAdds
  <2>4. Adds(Place(u, base, k + p), h[k + p], h[(k + p) + Size(u, k + p)])
    BY <1>0, <2>2, ScanAdds
  <2>5. (k + p) + Size(u, k + p) = k + z /\ Place(u, base, k + p) = Place(s, base + k, p)
    <3>1. base + (k + p) = (base + k) + p /\ base + (k + p) + Size(u, k + p) = (base + k) + p + Size(s, p)
      BY <2>1, <2>2
    <3>2. (k + p) + Size(u, k + p) = k + z
      <4> DEFINE d == Size(s, p)
                 e == Size(u, k + p)
      <4>1. d \in 4..12 /\ e = d
        BY <2>1, <2>2
      <4> HIDE DEF d, e
      <4>2. (k + p) + e = k + (p + d)
        BY <4>1
      <4> QED
        BY <4>2 DEF d, e
    <3>3. Place(u, base, k + p) = Place(s, base + k, p)
      BY <3>1, Zenon DEF Place
    <3> QED
      BY <3>2, <3>3
  <2>6. Shifted(f[z], h[k + z], k)
    BY <1>2
  <2> HIDE DEF z
  <2>7. Shifted(f[p], h[k + p], k)
    BY <2>3, <2>4, <2>5, <2>6 DEF Adds, Shifted
  <2> QED
    BY <2>7
<1>3. ASSUME NEW p \in 0..Len(s), NEW q \in (p + 1)..Len(s), Skips(s, p, giveUp), IsNext(s, p, q), q \in S
      PROVE  p \in S
  <2>1. f[p] = f[q]
    BY <1>0, <1>3, ScanSkips
  <2>2. p < Len(s) /\ k + p < Len(u)
    BY <1>0, <1>3 DEF Skips
  <2>3. (FrameAt(s, p) <=> FrameAt(u, k + p)) /\ (WaitsAt(s, p) <=> WaitsAt(u, k + p))
    BY <1>0, <2>2, InWindow
  <2>4. Skips(u, k + p, giveUp)
    BY <1>3, <2>2, <2>3 DEF Skips
  <2>5. IsNext(u, k + p, k + q)
    BY <1>3, NextInWindow
  <2>6. h[k + p] = h[k + q]
    BY <1>0, <2>4, <2>5, ScanSkips
  <2> QED
    BY <1>3, <2>1, <2>6
<1>4. \A p \in 0..Len(s) : p \in S
  <2> HIDE DEF S
  <2> QED
    BY <1>1, <1>2, <1>3, Scanning
<1> QED
  BY <1>4

(* And with more behind it, it goes on from where it stopped for want of   *)
(* it.                                                                     *)
GoesOn(f, more, h) == h.frames = f.frames \o more.frames /\ h.at = more.at

LEMMA Associates ==
    \A x, y, z \in Seq(Handed) : (x \o y) \o z = x \o (y \o z)
BY ConcatAssociative

LEMMA ScanOn ==
    ASSUME NEW s \in Seq(Bytes), NEW u \in Seq(Bytes), Window(s, u, 0),
           NEW base \in Nat, NEW giveUp \in BOOLEAN, NEW patient \in BOOLEAN, ~patient,
           NEW f, f = ScanFrom(s, base, patient), NEW h, h = ScanFrom(u, base, giveUp)
    PROVE  \A p \in 0..Len(s) : GoesOn(f[p], h[f[p].at], h[p])
<1> DEFINE S == {p \in 0..Len(s) : GoesOn(f[p], h[f[p].at], h[p])}
<1>0. /\ Len(s) \in Nat /\ Len(u) \in Nat /\ Len(s) <= Len(u)
      /\ \A p \in 0..Len(s) : p \in 0..Len(u) /\ 0 + p = p
      /\ \A p \in 0..Len(s) : p < Len(s) => p \in 0..(Len(s) - 1)
  BY DEF Window
<1>1. ASSUME NEW p \in 0..Len(s), Stops(s, p, patient)
      PROVE  p \in S
  <2>1. f[p] = [frames |-> <<>>, at |-> p]
    BY <1>0, <1>1, ScanStops
  <2>2. f[p].at = p /\ f[p].frames = <<>>
    BY <2>1
  <2>3. h[p].frames \in Seq(Handed)
    BY <1>0, ScanFields
  <2>4. <<>> \o h[p].frames = h[p].frames
    BY <2>3, ConcatEmptySeq
  <2>5. GoesOn(f[p], h[f[p].at], h[p])
    BY <2>2, <2>4 DEF GoesOn
  <2> QED
    BY <2>5
<1>2. ASSUME NEW p \in 0..Len(s), FrameAt(s, p), p + Size(s, p) \in S
      PROVE  p \in S
  <2>1. p < Len(s) /\ Size(s, p) \in 4..12 /\ p + Size(s, p) \in 0..Len(s)
    BY <1>2, FrameFits
  <2>2. FrameAt(u, 0 + p) /\ Size(u, 0 + p) = Size(s, p)
    BY <1>0, <1>2, <2>1, InWindow
  <2>3. FrameAt(u, p) /\ Size(u, p) = Size(s, p) /\ Place(u, base, p) = Place(s, base, p)
    BY <1>0, <2>2 DEF Place
  <2> DEFINE z == p + Size(s, p)
             one == Place(s, base, p)
  <2>4. Adds(one, f[p], f[z]) /\ one \in Handed
    BY <1>0, <1>2, ScanAdds
  <2>5. Adds(one, h[p], h[z])
    <3>1. Adds(Place(u, base, p), h[p], h[p + Size(u, p)])
      BY <1>0, <2>3, ScanAdds
    <3> QED
      BY <2>3, <3>1
  <2>6. GoesOn(f[z], h[f[z].at], h[z]) /\ z \in 0..Len(s)
    BY <1>2
  <2> HIDE DEF z, one
  <2>7. f[z].frames \in Seq(Handed) /\ f[z].at \in 0..Len(s)
    BY <1>0, <2>6, ScanFields
  <2>8. h[f[z].at].frames \in Seq(Handed)
    BY <1>0, <2>7, ScanFields
  <2>9. (<<one>> \o f[z].frames) \o h[f[z].at].frames = <<one>> \o (f[z].frames \o h[f[z].at].frames)
    <3>1. <<one>> \in Seq(Handed)
      BY <2>4
    <3> QED
      BY <2>7, <2>8, <3>1, Associates, ZenonT(60)
  <2>10. f[p].at = f[z].at /\ f[p].frames = <<one>> \o f[z].frames
    BY <2>4 DEF Adds
  <2>11. h[p].at = h[z].at /\ h[p].frames = <<one>> \o h[z].frames
    BY <2>5 DEF Adds
  <2>12. h[z].frames = f[z].frames \o h[f[z].at].frames /\ h[z].at = h[f[z].at].at
    BY SMTT(60), <2>6 DEF GoesOn
  <2>13. GoesOn(f[p], h[f[p].at], h[p])
    BY Zenon, <2>9, <2>10, <2>11, <2>12 DEF GoesOn
  <2> QED
    BY <2>13
<1>3. ASSUME NEW p \in 0..Len(s), NEW q \in (p + 1)..Len(s), Skips(s, p, patient), IsNext(s, p, q), q \in S
      PROVE  p \in S
  <2>1. f[p] = f[q]
    BY <1>0, <1>3, ScanSkips
  <2>2. p < Len(s) /\ p < Len(u) /\ ~FrameAt(s, p) /\ ~WaitsAt(s, p)
    BY <1>0, <1>3 DEF Skips
  <2>3. ~FrameAt(u, p) /\ ~WaitsAt(u, p)
    <3>1. ~FrameAt(u, 0 + p) /\ ~WaitsAt(u, 0 + p)
      BY <1>0, <2>2, InWindow
    <3> QED
      BY <1>0, <3>1
  <2>4. Skips(u, p, giveUp)
    BY <2>2, <2>3 DEF Skips
  <2>5. h[p] = h[q]
    <3>1. CASE q # Len(s)
      <4>1. IsNext(u, 0 + p, 0 + q)
        BY <1>3, <3>1, NextInWindow
      <4>2. IsNext(u, p, q)
        BY <1>0, <4>1
      <4> QED
        BY <1>0, <2>4, <4>2, ScanSkips
    <3>2. CASE q = Len(s)
      <4>1. PICK z \in (p + 1)..Len(u) : IsNext(u, p, z)
        BY <1>0, <2>2, SomeNext
      <4>2. h[p] = h[z]
        BY <1>0, <2>4, <4>1, ScanSkips
      <4>3. \/ z = Len(s)
            \/ IsNext(u, Len(s), z) /\ Len(s) < Len(u) /\ u[Len(s) + 1] # SOH
        BY <1>3, <3>2, <4>1, NextBehind
      <4>4. ASSUME IsNext(u, Len(s), z), Len(s) < Len(u), u[Len(s) + 1] # SOH
            PROVE  h[Len(s)] = h[z]
        <5>1. Skips(u, Len(s), giveUp)
          BY <4>4 DEF Skips, FrameAt, WaitsAt
        <5>2. Len(s) \in 0..Len(u)
          BY <1>0
        <5> QED
          BY <4>4, <5>1, <5>2, ScanSkips
      <4> QED
        BY <3>2, <4>2, <4>3, <4>4
    <3> QED
      BY <3>1, <3>2
  <2> QED
    BY <1>3, <2>1, <2>5
<1>4. \A p \in 0..Len(s) : p \in S
  <2> HIDE DEF S
  <2> QED
    BY <1>0, <1>1, <1>2, <1>3, Scanning
<1> QED
  BY <1>4

-----------------------------------------------------------------------------
(***************************************************************************)
(* What a scan hands over: nothing but frames, none passed over that was   *)
(* whole, and on an undisturbed line only what was sent.                   *)
(***************************************************************************)

Elements(fs) == {fs[i] : i \in DOMAIN fs}

LEMMA ElementsOfBoth ==
    ASSUME NEW x \in Seq(Handed), NEW y \in Seq(Handed)
    PROVE  Elements(x \o y) = Elements(x) \cup Elements(y)
<1> DEFINE both == x \o y
           m == Len(x)
<1>1. /\ both \in Seq(Handed) /\ Len(both) = m + Len(y) /\ m \in Nat /\ Len(y) \in Nat
      /\ \A i \in 1..(m + Len(y)) : both[i] = IF i <= m THEN x[i] ELSE y[i - m]
  BY ConcatProperties
<1>2. DOMAIN both = 1..Len(both) /\ DOMAIN x = 1..m /\ DOMAIN y = 1..Len(y)
  BY <1>1
<1> HIDE DEF both, m
<1>3. \A i \in 1..Len(both) : \/ i \in 1..m /\ both[i] = x[i]
                              \/ i - m \in 1..Len(y) /\ both[i] = y[i - m]
  BY <1>1
<1>4. \A i \in 1..m : i \in 1..Len(both) /\ both[i] = x[i]
  BY <1>1
<1>5. \A i \in 1..Len(y) : m + i \in 1..Len(both) /\ both[m + i] = y[i]
  <2>1. ASSUME NEW i \in 1..Len(y)
        PROVE  m + i \in 1..Len(both) /\ both[m + i] = y[i]
    <3>1. m + i \in 1..(m + Len(y)) /\ ~(m + i <= m) /\ (m + i) - m = i
      BY <1>1
    <3> QED
      BY <1>1, <3>1
  <2> QED
    BY <2>1
<1>6. Elements(both) \subseteq Elements(x) \cup Elements(y)
  BY <1>2, <1>3 DEF Elements
<1>7. Elements(x) \subseteq Elements(both)
  BY <1>2, <1>4 DEF Elements
<1>8. Elements(y) \subseteq Elements(both)
  BY <1>2, <1>5 DEF Elements
<1> QED
  BY <1>6, <1>7, <1>8 DEF both

LEMMA ElementsOfOne ==
    ASSUME NEW one
    PROVE  Elements(<<one>>) = {one}
<1>1. DOMAIN <<one>> = {1} /\ <<one>>[1] = one
  OBVIOUS
<1> QED
  BY <1>1 DEF Elements

LEMMA ElementsAdded ==
    ASSUME NEW one \in Handed, NEW more, NEW others, others.frames \in Seq(Handed), Adds(one, more, others)
    PROVE  Elements(more.frames) = {one} \cup Elements(others.frames)
<1>1. <<one>> \in Seq(Handed)
  OBVIOUS
<1>2. more.frames = <<one>> \o others.frames
  BY DEF Adds
<1>3. Elements(<<one>> \o others.frames) = Elements(<<one>>) \cup Elements(others.frames)
  BY <1>1, ElementsOfBoth
<1> QED
  BY <1>2, <1>3, ElementsOfOne

(* A frame at a place of what was scanned.                                 *)
IsFrameAt(s, base, x, y) == FrameAt(s, x) /\ y = Place(s, base, x)

LEMMA ScanFindsFrames ==
    ASSUME NEW s \in Seq(Bytes), NEW base \in Nat, NEW giveUp \in BOOLEAN,
           NEW scan, scan = ScanFrom(s, base, giveUp)
    PROVE  \A p \in 0..Len(s) : \A y \in Elements(scan[p].frames) :
              \E x \in 0..Len(s) : IsFrameAt(s, base, x, y)
<1> DEFINE S == {p \in 0..Len(s) : \A y \in Elements(scan[p].frames) : \E x \in 0..Len(s) : IsFrameAt(s, base, x, y)}
<1>1. ASSUME NEW p \in 0..Len(s), Stops(s, p, giveUp)
      PROVE  p \in S
  <2>1. scan[p] = [frames |-> <<>>, at |-> p]
    BY <1>1, ScanStops
  <2>2. scan[p].at = p /\ scan[p].frames = <<>>
    BY <2>1
  <2>3. Elements(<<>>) = {}
    BY DEF Elements
  <2> QED
    BY <2>2, <2>3
<1>2. ASSUME NEW p \in 0..Len(s), FrameAt(s, p), p + Size(s, p) \in S
      PROVE  p \in S
  <2> DEFINE z == p + Size(s, p)
             one == Place(s, base, p)
  <2>1. Adds(one, scan[p], scan[z]) /\ one \in Handed /\ z \in 0..Len(s)
    BY <1>2, ScanAdds
  <2>2. IsFrameAt(s, base, p, one)
    BY <1>2 DEF IsFrameAt
  <2>3. \A y \in Elements(scan[z].frames) : \E x \in 0..Len(s) : IsFrameAt(s, base, x, y)
    BY <1>2
  <2> HIDE DEF z, one
  <2>4. scan[z].frames \in Seq(Handed)
    BY <2>1, ScanFields
  <2>5. Elements(scan[p].frames) = {one} \cup Elements(scan[z].frames)
    BY <2>1, <2>4, ElementsAdded
  <2> QED
    BY <2>2, <2>3, <2>5
<1>3. ASSUME NEW p \in 0..Len(s), NEW q \in (p + 1)..Len(s), Skips(s, p, giveUp), IsNext(s, p, q), q \in S
      PROVE  p \in S
  <2>1. scan[p] = scan[q]
    BY <1>3, ScanSkips
  <2> QED
    BY <1>3, <2>1
<1>4. \A p \in 0..Len(s) : p \in S
  <2> HIDE DEF S
  <2> QED
    BY <1>1, <1>2, <1>3, Scanning
<1> QED
  BY <1>4

(* A place a scan has got past, and that a frame begins at, lies in one it *)
(* handed over.                                                            *)
Spans(s, base, a, x, y) == IsFrameAt(s, base, x, y) /\ x <= a /\ a < x + Size(s, x)

LEMMA ScanCovers ==
    ASSUME NEW s \in Seq(Bytes), NEW base \in Nat, NEW giveUp \in BOOLEAN,
           NEW scan, scan = ScanFrom(s, base, giveUp),
           NEW a \in 0..(Len(s) - 1), FrameAt(s, a) \/ (WaitsAt(s, a) /\ ~giveUp)
    PROVE  \A p \in 0..Len(s) : p <= a /\ a < scan[p].at =>
              \E y \in Elements(scan[p].frames) : \E x \in 0..Len(s) : Spans(s, base, a, x, y)
<1> DEFINE Hit(p) == \E y \in Elements(scan[p].frames) : \E x \in 0..Len(s) : Spans(s, base, a, x, y)
           S == {p \in 0..Len(s) : p <= a /\ a < scan[p].at => Hit(p)}
<1>0. s[a + 1] = SOH
  BY DEF FrameAt, WaitsAt
<1>1. ASSUME NEW p \in 0..Len(s), Stops(s, p, giveUp)
      PROVE  p \in S
  <2>1. scan[p] = [frames |-> <<>>, at |-> p]
    BY <1>1, ScanStops
  <2>2. scan[p].at = p
    BY <2>1
  <2>3. ~(p <= a /\ a < scan[p].at)
    BY <2>2
  <2> HIDE DEF Hit
  <2> QED
    BY <2>3
<1>2. ASSUME NEW p \in 0..Len(s), FrameAt(s, p), p + Size(s, p) \in S
      PROVE  p \in S
  <2> DEFINE z == p + Size(s, p)
             one == Place(s, base, p)
  <2>1. Adds(one, scan[p], scan[z]) /\ one \in Handed /\ z \in 0..Len(s)
    BY <1>2, ScanAdds
  <2>2. IsFrameAt(s, base, p, one)
    BY <1>2 DEF IsFrameAt
  <2>3. z <= a /\ a < scan[z].at => Hit(z)
    BY <1>2
  <2>4. scan[z].frames \in Seq(Handed)
    <3> HIDE DEF z
    <3> QED
      BY <2>1, ScanFields
  <2>5. Elements(scan[p].frames) = {one} \cup Elements(scan[z].frames)
    <3> HIDE DEF z, one
    <3> QED
      BY <2>1, <2>4, ElementsAdded
  <2>6. ASSUME p <= a, a < scan[p].at
        PROVE  Hit(p)
    <3>1. CASE a < z
      <4>1. Spans(s, base, a, p, one)
        BY <2>2, <2>6, <3>1 DEF Spans
      <4>2. one \in Elements(scan[p].frames)
        BY <2>5
      <4> QED
        BY <4>1, <4>2
    <3>2. CASE ~(a < z)
      <4>1. z <= a /\ scan[p].at = scan[z].at
        BY <2>1, <3>2 DEF Adds
      <4>2. Hit(z)
        BY <2>3, <2>6, <4>1
      <4> QED
        BY <2>5, <4>2
    <3> QED
      BY <3>1, <3>2
  <2> HIDE DEF Hit
  <2> QED
    BY <2>6
<1>3. ASSUME NEW p \in 0..Len(s), NEW q \in (p + 1)..Len(s), Skips(s, p, giveUp), IsNext(s, p, q), q \in S
      PROVE  p \in S
  <2>1. scan[p] = scan[q]
    BY <1>3, ScanSkips
  <2>2. ASSUME p <= a, a < scan[p].at
        PROVE  Hit(p)
    <3>1. p # a
      BY <1>3 DEF Skips
    <3>2. q <= a
      <4>1. \A i \in (p + 1)..(q - 1) : s[i + 1] # SOH
        BY <1>3 DEF IsNext
      <4>2. ~(a \in (p + 1)..(q - 1))
        BY <1>0, <4>1
      <4> QED
        BY <2>2, <3>1, <4>2
    <3>3. Hit(q)
      BY <1>3, <2>1, <2>2, <3>2
    <3> QED
      BY <2>1, <3>3
  <2> HIDE DEF Hit
  <2> QED
    BY <2>2
<1>4. \A p \in 0..Len(s) : p \in S
  <2> HIDE DEF S
  <2> QED
    BY <1>1, <1>2, <1>3, Scanning
<1> QED
  BY <1>4

(* From a boundary on, where every boundary has a frame or waits for one,  *)
(* a scan goes from boundary to boundary.                                  *)
LEMMA ScanTiled ==
    ASSUME NEW s \in Seq(Bytes), NEW base \in Nat, NEW giveUp \in BOOLEAN,
           NEW scan, scan = ScanFrom(s, base, giveUp), NEW B,
           \A p \in 0..Len(s) : p \in B =>
              Stops(s, p, giveUp) \/ (FrameAt(s, p) /\ p + Size(s, p) \in B)
    PROVE  \A p \in 0..Len(s) : p \in B =>
              /\ scan[p].at \in B
              /\ \A y \in Elements(scan[p].frames) : \E x \in 0..Len(s) : x \in B /\ IsFrameAt(s, base, x, y)
<1> DEFINE Tiled(p) == /\ scan[p].at \in B
                       /\ \A y \in Elements(scan[p].frames) :
                             \E x \in 0..Len(s) : x \in B /\ IsFrameAt(s, base, x, y)
           S == {p \in 0..Len(s) : p \in B => Tiled(p)}
<1>1. ASSUME NEW p \in 0..Len(s), Stops(s, p, giveUp)
      PROVE  p \in S
  <2>1. scan[p] = [frames |-> <<>>, at |-> p]
    BY <1>1, ScanStops
  <2>2. scan[p].at = p /\ scan[p].frames = <<>>
    BY <2>1
  <2>3. Elements(<<>>) = {}
    BY DEF Elements
  <2>4. p \in B => Tiled(p)
    BY <2>2, <2>3
  <2> HIDE DEF Tiled
  <2> QED
    BY <2>4
<1>2. ASSUME NEW p \in 0..Len(s), FrameAt(s, p), p + Size(s, p) \in S
      PROVE  p \in S
  <2> DEFINE z == p + Size(s, p)
             one == Place(s, base, p)
  <2>1. Adds(one, scan[p], scan[z]) /\ one \in Handed /\ z \in 0..Len(s)
    BY <1>2, ScanAdds
  <2>2. IsFrameAt(s, base, p, one)
    BY <1>2 DEF IsFrameAt
  <2>3. p \in B => z \in B
    <3>1. ~Stops(s, p, giveUp)
      <4>1. p \in 0..(Len(s) - 1)
        BY <1>2, FrameFits
      <4> QED
        BY <1>2, <4>1, DecodeIs DEF Stops
    <3> QED
      BY <3>1
  <2>4. z \in B => Tiled(z)
    BY <1>2
  <2>5. scan[z].frames \in Seq(Handed)
    <3> HIDE DEF z
    <3> QED
      BY <2>1, ScanFields
  <2>6. Elements(scan[p].frames) = {one} \cup Elements(scan[z].frames) /\ scan[p].at = scan[z].at
    <3> HIDE DEF z, one
    <3> QED
      BY ZenonT(60), <2>1, <2>5, ElementsAdded DEF Adds
  <2>7. ASSUME p \in B
        PROVE  Tiled(p)
    <3> HIDE DEF z, one
    <3> QED
      BY <2>2, <2>3, <2>4, <2>6, <2>7
  <2> HIDE DEF Tiled
  <2> QED
    BY <2>7
<1>3. ASSUME NEW p \in 0..Len(s), NEW q \in (p + 1)..Len(s), Skips(s, p, giveUp), IsNext(s, p, q), q \in S
      PROVE  p \in S
  <2>1. p \notin B
    <3>1. ~Stops(s, p, giveUp) /\ ~FrameAt(s, p)
      BY <1>3 DEF Skips, Stops
    <3> QED
      BY <3>1
  <2> HIDE DEF Tiled
  <2> QED
    BY <2>1
<1>4. \A p \in 0..Len(s) : p \in S
  <2> HIDE DEF S
  <2> QED
    BY <1>1, <1>2, <1>3, Scanning
<1> QED
  BY <1>4

-----------------------------------------------------------------------------
(***************************************************************************)
(* A frame the module writes: the decoder takes out of it what was meant.  *)
(***************************************************************************)

(* One thing behind another.                                               *)
Joined(d, h, r) ==
    /\ d \in Seq(Bytes) /\ Len(d) = Len(h) + Len(r)
    /\ \A i \in 1..Len(h) : d[i] = h[i]
    /\ \A i \in 1..Len(r) : d[Len(h) + i] = r[i]
    /\ SubSeq(d, Len(h) + 1, Len(h) + Len(r)) = r

LEMMA Behind ==
    ASSUME NEW h \in Seq(Bytes), NEW r \in Seq(Bytes), NEW d, d = h \o r
    PROVE  Joined(d, h, r)
<1>0. Len(h) \in Nat /\ Len(r) \in Nat
  OBVIOUS
<1>1. /\ d \in Seq(Bytes) /\ Len(d) = Len(h) + Len(r)
      /\ \A i \in 1..(Len(h) + Len(r)) : d[i] = IF i <= Len(h) THEN h[i] ELSE r[i - Len(h)]
  BY ConcatProperties
<1>2. \A i \in 1..Len(h) : d[i] = h[i]
  BY <1>0, <1>1
<1>3. \A i \in 1..Len(r) : d[Len(h) + i] = r[i]
  <2>1. ASSUME NEW i \in 1..Len(r)
        PROVE  d[Len(h) + i] = r[i]
    <3>1. Len(h) + i \in 1..(Len(h) + Len(r)) /\ ~(Len(h) + i <= Len(h)) /\ Len(h) + i - Len(h) = i
      BY <1>0
    <3> QED
      BY <1>1, <3>1
  <2> QED
    BY <2>1
<1> DEFINE b == SubSeq(d, Len(h) + 1, Len(h) + Len(r))
<1>4. /\ b \in Seq(Bytes)
      /\ Len(b) = (IF Len(h) + 1 <= Len(h) + Len(r) THEN (Len(h) + Len(r)) - (Len(h) + 1) + 1 ELSE 0)
      /\ \A i \in 1..((Len(h) + Len(r)) - (Len(h) + 1) + 1) : b[i] = d[(Len(h) + 1) + i - 1]
  <2>1. \A i \in (Len(h) + 1)..(Len(h) + Len(r)) : d[i] \in Bytes
    <3>1. \A i \in (Len(h) + 1)..(Len(h) + Len(r)) : i \in 1..Len(d)
      BY <1>0, <1>1
    <3> QED
      BY <1>1, <3>1, ElementOfSeq
  <2>2. Len(h) + 1 \in Int /\ Len(h) + Len(r) \in Int
    BY <1>0
  <2> QED
    BY <2>1, <2>2, SubSeqProperties
<1>5. Len(b) = Len(r)
  BY <1>0, <1>4
<1>6. ASSUME NEW i \in 1..Len(b)
      PROVE  b[i] = r[i]
  <2>1. i \in 1..((Len(h) + Len(r)) - (Len(h) + 1) + 1) /\ (Len(h) + 1) + i - 1 = Len(h) + i /\ i \in 1..Len(r)
    BY <1>0, <1>5
  <2> QED
    BY <1>3, <1>4, <2>1
<1>7. b = r
  BY <1>4, <1>5, <1>6, SeqEqual
<1> QED
  BY <1>1, <1>2, <1>3, <1>7 DEF Joined

(* A chip of whole bytes, behind its length in bits.                       *)
LEMMA ChipBehind ==
    ASSUME NEW h \in Seq(Bytes), NEW record \in Records, NEW d, d = h \o record,
           Len(h) > 0, h[Len(h)] = 2 * Len(record)
    PROVE  EndsAtChip(d, Len(h)) /\ SubSeq(d, Len(h) + 1, Len(h) + BytesOf(d[Len(h)])) = record
<1>1. record \in Seq(Bytes) /\ Len(record) \in Nat /\ Len(h) \in Nat
  BY Recorded
<1>2. /\ Len(d) = Len(h) + Len(record) /\ \A i \in 1..Len(h) : d[i] = h[i]
      /\ SubSeq(d, Len(h) + 1, Len(h) + Len(record)) = record
  BY <1>1, Behind DEF Joined
<1>3. Len(h) \in 1..Len(h)
  BY <1>1
<1>4. d[Len(h)] = 2 * Len(record)
  BY <1>2, <1>3
<1>5. BytesOf(d[Len(h)]) = Len(record)
  <2> DEFINE n == Len(record)
  <2>1. n \in Nat
    BY <1>1
  <2> HIDE DEF n
  <2>2. (2 * n + 1) \div 2 = n
    BY <2>1
  <2> QED
    BY <1>4, <2>2 DEF BytesOf, n
<1> QED
  BY <1>1, <1>2, <1>5 DEF EndsAtChip

(* What stands before the chip.                                            *)
Before(flags, record) ==
    <<TagKind, flags>> \o (IF Has(flags, ProtocolFlag) THEN <<Gen2>> ELSE <<>>)
        \o (IF Has(flags, DataFlag) THEN <<1, SOH>> ELSE <<>>)
        \o <<2 * Len(record)>>

Embedded(flags) == IF Has(flags, ProtocolFlag) THEN 4 ELSE 3

LEMMA BeforeIs ==
    ASSUME NEW record \in Records, NEW flags \in Decodable, NEW h, h = Before(flags, record)
    PROVE  /\ h \in Seq(Bytes) /\ h[1] = TagKind /\ h[2] = flags
           /\ Len(h) = Embedded(flags) + (IF Has(flags, DataFlag) THEN 2 ELSE 0)
           /\ h[Len(h)] = 2 * Len(record)
           /\ Has(flags, ProtocolFlag) => h[3] = Gen2
           /\ Has(flags, DataFlag) => h[Embedded(flags)] = 1
<1> DEFINE a == <<TagKind, flags>>
           b == IF Has(flags, ProtocolFlag) THEN <<Gen2>> ELSE <<>>
           c == IF Has(flags, DataFlag) THEN <<1, SOH>> ELSE <<>>
           e == <<2 * Len(record)>>
<1>1. a \in Seq(Bytes) /\ Len(a) = 2 /\ a[1] = TagKind /\ a[2] = flags
  <2>1. TagKind \in Bytes /\ flags \in Bytes
    BY DEF TagKind, Bytes, SOH, Decodable, ProtocolFlag, DataFlag
  <2> QED
    BY <2>1
<1>2. /\ b \in Seq(Bytes) /\ Len(b) = (IF Has(flags, ProtocolFlag) THEN 1 ELSE 0)
      /\ Has(flags, ProtocolFlag) => b[1] = Gen2
  <2>1. Gen2 \in Bytes
    BY DEF Gen2, Bytes, SOH
  <2> QED
    BY <2>1
<1>3. /\ c \in Seq(Bytes) /\ Len(c) = (IF Has(flags, DataFlag) THEN 2 ELSE 0)
      /\ Has(flags, DataFlag) => c[1] = 1
  <2>1. 1 \in Bytes /\ SOH \in Bytes
    BY DEF Bytes, SOH
  <2> QED
    BY <2>1
<1>4. e \in Seq(Bytes) /\ Len(e) = 1 /\ e[1] = 2 * Len(record)
  BY Recorded
<1> HIDE DEF a, b, c, e
<1> DEFINE ab == a \o b
           abc == ab \o c
<1>5. h = abc \o e
  BY Zenon DEF Before, a, b, c, e
<1>6. /\ ab \in Seq(Bytes) /\ Len(ab) = Len(a) + Len(b)
      /\ \A i \in 1..Len(a) : ab[i] = a[i]
      /\ \A i \in 1..Len(b) : ab[Len(a) + i] = b[i]
  <2>1. Joined(ab, a, b)
    BY <1>1, <1>2, Behind
  <2> QED
    BY <2>1 DEF Joined
<1> HIDE DEF ab
<1>7. /\ abc \in Seq(Bytes) /\ Len(abc) = Len(ab) + Len(c)
      /\ \A i \in 1..Len(ab) : abc[i] = ab[i]
      /\ \A i \in 1..Len(c) : abc[Len(ab) + i] = c[i]
  <2>1. Joined(abc, ab, c)
    BY <1>3, <1>6, Behind
  <2> QED
    BY <2>1 DEF Joined
<1> HIDE DEF abc
<1>8. /\ h \in Seq(Bytes) /\ Len(h) = Len(abc) + Len(e)
      /\ \A i \in 1..Len(abc) : h[i] = abc[i]
      /\ \A i \in 1..Len(e) : h[Len(abc) + i] = e[i]
  <2>1. Joined(h, abc, e)
    BY <1>4, <1>5, <1>7, Behind
  <2> QED
    BY <2>1 DEF Joined
<1>9. Len(ab) = Embedded(flags) - 1 /\ Len(ab) \in {2, 3}
  BY <1>1, <1>2, <1>6 DEF Embedded
<1>10. Len(abc) = Len(ab) + (IF Has(flags, DataFlag) THEN 2 ELSE 0) /\ Len(abc) \in Nat /\ Len(abc) >= Len(ab)
  BY <1>3, <1>7, <1>9
<1>11. Len(h) = Len(abc) + 1 /\ h[Len(h)] = 2 * Len(record)
  <2>1. 1 \in 1..Len(e)
    BY <1>4
  <2> QED
    BY <1>4, <1>8, <2>1
<1>12. Len(h) = Embedded(flags) + (IF Has(flags, DataFlag) THEN 2 ELSE 0)
  BY <1>9, <1>10, <1>11 DEF Embedded
<1>13. h[1] = TagKind /\ h[2] = flags
  <2>1. 1 \in 1..Len(a) /\ 2 \in 1..Len(a) /\ 1 \in 1..Len(ab) /\ 2 \in 1..Len(ab)
        /\ 1 \in 1..Len(abc) /\ 2 \in 1..Len(abc)
    BY <1>1, <1>9, <1>10
  <2> QED
    BY <1>1, <1>6, <1>7, <1>8, <2>1
<1>14. ASSUME Has(flags, ProtocolFlag)
       PROVE  h[3] = Gen2
  <2>1. 1 \in 1..Len(b) /\ Len(a) + 1 = 3 /\ 3 \in 1..Len(ab) /\ 3 \in 1..Len(abc)
    BY <1>1, <1>2, <1>9, <1>10, <1>14 DEF Embedded
  <2> QED
    BY <1>2, <1>6, <1>7, <1>8, <1>14, <2>1
<1>15. ASSUME Has(flags, DataFlag)
       PROVE  h[Embedded(flags)] = 1
  <2>1. 1 \in 1..Len(c) /\ Len(ab) + 1 = Embedded(flags) /\ Embedded(flags) \in 1..Len(abc)
    BY <1>3, <1>9, <1>10, <1>15 DEF Embedded
  <2>2. abc[Len(ab) + 1] = c[1] /\ h[Embedded(flags)] = abc[Embedded(flags)]
    BY <1>7, <1>8, <2>1
  <2> QED
    BY <1>3, <1>15, <2>1, <2>2
<1> QED
  BY <1>8, <1>11, <1>12, <1>13, <1>14, <1>15

(* A tag report is read as it was meant, whatever its flags.               *)
LEMMA PayloadIs ==
    ASSUME NEW record \in Records, NEW flags \in Decodable, NEW data, data = Payload(flags, record)
    PROVE  /\ data \in Seq(Bytes) /\ Len(data) > 2 /\ data[1] = TagKind /\ data[2] = flags
           /\ ReadTag(data) = [is |-> "read", chip |-> Chip(record, Has(flags, ProtocolFlag))]
<1> DEFINE h == Before(flags, record)
<1>0. record \in Seq(Bytes) /\ Len(record) \in Nat
  BY Recorded
<1>1. data = h \o record
  BY Zenon DEF Payload, Before
<1>2. /\ h \in Seq(Bytes) /\ h[1] = TagKind /\ h[2] = flags
      /\ Len(h) = Embedded(flags) + (IF Has(flags, DataFlag) THEN 2 ELSE 0)
      /\ h[Len(h)] = 2 * Len(record)
      /\ Has(flags, ProtocolFlag) => h[3] = Gen2
      /\ Has(flags, DataFlag) => h[Embedded(flags)] = 1
  BY BeforeIs
<1> HIDE DEF h
<1>3. /\ data \in Seq(Bytes) /\ Len(data) = Len(h) + Len(record)
      /\ \A i \in 1..Len(h) : data[i] = h[i]
  <2>1. Joined(data, h, record)
    BY <1>0, <1>1, <1>2, Behind
  <2> QED
    BY <2>1 DEF Joined
<1>4. Len(h) >= 3 /\ Len(h) \in Nat /\ Embedded(flags) \in 1..Len(h) /\ Embedded(flags) <= Len(data)
  BY <1>0, <1>2, <1>3 DEF Embedded
<1>5. data[1] = TagKind /\ data[2] = flags /\ data[3] = h[3] /\ data[Embedded(flags)] = h[Embedded(flags)]
  <2>1. 1 \in 1..Len(h) /\ 2 \in 1..Len(h) /\ 3 \in 1..Len(h)
    BY <1>4
  <2> QED
    BY <1>2, <1>3, <1>4, <2>1
<1> DEFINE at == IF ~Has(flags, DataFlag) \/ Embedded(flags) > Len(data) THEN Embedded(flags)
                 ELSE Embedded(flags) + 1 + BytesOf(data[Embedded(flags)])
<1>6. at = Len(h)
  <2>1. CASE Has(flags, DataFlag)
    <3>1. BytesOf(data[Embedded(flags)]) = 1
      <4>1. data[Embedded(flags)] = 1
        BY <1>2, <1>5, <2>1
      <4> QED
        BY <4>1 DEF BytesOf
    <3>2. ~(Embedded(flags) > Len(data)) /\ Embedded(flags) + 1 + 1 = Len(h)
      BY <1>2, <1>3, <1>4, <2>1 DEF Embedded
    <3> QED
      BY <2>1, <3>1, <3>2
  <2>2. CASE ~Has(flags, DataFlag)
    BY <1>2, <2>2 DEF Embedded
  <2> QED
    BY <2>1, <2>2
<1>7. /\ EndsAtChip(data, Len(h))
      /\ SubSeq(data, Len(h) + 1, Len(h) + BytesOf(data[Len(h)])) = record
  <2>1. Len(h) > 0
    BY <1>4
  <2> QED
    BY <1>1, <1>2, <2>1, ChipBehind
<1>8. (Has(flags, ProtocolFlag) /\ data[3] = Gen2) = Has(flags, ProtocolFlag)
  BY <1>2, <1>5 DEF Has
<1>9. ReadTag(data) =
        IF ~EndsAtChip(data, at) THEN Fault
        ELSE [is |-> "read",
              chip |-> Chip(SubSeq(data, at + 1, at + BytesOf(data[at])),
                            Has(flags, ProtocolFlag) /\ data[3] = Gen2)]
  BY <1>5, ZenonT(60) DEF ReadTag, Embedded
<1> HIDE DEF at
<1>10. ReadTag(data) = [is |-> "read", chip |-> Chip(record, Has(flags, ProtocolFlag))]
  BY <1>6, <1>7, <1>8, <1>9, Zenon
<1> QED
  BY <1>0, <1>3, <1>4, <1>5, <1>10

LEMMA ClassifiesTag ==
    ASSUME NEW data, Len(data) > 2, data[1] = TagKind
    PROVE  Meaning(ReadAnswer, data) = IF data[2] \notin Decodable THEN Fault ELSE ReadTag(data)
<1>1. data # <<>>
  OBVIOUS
<1>2. ReadAnswer # NoTags /\ ~(data[1] \in AliveKinds) /\ ~(Len(data) < 2)
  BY DEF ReadAnswer, NoTags, AliveKinds, TagKind
<1> QED
  BY <1>1, <1>2, Zenon DEF Meaning

(* Whatever the module sends, the decoder makes of it what it means.       *)
LEMMA MeantIs ==
    ASSUME NEW item \in Meant
    PROVE  /\ item.opcode \in Bytes /\ item.data \in Seq(Bytes)
           /\ Meaning(item.opcode, item.data) = item.means
<1>0. /\ ReadAnswer \in Bytes /\ OtherAnswer \in Bytes /\ NoTags \in Bytes /\ 0 \in Decodable
      /\ ReadAnswer # NoTags /\ OtherAnswer # ReadAnswer /\ OtherAnswer # NoTags
  BY DEF ReadAnswer, OtherAnswer, NoTags, Bytes, SOH, Decodable, ProtocolFlag, DataFlag
<1>1. ASSUME NEW flags \in Decodable, NEW record \in Records,
             item = [opcode |-> ReadAnswer, data |-> Payload(flags, record),
                     means |-> [is |-> "read", chip |-> Chip(record, Has(flags, ProtocolFlag))]]
      PROVE  /\ item.opcode \in Bytes /\ item.data \in Seq(Bytes)
             /\ Meaning(item.opcode, item.data) = item.means
  <2> DEFINE data == Payload(flags, record)
             means == [is |-> "read", chip |-> Chip(record, Has(flags, ProtocolFlag))]
  <2>1. /\ data \in Seq(Bytes) /\ Len(data) > 2 /\ data[1] = TagKind /\ data[2] = flags
        /\ ReadTag(data) = means
    BY PayloadIs
  <2> HIDE DEF data, means
  <2>2. Meaning(ReadAnswer, data) = means
    BY <2>1, ClassifiesTag
  <2>3. item.opcode = ReadAnswer /\ item.data = data /\ item.means = means
    BY <1>1, Zenon DEF data, means
  <2> QED
    BY <1>0, <2>1, <2>2, <2>3
<1>2. ASSUME item = [opcode |-> NoTags, data |-> <<>>, means |-> [is |-> "alive"]]
      PROVE  /\ item.opcode \in Bytes /\ item.data \in Seq(Bytes)
             /\ Meaning(item.opcode, item.data) = item.means
  <2>1. item.opcode = NoTags /\ item.data = <<>> /\ item.means = [is |-> "alive"]
    BY <1>2, Zenon
  <2>2. Meaning(NoTags, <<>>) = [is |-> "alive"]
    BY Zenon DEF Meaning
  <2>3. <<>> \in Seq(Bytes)
    OBVIOUS
  <2> QED
    BY <1>0, <2>1, <2>2, <2>3, Zenon
<1>3. ASSUME NEW record \in Records,
             item = [opcode |-> OtherAnswer, data |-> Payload(0, record), means |-> Fault]
      PROVE  /\ item.opcode \in Bytes /\ item.data \in Seq(Bytes)
             /\ Meaning(item.opcode, item.data) = item.means
  <2>1. item.opcode = OtherAnswer /\ item.data = Payload(0, record) /\ item.means = Fault
    BY <1>3, Zenon
  <2>2. Payload(0, record) \in Seq(Bytes)
    BY <1>0, PayloadIs
  <2>3. Meaning(OtherAnswer, Payload(0, record)) = Fault
    BY <1>0, Zenon DEF Meaning
  <2> QED
    BY <1>0, <2>1, <2>2, <2>3, Zenon
<1>4. ASSUME NEW record \in Records,
             item = [opcode |-> ReadAnswer, data |-> <<TagKind, 4, 0>> \o Tail(Tail(Payload(0, record))),
                     means |-> Fault]
      PROVE  /\ item.opcode \in Bytes /\ item.data \in Seq(Bytes)
             /\ Meaning(item.opcode, item.data) = item.means
  <2> DEFINE h == <<TagKind, 4, 0>>
             r == Tail(Tail(Payload(0, record)))
             data == h \o r
  <2>1. item.opcode = ReadAnswer /\ item.data = data /\ item.means = Fault
    BY <1>4, Zenon
  <2>2. h \in Seq(Bytes) /\ Len(h) = 3 /\ h[1] = TagKind /\ h[2] = 4
    <3>1. TagKind \in Bytes /\ 4 \in Bytes /\ 0 \in Bytes
      BY DEF TagKind, Bytes, SOH
    <3> QED
      BY <3>1
  <2>3. r \in Seq(Bytes)
    <3> DEFINE d == Payload(0, record)
    <3>1. d \in Seq(Bytes) /\ Len(d) > 2
      BY <1>0, PayloadIs
    <3> HIDE DEF d
    <3>2. d # <<>>
      BY <3>1
    <3>3. Tail(d) \in Seq(Bytes) /\ Len(Tail(d)) = Len(d) - 1
      BY <3>1, <3>2, HeadTailProperties
    <3> DEFINE e == Tail(d)
    <3>4. e \in Seq(Bytes) /\ Len(e) > 0
      BY <3>1, <3>3
    <3> HIDE DEF e
    <3>5. Tail(e) \in Seq(Bytes)
      BY <3>4, HeadTailProperties
    <3> QED
      BY <3>5 DEF d, e
  <2> HIDE DEF h, r
  <2>4. Joined(data, h, r)
    BY <2>2, <2>3, Behind
  <2> HIDE DEF data
  <2>5. data \in Seq(Bytes) /\ Len(data) > 2 /\ data[1] = TagKind /\ data[2] = 4
    <3>1. 1 \in 1..Len(h) /\ 2 \in 1..Len(h) /\ Len(r) \in Nat
      BY <2>2, <2>3
    <3> QED
      BY <2>2, <2>4, <3>1 DEF Joined
  <2>6. 4 \notin Decodable
    BY DEF Decodable, ProtocolFlag, DataFlag
  <2>7. Meaning(ReadAnswer, data) = Fault
    BY <2>5, <2>6, ClassifiesTag
  <2> QED
    BY <1>0, <2>1, <2>5, <2>7
<1>5. ASSUME NEW record \in Records,
             item = [opcode |-> ReadAnswer, data |-> Append(Payload(0, record), 0), means |-> Fault]
      PROVE  /\ item.opcode \in Bytes /\ item.data \in Seq(Bytes)
             /\ Meaning(item.opcode, item.data) = item.means
  <2> DEFINE data == Append(Payload(0, record), 0)
             h == Before(0, record)
  <2>1. item.opcode = ReadAnswer /\ item.data = data /\ item.means = Fault
    BY <1>5, Zenon
  <2>2. ~Has(0, ProtocolFlag) /\ ~Has(0, DataFlag)
    BY DEF Has, ProtocolFlag, DataFlag
  <2>3. h \in Seq(Bytes) /\ h[1] = TagKind /\ h[2] = 0 /\ Len(h) = 3 /\ h[3] = 2 * Len(record)
    <3>1. PICK flags \in Decodable : flags = 0
      BY <1>0
    <3>2. /\ h \in Seq(Bytes) /\ h[1] = TagKind /\ h[2] = flags
          /\ Len(h) = Embedded(flags) + (IF Has(flags, DataFlag) THEN 2 ELSE 0)
          /\ h[Len(h)] = 2 * Len(record)
      <4>1. h = Before(flags, record)
        BY <3>1
      <4> HIDE DEF h
      <4> QED
        BY <4>1, BeforeIs
    <3> HIDE DEF h
    <3>3. Len(h) = 3
      BY <2>2, <3>1, <3>2 DEF Embedded
    <3> QED
      BY <3>1, <3>2, <3>3
  <2>4. Payload(0, record) = h \o record
    BY Zenon DEF Payload, Before
  <2> DEFINE d == Payload(0, record)
  <2>5. record \in Seq(Bytes) /\ Len(record) \in Nat
    BY Recorded
  <2> HIDE DEF h, d
  <2>6. Joined(d, h, record)
    BY <2>3, <2>4, <2>5, Behind DEF d
  <2>7. d \in Seq(Bytes) /\ Len(d) = 3 + Len(record) /\ d[1] = TagKind /\ d[2] = 0 /\ d[3] = 2 * Len(record)
    <3>1. 1 \in 1..Len(h) /\ 2 \in 1..Len(h) /\ 3 \in 1..Len(h)
      BY <2>3
    <3> QED
      BY <2>3, <2>6, <3>1 DEF Joined
  <2>8. /\ data \in Seq(Bytes) /\ Len(data) = 4 + Len(record)
        /\ data[1] = TagKind /\ data[2] = 0 /\ data[3] = 2 * Len(record)
    <3>1. PICK zero \in Bytes : data = Append(d, zero)
      <4>1. data = Append(d, 0)
        BY DEF d
      <4>2. 0 \in Bytes
        BY DEF Bytes, SOH
      <4> QED
        BY <4>1, <4>2
    <3> HIDE DEF data
    <3>2. data \in Seq(Bytes) /\ Len(data) = Len(d) + 1 /\ \A i \in 1..Len(d) : data[i] = d[i]
      <4> DEFINE more == Append(d, zero)
      <4>1. more \in Seq(Bytes) /\ Len(more) = Len(d) + 1 /\ \A i \in 1..Len(d) : more[i] = d[i]
        BY <2>7, AppendProperties
      <4> QED
        BY <3>1, <4>1
    <3>3. 1 \in 1..Len(d) /\ 2 \in 1..Len(d) /\ 3 \in 1..Len(d)
      BY <2>5, <2>7
    <3> QED
      BY <2>5, <2>7, <3>2, <3>3
  <2> HIDE DEF data
  <2>9. ~EndsAtChip(data, 3)
    <3>1. BytesOf(data[3]) = Len(record)
      <4> DEFINE n == Len(record)
      <4>1. n \in Nat
        BY <2>5
      <4> HIDE DEF n
      <4>2. (2 * n + 1) \div 2 = n
        BY <4>1
      <4> QED
        BY <2>8, <4>2 DEF BytesOf, n
    <3> QED
      BY <2>5, <2>8, <3>1 DEF EndsAtChip
  <2>10. ReadTag(data) = Fault
    BY <2>2, <2>8, <2>9, Zenon DEF ReadTag
  <2>11. Meaning(ReadAnswer, data) = Fault
    <3>1. Len(data) > 2 /\ data[2] \in Decodable
      BY <1>0, <2>5, <2>8
    <3> QED
      BY <2>8, <2>10, <3>1, ClassifiesTag
  <2> QED
    BY <1>0, <2>1, <2>8, <2>11
<1>6. \/ \E flags \in Decodable, record \in Records :
            item = [opcode |-> ReadAnswer, data |-> Payload(flags, record),
                    means |-> [is |-> "read", chip |-> Chip(record, Has(flags, ProtocolFlag))]]
      \/ item = [opcode |-> NoTags, data |-> <<>>, means |-> [is |-> "alive"]]
      \/ \E record \in Records :
            item = [opcode |-> OtherAnswer, data |-> Payload(0, record), means |-> Fault]
      \/ \E record \in Records :
            item = [opcode |-> ReadAnswer, data |-> <<TagKind, 4, 0>> \o Tail(Tail(Payload(0, record))),
                    means |-> Fault]
      \/ \E record \in Records :
            item = [opcode |-> ReadAnswer, data |-> Append(Payload(0, record), 0), means |-> Fault]
  <2> DEFINE reads == {[opcode |-> ReadAnswer, data |-> Payload(flags, record),
                        means |-> [is |-> "read", chip |-> Chip(record, Has(flags, ProtocolFlag))]]
                          : flags \in Decodable, record \in Records}
             alive == {[opcode |-> NoTags, data |-> <<>>, means |-> [is |-> "alive"]]}
             others == {[opcode |-> OtherAnswer, data |-> Payload(0, record), means |-> Fault]
                          : record \in Records}
             strange == {[opcode |-> ReadAnswer, data |-> <<TagKind, 4, 0>> \o Tail(Tail(Payload(0, record))),
                          means |-> Fault] : record \in Records}
             long == {[opcode |-> ReadAnswer, data |-> Append(Payload(0, record), 0),
                       means |-> Fault] : record \in Records}
  <2>1. item \in reads \/ item \in alive \/ item \in others \/ item \in strange \/ item \in long
    <3>1. Meant = reads \cup alive \cup others \cup strange \cup long
      BY DEF Meant
    <3> HIDE DEF reads, alive, others, strange, long
    <3> QED
      BY <3>1
  <2>2. item \in reads => \E flags \in Decodable, record \in Records :
            item = [opcode |-> ReadAnswer, data |-> Payload(flags, record),
                    means |-> [is |-> "read", chip |-> Chip(record, Has(flags, ProtocolFlag))]]
    OBVIOUS
  <2>3. item \in alive => item = [opcode |-> NoTags, data |-> <<>>, means |-> [is |-> "alive"]]
    BY Zenon
  <2>4. item \in others => \E record \in Records :
            item = [opcode |-> OtherAnswer, data |-> Payload(0, record), means |-> Fault]
    BY Zenon
  <2>5. item \in strange => \E record \in Records :
            item = [opcode |-> ReadAnswer, data |-> <<TagKind, 4, 0>> \o Tail(Tail(Payload(0, record))),
                    means |-> Fault]
    BY Zenon
  <2>6. item \in long => \E record \in Records :
            item = [opcode |-> ReadAnswer, data |-> Append(Payload(0, record), 0), means |-> Fault]
    BY Zenon
  <2> HIDE DEF reads, alive, others, strange, long
  <2> QED
    BY <2>1, <2>2, <2>3, <2>4, <2>5, <2>6, Zenon
<1> QED
  BY <1>1, <1>2, <1>3, <1>4, <1>5, <1>6, Zenon


(* The bytes of a frame are a frame, and nothing besides.                  *)
Framed(b, opcode, data) ==
    /\ b \in Seq(Bytes) /\ Len(b) = 4 + Len(data)
    /\ FrameAt(b, 0) /\ Size(b, 0) = Len(b)
    /\ b[3] = opcode /\ SubSeq(b, 4, Len(b) - 1) = data

LEMMA FrameIs ==
    ASSUME NEW opcode \in Bytes, NEW data \in Seq(Bytes), Len(data) <= MaxData,
           NEW b, b = Frame(opcode, data)
    PROVE  Framed(b, opcode, data)
<1> DEFINE n == Len(data)
           a == <<n, opcode>>
           covered == a \o data
           code == CheckOf(covered)
           sc == <<SOH>> \o covered
<1>1. n \in 0..8 /\ n \in Bytes /\ SOH \in Bytes
  <2>1. n \in Nat
    OBVIOUS
  <2>2. n <= 8
    BY DEF MaxData
  <2> HIDE DEF n
  <2> QED
    BY <2>1, <2>2 DEF Bytes, SOH
<1>2. a \in Seq(Bytes) /\ Len(a) = 2 /\ a[1] = n /\ a[2] = opcode
  BY <1>1
<1>3. Joined(covered, a, data)
  <2> HIDE DEF a
  <2> QED
    BY <1>2, Behind
<1>4. /\ covered \in Seq(Bytes) /\ Len(covered) = 2 + n
      /\ covered[1] = n /\ covered[2] = opcode /\ SubSeq(covered, 3, 2 + n) = data
  <2>1. 1 \in 1..Len(a) /\ 2 \in 1..Len(a) /\ Len(a) + 1 = 3 /\ Len(a) + Len(data) = 2 + n
    BY <1>2
  <2> HIDE DEF a, covered
  <2> QED
    BY <1>2, <1>3, <2>1 DEF Joined
<1>5. code \in Bytes
  <2> HIDE DEF covered
  <2> QED
    BY <1>4, CheckIsAByte DEF code
<1>6. Joined(sc, <<SOH>>, covered)
  <2>1. <<SOH>> \in Seq(Bytes)
    BY <1>1
  <2> HIDE DEF covered
  <2> QED
    BY <1>4, <2>1, Behind
<1>7. /\ sc \in Seq(Bytes) /\ Len(sc) = 3 + n /\ sc[1] = SOH
      /\ \A i \in 1..(2 + n) : sc[1 + i] = covered[i]
      /\ SubSeq(sc, 2, 3 + n) = covered
  <2>1. Len(<<SOH>>) = 1 /\ <<SOH>>[1] = SOH /\ 1 \in 1..1
    OBVIOUS
  <2>2. 1 + Len(covered) = 3 + n
    BY <1>1, <1>4
  <2> HIDE DEF covered, sc, n
  <2> QED
    BY <1>4, <1>6, <2>1, <2>2 DEF Joined
<1>8. b = sc \o <<code>>
  BY <1>4, <1>5 DEF Frame
<1>9. Joined(b, sc, <<code>>)
  <2>1. <<code>> \in Seq(Bytes)
    BY <1>5
  <2> HIDE DEF sc, code
  <2> QED
    BY <1>7, <1>8, <2>1, Behind
<1>10. /\ b \in Seq(Bytes) /\ Len(b) = 4 + n /\ \A i \in 1..(3 + n) : b[i] = sc[i]
       /\ b[4 + n] = code
  <2>1. Len(<<code>>) = 1 /\ <<code>>[1] = code /\ 1 \in 1..1
    OBVIOUS
  <2>2. Len(sc) + 1 = 4 + n
    BY <1>1, <1>7
  <2> HIDE DEF sc, code, n
  <2> QED
    BY <1>7, <1>9, <2>1, <2>2 DEF Joined
<1>11. b[1] = SOH /\ b[2] = n /\ b[3] = opcode
  <2>1. /\ 1 \in 1..(3 + n) /\ 2 \in 1..(3 + n) /\ 3 \in 1..(3 + n)
        /\ 1 \in 1..(2 + n) /\ 2 \in 1..(2 + n) /\ 1 + 1 = 2 /\ 1 + 2 = 3
    BY <1>1
  <2>2. sc[2] = n /\ sc[3] = opcode
    <3> HIDE DEF sc, covered, n
    <3>1. sc[1 + 1] = covered[1] /\ sc[1 + 2] = covered[2]
      BY <1>7, <2>1
    <3> QED
      BY <1>4, <2>1, <3>1
  <2> HIDE DEF sc, covered, n
  <2> QED
    BY <1>7, <1>10, <2>1, <2>2
<1>12. Window(sc, b, 0)
  <2>1. \A i \in 1..Len(sc) : i \in 1..(3 + n) /\ 0 + i = i
    BY <1>7
  <2> HIDE DEF sc, n
  <2> QED
    BY <1>1, <1>7, <1>10, <2>1 DEF Window
<1>13. SubSeq(sc, 2, 3 + n) = SubSeq(b, 2, 3 + n)
  <2>1. 2 \in 1..(Len(sc) + 1) /\ 3 + n \in (2 - 1)..Len(sc) /\ 0 + 2 = 2 /\ 0 + (3 + n) = 3 + n /\ 0 \in Nat
    BY <1>1, <1>7
  <2>2. SubSeq(sc, 2, 3 + n) = SubSeq(b, 0 + 2, 0 + (3 + n))
    <3> HIDE DEF sc, n
    <3> QED
      BY <1>7, <1>10, <1>12, <2>1, SubSeqWindow
  <2> HIDE DEF sc, n
  <2> QED
    BY <2>1, <2>2
<1>14. Window(covered, b, 1)
  <2>1. \A i \in 1..(2 + n) : 1 + i \in 1..(3 + n)
    BY <1>1
  <2>2. 1 + Len(covered) <= Len(b)
    BY <1>1, <1>4, <1>10
  <2> HIDE DEF covered, sc, n
  <2> QED
    BY <1>4, <1>7, <1>10, <2>1, <2>2 DEF Window
<1>15. SubSeq(b, 4, 3 + n) = data
  <2>1. 3 \in 1..(Len(covered) + 1) /\ 2 + n \in (3 - 1)..Len(covered) /\ 1 + 3 = 4 /\ 1 + (2 + n) = 3 + n
    BY <1>1, <1>4
  <2>2. SubSeq(covered, 3, 2 + n) = SubSeq(b, 1 + 3, 1 + (2 + n))
    <3>1. 1 \in Nat
      OBVIOUS
    <3> HIDE DEF covered, n
    <3> QED
      BY SMTT(60), <1>4, <1>10, <1>14, <2>1, <3>1, SubSeqWindow
  <2> HIDE DEF covered, n
  <2> QED
    BY <1>4, <2>1, <2>2
<1>16. FrameAt(b, 0) /\ Size(b, 0) = 4 + n
  <2>1. /\ 0 + 1 = 1 /\ 0 + 2 = 2 /\ 0 + 4 + n = 4 + n /\ 0 + 3 + n = 3 + n /\ 2 <= 4 + n /\ n <= MaxData
    BY <1>1 DEF MaxData
  <2>2. code = CheckOf(SubSeq(b, 2, 3 + n))
    BY <1>7, <1>13
  <2>3. 4 + n <= Len(b)
    BY <1>1, <1>10
  <2> HIDE DEF sc, covered, code, n
  <2> QED
    BY <1>10, <1>11, <2>1, <2>2, <2>3 DEF FrameAt, Size
<1>17. Len(b) - 1 = 3 + n
  BY <1>1, <1>10
<1> HIDE DEF sc, covered, code
<1> QED
  BY <1>10, <1>11, <1>15, <1>16, <1>17 DEF Framed

-----------------------------------------------------------------------------
(***************************************************************************)
(* Pieces of a stream.                                                     *)
(***************************************************************************)

(* A piece is what stands between its two ends.                            *)
LEMMA PieceIs ==
    ASSUME NEW s \in Seq(Bytes), NEW u \in Seq(Bytes), NEW k \in Nat, Window(s, u, k)
    PROVE  s = SubSeq(u, k + 1, k + Len(s))
<1> DEFINE n == Len(s)
<1>1. n \in Nat
  OBVIOUS
<1>2. 1 \in 1..(n + 1) /\ n \in (1 - 1)..n
  BY <1>1
<1>3. SubSeq(s, 1, n) = SubSeq(u, k + 1, k + n)
  BY <1>2, SubSeqWindow
<1>4. SubSeq(s, 1, n) = s
  OBVIOUS
<1> QED
  BY <1>3, <1>4

(* And what stands between two places is a piece.                          *)
Cuts(s, u, a, z) == s \in Seq(Bytes) /\ Len(s) = z - a /\ Window(s, u, a)

LEMMA CutOut ==
    ASSUME NEW u \in Seq(Bytes), NEW a \in Nat, NEW z \in Nat, a <= z, z <= Len(u),
           NEW s, s = SubSeq(u, a + 1, z)
    PROVE  Cuts(s, u, a, z)
<1>0. Len(u) \in Nat
  OBVIOUS
<1>1. /\ s \in Seq(Bytes)
      /\ Len(s) = (IF a + 1 <= z THEN z - (a + 1) + 1 ELSE 0)
      /\ \A i \in 1..(z - (a + 1) + 1) : s[i] = u[(a + 1) + i - 1]
  <2>1. \A i \in (a + 1)..z : u[i] \in Bytes
    <3>1. \A i \in (a + 1)..z : i \in 1..Len(u)
      BY <1>0
    <3> QED
      BY <3>1, ElementOfSeq
  <2>2. a + 1 \in Int /\ z \in Int
    OBVIOUS
  <2> QED
    BY <2>1, <2>2, SubSeqProperties
<1>2. Len(s) = z - a
  BY <1>1
<1>3. a + Len(s) <= Len(u)
  BY <1>0, <1>2
<1>4. ASSUME NEW i \in 1..Len(s)
      PROVE  s[i] = u[a + i]
  <2>1. i \in 1..(z - (a + 1) + 1) /\ (a + 1) + i - 1 = a + i
    BY <1>2
  <2> QED
    BY <1>1, <2>1
<1> QED
  BY <1>1, <1>2, <1>3, <1>4 DEF Window, Cuts

(* A piece, and the one behind it.                                         *)
Together(d, s, t, u, k) == d \in Seq(Bytes) /\ Len(d) = Len(s) + Len(t) /\ Window(d, u, k)

LEMMA TwoPieces ==
    ASSUME NEW s \in Seq(Bytes), NEW t \in Seq(Bytes), NEW u \in Seq(Bytes), NEW k \in Nat,
           Window(s, u, k), Window(t, u, k + Len(s)), NEW d, d = s \o t
    PROVE  Together(d, s, t, u, k)
<1>0. Len(s) \in Nat /\ Len(t) \in Nat /\ Len(u) \in Nat
  OBVIOUS
<1>1. Joined(d, s, t)
  BY Behind
<1>2. d \in Seq(Bytes) /\ Len(d) = Len(s) + Len(t)
  BY <1>1 DEF Joined
<1>3. k + Len(d) <= Len(u)
  BY <1>0, <1>2 DEF Window
<1>4. ASSUME NEW i \in 1..Len(d)
      PROVE  d[i] = u[k + i]
  <2>1. CASE i <= Len(s)
    <3>1. i \in 1..Len(s)
      BY <1>0, <2>1
    <3> QED
      BY <1>1, <3>1 DEF Joined, Window
  <2>2. CASE i > Len(s)
    <3> DEFINE j == i - Len(s)
    <3>1. j \in 1..Len(t) /\ i = Len(s) + j /\ k + Len(s) + j = k + i
      BY <1>0, <1>2, <2>2
    <3> HIDE DEF j
    <3>2. d[Len(s) + j] = t[j] /\ t[j] = u[k + Len(s) + j]
      BY <1>1, <3>1 DEF Joined, Window
    <3> QED
      BY <3>1, <3>2
  <2>3. i <= Len(s) \/ i > Len(s)
    BY <1>0
  <2> QED
    BY <2>1, <2>2, <2>3
<1> QED
  BY <1>2, <1>3, <1>4 DEF Window, Together

(* A piece of a piece.                                                     *)
LEMMA PieceOfPiece ==
    ASSUME NEW t \in Seq(Bytes), NEW s \in Seq(Bytes), NEW u \in Seq(Bytes), NEW j \in Nat, NEW k \in Nat,
           Window(t, s, j), Window(s, u, k)
    PROVE  Window(t, u, k + j)
<1>0. Len(s) \in Nat /\ Len(t) \in Nat /\ Len(u) \in Nat
  OBVIOUS
<1>1. k + j + Len(t) <= Len(u)
  BY <1>0 DEF Window
<1>2. ASSUME NEW i \in 1..Len(t)
      PROVE  t[i] = u[k + j + i]
  <2>1. j + i \in 1..Len(s) /\ k + (j + i) = k + j + i
    BY <1>0 DEF Window
  <2>2. t[i] = s[j + i] /\ s[j + i] = u[k + (j + i)]
    BY <2>1 DEF Window
  <2> QED
    BY <2>1, <2>2
<1> QED
  BY <1>1, <1>2 DEF Window

(* A stream grows at its end.                                              *)
LEMMA Longer ==
    ASSUME NEW s \in Seq(Bytes), NEW t \in Seq(Bytes), NEW d, d = s \o t
    PROVE  /\ d \in Seq(Bytes) /\ Len(d) = Len(s) + Len(t)
           /\ Window(s, d, 0) /\ Window(t, d, Len(s))
<1>0. Len(s) \in Nat /\ Len(t) \in Nat
  OBVIOUS
<1>1. Joined(d, s, t)
  BY Behind
<1>2. d \in Seq(Bytes) /\ Len(d) = Len(s) + Len(t)
  BY <1>1 DEF Joined
<1>3. 0 + Len(s) <= Len(d) /\ Len(s) + Len(t) <= Len(d) /\ \A i \in 1..Len(s) : 0 + i = i
  BY <1>0, <1>2
<1>4. (\A i \in 1..Len(s) : d[i] = s[i]) /\ (\A i \in 1..Len(t) : d[Len(s) + i] = t[i])
  BY <1>1 DEF Joined
<1> QED
  BY <1>2, <1>3, <1>4 DEF Window

-----------------------------------------------------------------------------
(***************************************************************************)
(* The frames that were sent, and what is handed over of them.             *)
(***************************************************************************)

(* The stream s has the frame f in it, and it says what it is meant to.    *)
IsSent(s, f) ==
    /\ f.from \in Nat /\ f.to \in Nat /\ f.to <= Len(s)
    /\ FrameAt(s, f.from) /\ f.from + Size(s, f.from) = f.to
    /\ Meaning(s[f.from + 3], SubSeq(s, f.from + 4, f.to - 1)) = f.means

(* How long a frame is.                                                    *)
LEMMA SentSpan ==
    ASSUME NEW s \in Seq(Bytes), NEW f, IsSent(s, f)
    PROVE  f.from \in 0..(Len(s) - 1) /\ f.to \in (f.from + 4)..Len(s)
<1>1. f.from \in Nat /\ f.to \in Nat /\ f.to <= Len(s) /\ f.from + Size(s, f.from) = f.to
  BY DEF IsSent
<1>2. f.from \in 0..Len(s)
  <2>1. f.from + 2 <= Len(s)
    BY Zenon DEF IsSent, FrameAt
  <2> QED
    BY <1>1, <2>1
<1>3. f.from < Len(s) /\ f.from + Size(s, f.from) \in (f.from + 4)..Len(s)
  <2>1. FrameAt(s, f.from)
    BY DEF IsSent
  <2> QED
    BY <1>2, <2>1, FrameFits
<1> QED
  BY <1>1, <1>2, <1>3

(* A frame is in a stream as it is in the stream's beginning.              *)
LEMMA SentIn ==
    ASSUME NEW s \in Seq(Bytes), NEW u \in Seq(Bytes), Window(s, u, 0), NEW f, f.to \in Nat, f.to <= Len(s)
    PROVE  IsSent(s, f) <=> IsSent(u, f)
<1>0. Len(s) \in Nat /\ Len(u) \in Nat /\ Len(s) <= Len(u)
  BY DEF Window
<1>1. ASSUME NEW a \in Nat, a = f.from, a + 4 <= f.to
      PROVE  /\ s[a + 3] = u[a + 3]
             /\ SubSeq(s, a + 4, f.to - 1) = SubSeq(u, a + 4, f.to - 1)
  <2>1. a + 3 \in 1..Len(s) /\ 0 + (a + 3) = a + 3
    BY SMTT(60), <1>0, <1>1
  <2>2. s[a + 3] = u[0 + (a + 3)]
    BY <2>1 DEF Window
  <2>3. /\ a + 4 \in 1..(Len(s) + 1) /\ f.to - 1 \in (a + 4 - 1)..Len(s) /\ 0 \in Nat
        /\ 0 + (a + 4) = a + 4 /\ 0 + (f.to - 1) = f.to - 1
    BY SMTT(60), <1>0, <1>1
  <2>4. SubSeq(s, a + 4, f.to - 1) = SubSeq(u, 0 + (a + 4), 0 + (f.to - 1))
    BY SMTT(60), <2>3, SubSeqWindow
  <2> QED
    BY <2>1, <2>2, <2>3, <2>4
<1>2. ASSUME NEW a \in Nat, a = f.from, a < Len(s)
      PROVE  /\ FrameAt(s, a) <=> FrameAt(u, a) /\ a + Size(u, a) <= Len(s)
             /\ FrameAt(s, a) => Size(s, a) = Size(u, a)
  <2>1. a \in 0..(Len(s) - 1) /\ 0 + a = a /\ 0 \in Nat
    BY <1>0, <1>2
  <2>2. /\ FrameAt(s, a) <=> FrameAt(u, 0 + a) /\ a + Size(u, 0 + a) <= Len(s)
        /\ FrameAt(s, a) => Size(s, a) = Size(u, 0 + a)
    BY <2>1, InWindow
  <2> QED
    BY <2>1, <2>2
<1>3. ASSUME IsSent(s, f)
      PROVE  IsSent(u, f)
  <2>1. f.from \in 0..(Len(s) - 1) /\ f.to \in (f.from + 4)..Len(s)
    BY <1>3, SentSpan
  <2>2. f.from \in Nat /\ f.from + 4 <= f.to /\ f.from < Len(s) /\ f.to <= Len(u)
    BY <1>0, <2>1
  <2>3. FrameAt(u, f.from) /\ Size(u, f.from) = Size(s, f.from)
    BY <1>2, <1>3, <2>2 DEF IsSent
  <2>4. /\ s[f.from + 3] = u[f.from + 3]
        /\ SubSeq(s, f.from + 4, f.to - 1) = SubSeq(u, f.from + 4, f.to - 1)
    BY <1>1, <2>2
  <2> QED
    BY <1>3, <2>2, <2>3, <2>4 DEF IsSent
<1>4. ASSUME IsSent(u, f)
      PROVE  IsSent(s, f)
  <2>1. f.from \in 0..(Len(u) - 1) /\ f.to \in (f.from + 4)..Len(u)
    BY <1>4, SentSpan
  <2>2. f.from \in Nat /\ f.from + 4 <= f.to /\ f.from < Len(s)
    BY <1>0, <2>1
  <2>3. f.from + Size(u, f.from) = f.to
    BY <1>4 DEF IsSent
  <2>4. FrameAt(s, f.from) /\ Size(u, f.from) = Size(s, f.from)
    BY <1>2, <1>4, <2>2, <2>3 DEF IsSent
  <2>5. /\ s[f.from + 3] = u[f.from + 3]
        /\ SubSeq(s, f.from + 4, f.to - 1) = SubSeq(u, f.from + 4, f.to - 1)
    BY <1>1, <2>2
  <2> QED
    BY <1>4, <2>2, <2>4, <2>5 DEF IsSent
<1> QED
  BY <1>3, <1>4

(* A frame the module writes is in the stream from then on.                *)
EndsWith(u, s, b, means) ==
    /\ b \in Seq(Bytes) /\ Len(b) \in 4..MaxFrame
    /\ IsSent(u, [from |-> Len(s), to |-> Len(s) + Len(b), means |-> means])

LEMMA NewlySent ==
    ASSUME NEW s \in Seq(Bytes), NEW item \in Meant, Len(item.data) <= MaxData,
           NEW b, b = Frame(item.opcode, item.data), NEW u, u = s \o b
    PROVE  EndsWith(u, s, b, item.means)
<1> DEFINE n == Len(s)
           z == n + Len(b)
           f == [from |-> n, to |-> z, means |-> item.means]
<1>1. /\ item.opcode \in Bytes /\ item.data \in Seq(Bytes)
      /\ Meaning(item.opcode, item.data) = item.means
  BY MeantIs
<1>2. /\ b \in Seq(Bytes) /\ Len(b) = 4 + Len(item.data)
      /\ FrameAt(b, 0) /\ Size(b, 0) = Len(b)
      /\ b[3] = item.opcode /\ SubSeq(b, 4, Len(b) - 1) = item.data
  <2>1. Framed(b, item.opcode, item.data)
    BY <1>1, FrameIs
  <2> QED
    BY <2>1 DEF Framed
<1>3. Len(b) \in 4..MaxFrame
  <2> DEFINE m == Len(item.data)
  <2>1. m \in Nat /\ m <= 8
    BY <1>1 DEF MaxData
  <2>2. Len(b) = 4 + m
    BY <1>2
  <2> HIDE DEF m
  <2> QED
    BY <2>1, <2>2 DEF MaxFrame, HeaderLen, MaxData
<1>4. u \in Seq(Bytes) /\ Len(u) = n + Len(b) /\ Window(b, u, n) /\ n \in Nat
  <2>1. b \in Seq(Bytes)
    BY <1>2
  <2>2. u \in Seq(Bytes) /\ Len(u) = Len(s) + Len(b) /\ Window(b, u, Len(s))
    BY <2>1, Longer
  <2> QED
    BY <2>2
<1>5. Len(b) \in Nat /\ Len(b) >= 4
  BY <1>3
<1>6. FrameAt(u, n) /\ Size(u, n) = Len(b)
  <2>1. 0 \in 0..(Len(b) - 1) /\ n + 0 = n
    BY <1>4, <1>5
  <2>2. FrameAt(u, n + 0) /\ Size(b, 0) = Size(u, n + 0)
    BY ZenonT(60), <1>2, <1>4, <2>1, InWindow
  <2> QED
    BY <1>2, <2>1, <2>2
<1>7. u[n + 3] = item.opcode
  <2>1. 3 \in 1..Len(b)
    BY <1>5
  <2> QED
    BY <1>2, <1>4, <2>1 DEF Window
<1>8. SubSeq(u, n + 4, z - 1) = item.data
  <2>1. 4 \in 1..(Len(b) + 1) /\ Len(b) - 1 \in (4 - 1)..Len(b) /\ n + (Len(b) - 1) = z - 1
    BY <1>4, <1>5
  <2>2. SubSeq(b, 4, Len(b) - 1) = SubSeq(u, n + 4, n + (Len(b) - 1))
    BY SMTT(60), <1>2, <1>4, <2>1, SubSeqWindow
  <2> QED
    BY <1>2, <2>1, <2>2
<1>9. IsSent(u, f)
  <2>1. f.from = n /\ f.to = z /\ f.means = item.means
    OBVIOUS
  <2>2. z \in Nat /\ z <= Len(u)
    BY <1>4, <1>5
  <2> HIDE DEF n, z, f
  <2>3. n + Size(u, n) = z
    BY <1>6 DEF z
  <2> QED
    BY <1>1, <1>4, <1>6, <1>7, <1>8, <2>1, <2>2, <2>3 DEF IsSent
<1> QED
  BY <1>2, <1>3, <1>9 DEF EndsWith

(* No two of the frames have a byte in common.                             *)
Apart(S) == \A f, g \in S : f = g \/ f.to <= g.from \/ g.to <= f.from

(* And none begins before a place and ends behind it.                      *)
NoneAcross(S, z) == \A f \in S : f.to <= z \/ z <= f.from

(* What was sent in front of a place was handed over, or something that    *)
(* took a part of it and is nothing that was sent.                         *)
Disturbs(y, f, S) == Overlap(y, f) /\ \A g \in S : y.from # g.from

Covers(H, high, S) == \A f \in S : f.from < high => \E y \in H : y = At(f) \/ Disturbs(y, f, S)

(* A scan goes on where the scans before it stopped.                       *)
LEMMA ScanCoversSent ==
    ASSUME NEW s \in Seq(Bytes), NEW u \in Seq(Bytes), NEW k \in Nat, Window(s, u, k),
           NEW giveUp \in BOOLEAN, NEW S, \A f \in S : IsSent(u, f), Apart(S),
           ~giveUp \/ NoneAcross(S, k + Len(s)),
           NEW H, Covers(H, k, S), NEW sc, sc = Scan(s, k, giveUp)
    PROVE  Covers(H \cup Elements(sc.frames), k + sc.at, S)
<1> DEFINE scan == ScanFrom(s, k, giveUp)
<1>0. Len(s) \in Nat /\ Len(u) \in Nat /\ k + Len(s) <= Len(u) /\ 0 \in 0..Len(s)
  BY DEF Window
<1>1. sc = scan[0]
  BY DEF Scan
<1>2. sc.at \in 0..Len(s)
  <2> HIDE DEF scan
  <2>1. scan = ScanFrom(s, k, giveUp)
    BY DEF scan
  <2>2. scan[0].at \in 0..Len(s)
    BY <1>0, <2>1, ScanFields
  <2> QED
    BY <1>1, <2>2
<1>3. SUFFICES ASSUME NEW f \in S, f.from < k + sc.at
               PROVE  \E y \in H \cup Elements(sc.frames) : y = At(f) \/ Disturbs(y, f, S)
  BY DEF Covers
<1>4. /\ f.from \in 0..(Len(u) - 1) /\ f.to \in (f.from + 4)..Len(u)
      /\ IsSent(u, f)
  BY SentSpan
<1>5. CASE f.from < k
  BY <1>5 DEF Covers
<1>6. CASE k <= f.from
  <2> DEFINE a == f.from - k
  <2>1. a \in 0..(Len(s) - 1) /\ k + a = f.from /\ a < sc.at
    BY SMTT(60), <1>0, <1>2, <1>3, <1>4, <1>6
  <2>2. FrameAt(u, k + a) /\ k + a + Size(u, k + a) = f.to
    BY <1>4, <2>1 DEF IsSent
  <2>3. FrameAt(s, a) \/ (WaitsAt(s, a) /\ ~giveUp)
    <3>1. CASE FrameAt(s, a)
      BY <3>1
    <3>2. CASE ~FrameAt(s, a)
      <4> HIDE DEF a
      <4>1. WaitsAt(s, a)
        BY <2>1, <2>2, <3>2, InWindow
      <4>2. ~(a + Size(u, k + a) <= Len(s))
        BY <2>1, <2>2, <3>2, InWindow
      <4>3. k + Len(s) < f.to
        <5> DEFINE m == Size(u, k + a)
        <5>1. m \in Int
          <6>1. k + a \in 0..Len(u)
            BY <1>0, <2>1
          <6> QED
            BY <2>2, <6>1, FrameFits
        <5>2. k + a + m = f.to /\ ~(a + m <= Len(s)) /\ a \in Int
          BY <2>1, <2>2, <4>2
        <5> HIDE DEF m
        <5> QED
          BY <1>0, <5>1, <5>2
      <4>4. ~NoneAcross(S, k + Len(s))
        <5>1. ~(f.to <= k + Len(s)) /\ ~(k + Len(s) <= f.from)
          BY SMTT(60), <1>0, <1>4, <2>1, <4>3
        <5> QED
          BY <5>1 DEF NoneAcross
      <4> QED
        BY <4>1, <4>4
    <3> QED
      BY <3>1, <3>2
  <2> HIDE DEF a
  <2>4. PICK y \in Elements(scan[0].frames), x \in 0..Len(s) : Spans(s, k, a, x, y)
    <3> HIDE DEF scan
    <3>1. scan = ScanFrom(s, k, giveUp)
      BY DEF scan
    <3>2. 0 <= a /\ a < scan[0].at
      BY <1>1, <2>1
    <3> QED
      BY <1>0, <2>1, <2>3, <3>1, <3>2, ScanCovers
  <2> HIDE DEF scan
  <2>5. y \in H \cup Elements(sc.frames)
    BY <1>1, <2>4
  <2>6. FrameAt(s, x) /\ y = Place(s, k, x) /\ x <= a /\ a < x + Size(s, x)
    BY <2>4 DEF Spans, IsFrameAt
  <2>7. x \in 0..(Len(s) - 1) /\ Size(s, x) \in 4..12 /\ FrameAt(u, k + x) /\ Size(s, x) = Size(u, k + x)
    <3>1. x < Len(s) /\ Size(s, x) \in 4..12
      BY <2>6, FrameFits
    <3>2. x \in 0..(Len(s) - 1)
      BY <1>0, <3>1
    <3> QED
      BY <2>6, <3>1, <3>2, InWindow
  <2> DEFINE m == Size(s, x)
  <2>8. y.from = k + x /\ y.to = k + x + m /\ y = [from |-> k + x, to |-> k + x + m]
    BY <2>6 DEF Place
  <2>9. y.from <= f.from /\ f.from < y.to
    <3> HIDE DEF m
    <3>1. m \in 4..12 /\ x <= a /\ a < x + m
      BY <2>6, <2>7 DEF m
    <3> QED
      BY <1>0, <2>1, <2>8, <3>1
  <2>10. Overlap(y, f)
    <3>1. y.from \in Int /\ f.from \in Int /\ f.to \in Int /\ f.from < f.to
      BY SMTT(60), <1>4, <2>7, <2>8
    <3>2. y.from < f.to
      BY <2>9, <3>1
    <3> QED
      BY <2>9, <3>2 DEF Overlap
  <2>11. CASE \A g \in S : y.from # g.from
    BY <2>5, <2>10, <2>11 DEF Disturbs
  <2>12. CASE \E g \in S : y.from = g.from
    <3>1. PICK g \in S : y.from = g.from
      BY <2>12
    <3>2. /\ g.from \in 0..(Len(u) - 1) /\ g.to \in (g.from + 4)..Len(u)
          /\ IsSent(u, g)
      BY SentSpan
    <3>3. g.from = k + x /\ g.to = k + x + m
      <4>1. g.from + Size(u, g.from) = g.to
        BY <3>2 DEF IsSent
      <4> QED
        BY <2>7, <2>8, <3>1, <4>1
    <3>4. y = At(g)
      BY <2>8, <3>3 DEF At
    <3>5. g = f
      <4>1. ~(f.to <= g.from)
        BY SMTT(60), <1>4, <2>9, <3>1, <3>2
      <4>2. ~(g.to <= f.from)
        <5>1. f.from < g.to /\ f.from \in Int /\ g.to \in Int
          BY <1>4, <2>8, <2>9, <3>2, <3>3
        <5> QED
          BY <5>1
      <4> QED
        BY <4>1, <4>2 DEF Apart
    <3> QED
      BY <2>5, <3>4, <3>5
  <2> QED
    BY <2>11, <2>12
<1> QED
  BY <1>0, <1>4, <1>5, <1>6

(* Frames that are sent later change nothing of it.                        *)
LEMMA CoversMore ==
    ASSUME NEW S, NEW H, NEW high \in Nat, Covers(H, high, S), NEW new, new.from \in Nat, high <= new.from,
           \A y \in H : y.from \in Nat /\ y.from < high
    PROVE  Covers(H, high, S \cup {new})
<1>1. SUFFICES ASSUME NEW f \in S \cup {new}, f.from < high
               PROVE  \E y \in H : y = At(f) \/ Disturbs(y, f, S \cup {new})
  BY DEF Covers
<1>2. f \in S
  BY <1>1
<1>3. PICK y \in H : y = At(f) \/ Disturbs(y, f, S)
  BY <1>1, <1>2 DEF Covers
<1>4. y.from # new.from
  BY <1>3
<1> QED
  BY <1>3, <1>4 DEF Disturbs

(* Nor do frames that never arrive.                                        *)
LEMMA CoversFewer ==
    ASSUME NEW S, NEW T, T \subseteq S, NEW H, NEW high, Covers(H, high, S)
    PROVE  Covers(H, high, T)
  BY DEF Covers, Disturbs

(* What is in order stays so.                                              *)
Advances(sc, s, fs, low, k) ==
    /\ Tidy(fs \o sc.frames, low, k + sc.at)
    /\ sc.frames \in Seq(Handed) /\ sc.at \in 0..Len(s)
    /\ Elements(fs \o sc.frames) = Elements(fs) \cup Elements(sc.frames)

LEMMA ScanGoesOn ==
    ASSUME NEW s \in Seq(Bytes), NEW k \in Nat, NEW giveUp \in BOOLEAN,
           NEW fs, NEW low, Tidy(fs, low, k), NEW sc, sc = Scan(s, k, giveUp)
    PROVE  Advances(sc, s, fs, low, k)
<1> DEFINE scan == ScanFrom(s, k, giveUp)
<1>0. 0 \in 0..Len(s) /\ scan = ScanFrom(s, k, giveUp)
  OBVIOUS
<1>1. sc = scan[0]
  BY DEF Scan
<1> HIDE DEF scan
<1>2. sc.at \in 0..Len(s) /\ sc.frames \in Seq(Handed)
  BY <1>0, <1>1, ScanFields
<1>3. Tidy(sc.frames, k, k + sc.at)
  <2>1. Tidy(scan[0].frames, k + 0, k + scan[0].at)
    BY <1>0, ScanTidy
  <2> QED
    BY <1>1, <2>1
<1>4. Tidy(fs \o sc.frames, low, k + sc.at)
  BY <1>3, TidyBoth
<1>5. fs \in Seq(Handed)
  BY DEF Tidy
<1> QED
  BY <1>2, <1>4, <1>5, ElementsOfBoth DEF Advances

(* What a scan keeps is the end of its piece, less than a frame; nothing,  *)
(* where it does not wait.                                                 *)
Kept(rest, s, u, k, sc, giveUp) ==
    /\ rest \in Seq(Bytes) /\ Len(rest) = Len(s) - sc.at /\ sc.at \in 0..Len(s)
    /\ Window(rest, s, sc.at) /\ Window(rest, u, k + sc.at)
    /\ Len(rest) < MaxFrame /\ (giveUp => rest = <<>>)

LEMMA ScanKeeps ==
    ASSUME NEW s \in Seq(Bytes), NEW u \in Seq(Bytes), NEW k \in Nat, Window(s, u, k),
           NEW giveUp \in BOOLEAN, NEW base \in Nat, NEW sc, sc = Scan(s, base, giveUp),
           NEW rest, rest = SubSeq(s, sc.at + 1, Len(s))
    PROVE  Kept(rest, s, u, k, sc, giveUp)
<1> DEFINE scan == ScanFrom(s, base, giveUp)
<1>0. 0 \in 0..Len(s) /\ Len(s) \in Nat /\ scan = ScanFrom(s, base, giveUp)
  OBVIOUS
<1>1. sc = scan[0]
  BY DEF Scan
<1> HIDE DEF scan
<1> DEFINE a == sc.at
<1>2. a \in 0..Len(s) /\ Stops(s, a, giveUp)
  BY <1>0, <1>1, ScanFields, ScanEnds
<1>3. rest = SubSeq(s, a + 1, Len(s))
  OBVIOUS
<1> HIDE DEF a
<1>4. rest \in Seq(Bytes) /\ Len(rest) = Len(s) - a /\ Window(rest, s, a)
  <2>1. a \in Nat /\ a <= Len(s) /\ Len(s) <= Len(s)
    BY <1>0, <1>2
  <2>2. Cuts(rest, s, a, Len(s))
    BY <1>0, <1>3, <2>1, CutOut
  <2> QED
    BY <2>2 DEF Cuts
<1>5. Window(rest, u, k + a)
  <2>1. a \in Nat
    BY <1>2
  <2> QED
    BY <1>4, <2>1, PieceOfPiece
<1>6. Len(rest) < MaxFrame /\ (giveUp => rest = <<>>)
  <2>1. CASE a = Len(s)
    <3>1. Len(rest) = 0
      BY <1>0, <1>4, <2>1
    <3>2. rest = <<>>
      BY <1>4, <3>1
    <3>3. 0 < MaxFrame
      BY DEF MaxFrame, HeaderLen, MaxData
    <3> QED
      BY <3>1, <3>2, <3>3, Zenon
  <2>2. CASE a # Len(s)
    <3>1. a \in 0..(Len(s) - 1) /\ WaitsAt(s, a) /\ ~giveUp
      BY <1>0, <1>2, <2>2 DEF Stops
    <3>2. Len(s) - a < MaxFrame
      BY <3>1, DecodeIs
    <3> QED
      BY <1>4, <3>1, <3>2
  <2> QED
    BY <2>1, <2>2
<1> QED
  BY <1>2, <1>4, <1>5, <1>6 DEF Kept, a

(* A line of nothing but frames: where one ends the next begins.           *)
Begins(S, p) == p = 0 \/ \E f \in S : f.to = p

Whole(s, S) == \A p \in 0..(Len(s) - 1) : Begins(S, p) => \E f \in S : f.from = p

(* All a scan of it from where a frame begins finds is what was sent.      *)
LEMMA ScanOfWhole ==
    ASSUME NEW s \in Seq(Bytes), NEW u \in Seq(Bytes), NEW k \in Nat, Window(s, u, k),
           NEW giveUp \in BOOLEAN, NEW S, \A f \in S : IsSent(u, f), Whole(u, S),
           ~giveUp \/ k + Len(s) = Len(u),
           Begins(S, k), NEW sc, sc = Scan(s, k, giveUp)
    PROVE  Begins(S, k + sc.at) /\ \A y \in Elements(sc.frames) : \E f \in S : y = At(f)
<1> DEFINE scan == ScanFrom(s, k, giveUp)
           B == {p \in 0..Len(s) : Begins(S, k + p)}
<1>0. Len(s) \in Nat /\ Len(u) \in Nat /\ k + Len(s) <= Len(u) /\ 0 \in 0..Len(s) /\ k + 0 = k
  BY DEF Window
<1>1. sc = scan[0] /\ scan = ScanFrom(s, k, giveUp)
  BY DEF Scan
<1> HIDE DEF scan
<1>2. ASSUME NEW p \in 0..Len(s), p < Len(s), p \in B
      PROVE  \E f \in S : f.from = k + p /\ FrameAt(u, k + p) /\ k + p + Size(u, k + p) = f.to
  <2>1. k + p \in 0..(Len(u) - 1) /\ Begins(S, k + p)
    BY <1>0, <1>2
  <2>2. PICK f \in S : f.from = k + p
    BY <2>1 DEF Whole
  <2>3. FrameAt(u, f.from) /\ f.from + Size(u, f.from) = f.to
    BY DEF IsSent
  <2> QED
    BY <2>2, <2>3
<1>3. ASSUME NEW p \in 0..Len(s), p \in B
      PROVE  Stops(s, p, giveUp) \/ (FrameAt(s, p) /\ p + Size(s, p) \in B)
  <2>1. CASE p = Len(s)
    BY <2>1 DEF Stops
  <2>2. CASE p < Len(s)
    <3>0. p \in 0..(Len(s) - 1)
      BY <1>0, <2>2
    <3>1. PICK f \in S : f.from = k + p /\ FrameAt(u, k + p) /\ k + p + Size(u, k + p) = f.to
      BY <1>2, <1>3, <2>2
    <3>2. CASE FrameAt(s, p)
      <4>1. Size(s, p) = Size(u, k + p)
        BY <3>0, <3>2, InWindow
      <4>2. p + Size(s, p) \in (p + 4)..Len(s) /\ Size(s, p) \in 4..12
        BY <3>2, FrameFits
      <4> DEFINE m == Size(s, p)
      <4>3. k + (p + m) = f.to
        <5>1. k + p + m = f.to /\ m \in 4..12
          BY <3>1, <4>1, <4>2
        <5> HIDE DEF m
        <5> QED
          BY <5>1
      <4>4. Begins(S, k + (p + m))
        BY <4>3 DEF Begins
      <4>5. p + m \in 0..Len(s)
        <5>1. p + m \in (p + 4)..Len(s)
          BY <4>2
        <5> HIDE DEF m
        <5> QED
          BY <5>1
      <4> QED
        BY <3>2, <4>4, <4>5
    <3>3. CASE ~FrameAt(s, p)
      <4>1. WaitsAt(s, p)
        BY <3>0, <3>1, <3>3, InWindow
      <4>2. ~giveUp
        <5>1. k + Len(s) = Len(u) => FrameAt(s, p)
          BY <3>0, <3>1, InWindow
        <5> QED
          BY <3>3, <5>1
      <4> QED
        BY <4>1, <4>2 DEF Stops
    <3> QED
      BY <3>2, <3>3
  <2> QED
    BY <1>0, <2>1, <2>2
<1>4. 0 \in B
  BY <1>0
<1>5. /\ scan[0].at \in B
      /\ \A y \in Elements(scan[0].frames) : \E x \in 0..Len(s) : x \in B /\ IsFrameAt(s, k, x, y)
  <2> HIDE DEF B
  <2> QED
    BY <1>0, <1>1, <1>3, <1>4, ScanTiled
<1>6. ASSUME NEW y \in Elements(sc.frames)
      PROVE  \E f \in S : y = At(f)
  <2>1. PICK x \in 0..Len(s) : x \in B /\ IsFrameAt(s, k, x, y)
    BY <1>1, <1>5, <1>6
  <2>2. FrameAt(s, x) /\ y = Place(s, k, x)
    BY <2>1 DEF IsFrameAt
  <2>3. x < Len(s)
    BY <2>2, FrameFits
  <2>4. PICK f \in S : f.from = k + x /\ FrameAt(u, k + x) /\ k + x + Size(u, k + x) = f.to
    BY <1>2, <2>1, <2>3
  <2>5. Size(s, x) = Size(u, k + x)
    <3>1. x \in 0..(Len(s) - 1)
      BY <1>0, <2>3
    <3> QED
      BY <2>2, <3>1, InWindow
  <2>6. y = [from |-> f.from, to |-> f.to]
    BY <2>2, <2>4, <2>5 DEF Place
  <2> QED
    BY <2>6 DEF At
<1>7. Begins(S, k + sc.at)
  BY <1>1, <1>5
<1> QED
  BY <1>6, <1>7

-----------------------------------------------------------------------------
(***************************************************************************)
(* The reassembler of a connection.                                        *)
(***************************************************************************)

(* What of the stream is taken, what of that is held back.                 *)
LineInv ==
    /\ stream \in Seq(Bytes) /\ Len(stream) <= MaxStream
    /\ taken \in 0..Len(stream) /\ settled \in 0..taken
    /\ damage \in [count : 0..MaxDamage, here : BOOLEAN]
HeldInv ==
    /\ buffer \in Seq(Bytes) /\ Len(buffer) < MaxFrame
    /\ Base(taken) \in Nat /\ Window(buffer, stream, Base(taken))

(* What was sent, and what was handed over of it.                          *)
SentInv == (\A f \in sent : IsSent(stream, f)) /\ Apart(sent)
HandedInv ==
    /\ Tidy(frames, 0, Base(taken))
    /\ Covers(Elements(frames), Base(taken), sent)

(* All since the last silence is as if it had come in one piece.           *)
Pieces(since, whole) ==
    /\ since = SubSeq(stream, settled + 1, taken) /\ whole = Scan(since, settled, FALSE)
    /\ buffer = SubSeq(since, whole.at + 1, Len(since))
    /\ \E old \in Seq(Handed) :
          frames = old \o whole.frames /\ \A i \in DOMAIN old : old[i].to <= settled
SinceInv == \E since, whole : Pieces(since, whole)

(* And where nothing disturbed the line there is nothing but frames on it. *)
CleanInv ==
    ~damage.here =>
        /\ Whole(stream, sent) /\ Begins(sent, Base(taken))
        /\ \A y \in Elements(frames) : \E f \in sent : y = At(f)

FramingInv == LineInv /\ HeldInv /\ SentInv /\ HandedInv /\ SinceInv /\ CleanInv

(* A silence, or the end of a connection, leaves nothing to wait for.      *)
LEMMA SettledIs ==
    ASSUME NEW u \in Seq(Bytes), NEW n \in Nat, n <= Len(u),
           NEW fs, Tidy(fs, 0, n)
    PROVE  /\ SubSeq(u, n + 1, n) = <<>>
           /\ Scan(<<>>, n, FALSE).at = 0 /\ Scan(<<>>, n, FALSE).frames = <<>>
           /\ SubSeq(<<>>, 0 + 1, Len(<<>>)) = <<>> /\ <<>> \o <<>> = <<>>
           /\ fs \in Seq(Handed) /\ fs = fs \o <<>> /\ \A i \in DOMAIN fs : fs[i].to <= n
<1>1. SubSeq(u, n + 1, n) = <<>>
  <2> DEFINE d == SubSeq(u, n + 1, n)
  <2>1. d \in Seq(Bytes) /\ Len(d) = n - n
    <3>1. d = SubSeq(u, n + 1, n) /\ n <= n
      OBVIOUS
    <3> HIDE DEF d
    <3>2. Cuts(d, u, n, n)
      BY <3>1, CutOut
    <3> QED
      BY <3>2 DEF Cuts
  <2>2. Len(d) = 0
    BY <2>1
  <2> HIDE DEF d
  <2>3. d = <<>>
    BY <2>1, <2>2
  <2> QED
    BY <2>3 DEF d
<1>2. Scan(<<>>, n, FALSE).at = 0 /\ Scan(<<>>, n, FALSE).frames = <<>>
  <2>1. PICK s \in Seq(Bytes) : s = <<>>
    <3>1. <<>> \in Seq(Bytes)
      OBVIOUS
    <3> QED
      BY <3>1, Zenon
  <2>2. PICK g \in BOOLEAN : g = FALSE
    OBVIOUS
  <2>3. PICK p \in 0..Len(s) : p = 0
    BY <2>1
  <2> DEFINE scan == ScanFrom(s, n, g)
  <2>4. scan = ScanFrom(s, n, g)
    OBVIOUS
  <2>5. Stops(s, p, g)
    BY <2>1, <2>3 DEF Stops
  <2> HIDE DEF scan
  <2>6. scan[p] = [frames |-> <<>>, at |-> p]
    BY <2>4, <2>5, ScanStops
  <2>7. Scan(s, n, g) = scan[p]
    BY <2>3, <2>4 DEF Scan
  <2>8. scan[p].at = p /\ scan[p].frames = <<>>
    BY <2>6
  <2> QED
    BY <2>1, <2>2, <2>3, <2>7, <2>8
<1>3. SubSeq(<<>>, 0 + 1, Len(<<>>)) = <<>> /\ <<>> \o <<>> = <<>>
  OBVIOUS
<1>4. fs \in Seq(Handed) /\ \A i \in 1..Len(fs) : fs[i].to <= n
  BY DEF Tidy
<1>5. DOMAIN fs = 1..Len(fs) /\ fs = fs \o <<>>
  BY <1>4
<1> QED
  BY <1>1, <1>2, <1>3, <1>4, <1>5

LEMMA FramingInit ==
    Init => FramingInv
<1> SUFFICES ASSUME Init
             PROVE  FramingInv
  OBVIOUS
<1>0. /\ stream = <<>> /\ sent = {} /\ taken = 0 /\ settled = 0 /\ buffer = <<>> /\ frames = <<>>
      /\ damage = [count |-> 0, here |-> FALSE]
  BY DEF Init
<1>1. LineInv
  BY <1>0, Recorded DEF LineInv
<1>2. Base(taken) = 0
  <2>1. Len(buffer) = 0 /\ taken = 0 /\ 0 - 0 = 0
    BY <1>0
  <2> QED
    BY <2>1, Zenon DEF Base
<1>3. HeldInv
  <2>1. Window(buffer, stream, 0)
    BY <1>0 DEF Window
  <2>2. buffer \in Seq(Bytes) /\ Len(buffer) < MaxFrame
    BY <1>0 DEF MaxFrame, HeaderLen, MaxData
  <2> QED
    BY <1>2, <2>1, <2>2 DEF HeldInv
<1>4. SentInv
  BY <1>0 DEF SentInv, Apart
<1>5. Tidy(frames, 0, 0)
  <2>1. 0 \in Nat /\ 0 <= 0
    OBVIOUS
  <2> QED
    BY <1>0, <2>1, TidyNone
<1>6. HandedInv
  BY <1>0, <1>2, <1>5 DEF HandedInv, Covers
<1>7. SinceInv
  <2> DEFINE since == SubSeq(stream, settled + 1, taken)
             whole == Scan(since, settled, FALSE)
  <2>1. /\ since = <<>> /\ whole.at = 0 /\ whole.frames = <<>> /\ frames \in Seq(Handed)
        /\ SubSeq(<<>>, 0 + 1, Len(<<>>)) = <<>> /\ <<>> \o <<>> = <<>>
    <3>1. stream \in Seq(Bytes) /\ 0 \in Nat /\ 0 <= Len(stream)
      BY <1>0
    <3>2. /\ SubSeq(stream, 0 + 1, 0) = <<>>
          /\ Scan(<<>>, 0, FALSE).at = 0 /\ Scan(<<>>, 0, FALSE).frames = <<>>
          /\ frames \in Seq(Handed) /\ SubSeq(<<>>, 0 + 1, Len(<<>>)) = <<>> /\ <<>> \o <<>> = <<>>
      BY <1>5, <3>1, SettledIs
    <3> QED
      BY <1>0, <3>2, Zenon
  <2>2. Pieces(since, whole)
    <3>1. frames = <<>> \o whole.frames
      <4> HIDE DEF whole
      <4> QED
        BY <1>0, <2>1, Zenon
    <3>2. buffer = SubSeq(since, whole.at + 1, Len(since))
      <4> HIDE DEF whole, since
      <4> QED
        BY <1>0, <2>1, Zenon
    <3>3. \A i \in DOMAIN frames : frames[i].to <= settled
      BY <1>0
    <3> HIDE DEF since, whole
    <3>4. since = SubSeq(stream, settled + 1, taken) /\ whole = Scan(since, settled, FALSE)
      BY DEF since, whole
    <3> QED
      BY <1>0, <2>1, <3>1, <3>2, <3>3, <3>4 DEF Pieces
  <2> QED
    BY <2>2, Zenon DEF SinceInv
<1>8. CleanInv
  BY <1>0, <1>2 DEF CleanInv, Whole, Begins, Elements
<1> QED
  BY <1>1, <1>3, <1>4, <1>6, <1>7, <1>8 DEF FramingInv

(* The module's side: the stream grows, and nothing else happens.          *)
LEMMA StreamGrows ==
    ASSUME FramingInv, NEW more \in Seq(Bytes), stream' = stream \o more, Len(stream') <= MaxStream,
           UNCHANGED <<taken, settled, buffer, frames>>
    PROVE  /\ stream' \in Seq(Bytes) /\ Len(stream') = Len(stream) + Len(more)
           /\ taken' \in 0..Len(stream') /\ settled' \in 0..taken'
           /\ Base(taken)' = Base(taken) /\ Base(taken) \in Nat /\ Base(taken) <= Len(stream)
           /\ HeldInv' /\ SinceInv' /\ \A f \in sent : IsSent(stream', f)
<1>0. /\ LineInv /\ HeldInv /\ SentInv /\ SinceInv
      /\ taken' = taken /\ settled' = settled /\ buffer' = buffer /\ frames' = frames
  BY DEF FramingInv
<1>1. /\ stream \in Seq(Bytes) /\ Len(stream) \in Nat /\ taken \in 0..Len(stream) /\ settled \in 0..taken
  BY <1>0 DEF LineInv
<1>2. /\ stream' \in Seq(Bytes) /\ Len(stream') = Len(stream) + Len(more)
      /\ Window(stream, stream', 0)
  BY <1>1, Longer
<1>3. taken' \in 0..Len(stream') /\ settled' \in 0..taken'
  BY <1>0, <1>1, <1>2
<1>4. Base(taken)' = Base(taken) /\ Base(taken) \in Nat /\ Base(taken) <= Len(stream)
  <2>1. Base(taken)' = Base(taken)
    BY <1>0 DEF Base
  <2>2. Base(taken) \in Nat /\ Base(taken) + Len(buffer) <= Len(stream) /\ Len(buffer) \in Nat
    BY <1>0 DEF HeldInv, Window
  <2> HIDE DEF Base
  <2> QED
    BY <1>1, <2>1, <2>2
<1>5. HeldInv'
  <2>1. buffer \in Seq(Bytes) /\ Len(buffer) < MaxFrame /\ Window(buffer, stream, Base(taken))
    BY <1>0 DEF HeldInv
  <2>2. Window(buffer, stream', Base(taken))
    <3>1. PICK o \in Nat : o = 0
      OBVIOUS
    <3>2. Window(stream, stream', o)
      BY <1>2, <3>1
    <3>3. Window(buffer, stream', o + Base(taken))
      BY <1>1, <1>2, <1>4, <2>1, <3>2, PieceOfPiece
    <3>4. o + Base(taken) = Base(taken)
      BY <1>4, <3>1
    <3> QED
      BY <3>3, <3>4
  <2>3. /\ buffer' \in Seq(Bytes) /\ Len(buffer') < MaxFrame
        /\ Base(taken)' \in Nat /\ Window(buffer', stream', Base(taken)')
    <3> HIDE DEF Base
    <3> QED
      BY <1>0, <1>4, <2>1, <2>2
  <2> QED
    BY <2>3 DEF HeldInv
<1>6. SinceInv'
  <2>1. PICK since, whole : Pieces(since, whole)
    BY <1>0 DEF SinceInv
  <2>2. SubSeq(stream', settled + 1, taken) = SubSeq(stream, settled + 1, taken)
    <3>1. /\ settled + 1 \in 1..(Len(stream) + 1) /\ taken \in (settled + 1 - 1)..Len(stream)
          /\ 0 + (settled + 1) = settled + 1 /\ 0 + taken = taken /\ 0 \in Nat
      BY <1>1
    <3>2. SubSeq(stream, settled + 1, taken) = SubSeq(stream', 0 + (settled + 1), 0 + taken)
      BY <1>1, <1>2, <3>1, SubSeqWindow
    <3> QED
      BY <3>1, <3>2
  <2>3. Pieces(since, whole)'
    BY <1>0, <2>1, <2>2, Zenon DEF Pieces
  <2> QED
    BY <2>3, Zenon DEF SinceInv
<1>7. \A f \in sent : IsSent(stream', f)
  <2>1. ASSUME NEW f \in sent
        PROVE  IsSent(stream', f)
    <3>1. IsSent(stream, f) /\ f.to \in Nat /\ f.to <= Len(stream)
      BY <1>0 DEF SentInv, IsSent
    <3> QED
      BY <1>1, <1>2, <3>1, SentIn
  <2> QED
    BY <2>1
<1> QED
  BY <1>2, <1>3, <1>4, <1>5, <1>6, <1>7

(* The reassembler's side: it takes its piece apart, whether it waits or   *)
(* gives up, as long as the frames there are end with it.                  *)
LEMMA ScanStep ==
    ASSUME FramingInv, NEW s \in Seq(Bytes), NEW giveUp \in BOOLEAN,
           stream' \in Seq(Bytes), Window(s, stream', Base(taken)), taken' = Base(taken) + Len(s),
           HandOver(s, Base(taken), giveUp),
           sent' \subseteq sent, \A f \in sent' : IsSent(stream', f),
           ~giveUp \/ NoneAcross(sent', taken')
    PROVE  /\ SentInv' /\ HeldInv' /\ HandedInv'
           /\ Base(taken)' = Base(taken) + Scan(s, Base(taken), giveUp).at
           /\ giveUp => buffer' = <<>> /\ Base(taken)' = taken'
           /\ Elements(frames') = Elements(frames) \cup Elements(Scan(s, Base(taken), giveUp).frames)
<1> DEFINE k == Base(taken)
           sc == Scan(s, k, giveUp)
<1>0. /\ HeldInv /\ SentInv /\ HandedInv
      /\ frames' = frames \o sc.frames /\ buffer' = SubSeq(s, sc.at + 1, Len(s))
  BY DEF FramingInv, HandOver
<1>1. k \in Nat /\ Tidy(frames, 0, k) /\ Covers(Elements(frames), k, sent)
  BY <1>0 DEF HeldInv, HandedInv
<1>2. Apart(sent')
  BY <1>0 DEF SentInv, Apart
<1> DEFINE u == stream'
           S == sent'
           z == taken'
           rest == buffer'
           fs == frames'
<1>3. /\ u \in Seq(Bytes) /\ Window(s, u, k) /\ z = k + Len(s) /\ S \subseteq sent
      /\ (\A f \in S : IsSent(u, f)) /\ Apart(S) /\ (~giveUp \/ NoneAcross(S, k + Len(s)))
      /\ fs = frames \o sc.frames /\ rest = SubSeq(s, sc.at + 1, Len(s)) /\ sc = Scan(s, k, giveUp)
  BY <1>0, <1>2
<1>4. SentInv'
  BY <1>2 DEF SentInv
<1>5. Base(taken)' = z - Len(rest)
  BY DEF Base
<1> HIDE DEF k, sc, u, S, z, rest, fs
<1>6. Kept(rest, s, u, k, sc, giveUp)
  BY <1>1, <1>3, ScanKeeps
<1>7. z - Len(rest) = k + sc.at /\ sc.at \in 0..Len(s) /\ Len(s) \in Nat
  <2>1. Len(rest) = Len(s) - sc.at /\ sc.at \in 0..Len(s) /\ Len(s) \in Nat
    BY <1>6 DEF Kept
  <2> QED
    BY SMTT(60), <1>1, <1>3, <2>1
<1>8. k + sc.at \in Nat
  BY <1>1, <1>7
<1>9. HeldInv'
  <2>1. rest \in Seq(Bytes) /\ Len(rest) < MaxFrame /\ Window(rest, u, k + sc.at)
    BY <1>6 DEF Kept
  <2>2. Base(taken)' \in Nat /\ Window(rest, u, Base(taken)')
    BY <1>5, <1>7, <1>8, <2>1
  <2> QED
    BY <2>1, <2>2 DEF HeldInv, rest, u
<1>10. Tidy(fs, 0, k + sc.at) /\ Elements(fs) = Elements(frames) \cup Elements(sc.frames)
  <2>1. Advances(sc, s, frames, 0, k)
    BY <1>1, <1>3, ScanGoesOn
  <2> QED
    BY <1>3, <2>1 DEF Advances
<1>11. Covers(Elements(fs), k + sc.at, S)
  <2>1. Covers(Elements(frames), k, S)
    BY <1>1, <1>3, CoversFewer
  <2>2. Covers(Elements(frames) \cup Elements(sc.frames), k + sc.at, S)
    BY <1>1, <1>3, <2>1, ScanCoversSent
  <2> QED
    BY <1>10, <2>2
<1>12. HandedInv'
  <2>1. Tidy(fs, 0, Base(taken)') /\ Covers(Elements(fs), Base(taken)', S)
    BY <1>5, <1>7, <1>10, <1>11
  <2> QED
    BY <2>1 DEF HandedInv, fs, S
<1>13. giveUp => rest = <<>> /\ Base(taken)' = z
  <2>1. ASSUME giveUp
        PROVE  rest = <<>> /\ Base(taken)' = z
    <3>1. rest = <<>> /\ Len(<<>>) = 0
      BY <1>6, <2>1 DEF Kept
    <3>2. z \in Nat
      BY <1>1, <1>3, <1>7
    <3> QED
      BY <1>5, <3>1, <3>2
  <2> QED
    BY <2>1
<1> QED
  BY <1>4, <1>5, <1>7, <1>9, <1>10, <1>12, <1>13 DEF k, sc, rest, z, fs

(* The module writes a frame.                                              *)
LEMMA FrameIsSentKeeps ==
    ASSUME FramingInv, FrameIsSent
    PROVE  FramingInv'
<1>1. PICK item \in Meant :
        /\ Len(item.data) <= MaxData
        /\ Len(stream) + Len(Frame(item.opcode, item.data)) <= MaxStream
        /\ stream' = stream \o Frame(item.opcode, item.data)
        /\ sent' = sent \cup {[from |-> Len(stream),
                               to |-> Len(stream) + Len(Frame(item.opcode, item.data)),
                               means |-> item.means]}
  BY DEF FrameIsSent
<1> DEFINE b == Frame(item.opcode, item.data)
           n == Len(stream)
           new == [from |-> n, to |-> n + Len(b), means |-> item.means]
<1>2. UNCHANGED <<taken, settled, buffer, frames>> /\ damage' = damage
  BY DEF FrameIsSent
<1>3. LineInv /\ SentInv /\ HandedInv /\ CleanInv
  BY DEF FramingInv
<1>4. stream \in Seq(Bytes) /\ n \in Nat
  BY <1>3 DEF LineInv
<1>5. b \in Seq(Bytes) /\ Len(b) \in 4..MaxFrame /\ IsSent(stream', new)
  <2>1. b = Frame(item.opcode, item.data) /\ stream' = stream \o b /\ Len(item.data) <= MaxData
    BY <1>1
  <2> HIDE DEF b
  <2>2. EndsWith(stream', stream, b, item.means)
    BY <1>4, <2>1, NewlySent
  <2> QED
    BY <2>2 DEF EndsWith
<1>6. /\ stream' = stream \o b /\ sent' = sent \cup {new} /\ n + Len(b) <= MaxStream
      /\ new.from = n /\ new.to = n + Len(b)
  BY <1>1
<1> HIDE DEF b, new
<1>7. Len(stream') = n + Len(b) /\ Len(b) \in Nat /\ Len(b) >= 4
  <2>1. Len(stream') = Len(stream) + Len(b)
    BY <1>4, <1>5, <1>6, Longer
  <2>2. Len(b) \in Nat /\ Len(b) >= 4
    BY <1>5
  <2> QED
    BY <2>1, <2>2
<1>8. /\ stream' \in Seq(Bytes)
      /\ taken' \in 0..Len(stream') /\ settled' \in 0..taken'
      /\ Base(taken)' = Base(taken) /\ Base(taken) \in Nat /\ Base(taken) <= n
      /\ HeldInv' /\ SinceInv' /\ \A f \in sent : IsSent(stream', f)
  <2>1. Len(stream') <= MaxStream
    BY <1>6, <1>7
  <2> QED
    BY <1>2, <1>5, <1>6, <2>1, StreamGrows
<1>9. LineInv'
  <2>1. Len(stream') <= MaxStream
    BY <1>6, <1>7
  <2> QED
    BY <1>2, <1>3, <1>8, <2>1 DEF LineInv
<1>10. SentInv'
  <2>1. \A f \in sent : f.to <= n
    BY <1>3 DEF SentInv, IsSent
  <2>2. Apart(sent')
    <3>1. ASSUME NEW f \in sent', NEW g \in sent'
          PROVE  f = g \/ f.to <= g.from \/ g.to <= f.from
      <4>1. CASE f = new /\ g = new
        BY <4>1
      <4>2. CASE f = new /\ g \in sent
        BY <1>6, <2>1, <4>2
      <4>3. CASE f \in sent /\ g = new
        BY <1>6, <2>1, <4>3
      <4>4. CASE f \in sent /\ g \in sent
        BY <1>3, <4>4 DEF SentInv, Apart
      <4> QED
        BY <1>6, <4>1, <4>2, <4>3, <4>4
    <3> QED
      BY <3>1 DEF Apart
  <2> QED
    BY <1>5, <1>6, <1>8, <2>2 DEF SentInv
<1>11. HandedInv'
  <2> DEFINE k == Base(taken)
  <2>1. Tidy(frames, 0, k) /\ Covers(Elements(frames), k, sent) /\ k \in Nat /\ k <= n
    BY <1>3, <1>8 DEF HandedInv
  <2> HIDE DEF k
  <2>2. \A y \in Elements(frames) : y.from \in Nat /\ y.from < k
    <3>1. ASSUME NEW i \in 1..Len(frames)
          PROVE  frames[i].from \in Nat /\ frames[i].from < k
      <4>1. /\ frames[i].from \in Nat /\ frames[i].to \in Nat
            /\ frames[i].from < frames[i].to /\ frames[i].to <= k
        BY <2>1, HandedAt DEF Tidy
      <4> QED
        BY <2>1, <4>1
    <3>2. DOMAIN frames = 1..Len(frames)
      BY <2>1 DEF Tidy
    <3> QED
      BY <3>1, <3>2 DEF Elements
  <2>3. Covers(Elements(frames), k, sent')
    <3>1. Covers(Elements(frames), k, sent \cup {new})
      BY <1>4, <1>6, <2>1, <2>2, CoversMore
    <3> QED
      BY <1>6, <3>1
  <2>4. frames' = frames /\ Base(taken)' = k
    BY <1>2, <1>8 DEF k
  <2> QED
    BY <2>1, <2>3, <2>4 DEF HandedInv
<1>12. CleanInv'
  <2>1. SUFFICES ASSUME ~damage.here
                 PROVE  /\ Whole(stream', sent') /\ Begins(sent', Base(taken)')
                        /\ \A y \in Elements(frames') : \E f \in sent' : y = At(f)
    BY <1>2 DEF CleanInv
  <2>2. /\ Whole(stream, sent) /\ Begins(sent, Base(taken))
        /\ \A y \in Elements(frames) : \E f \in sent : y = At(f)
    BY <1>3, <2>1 DEF CleanInv
  <2>3. Whole(stream', sent')
    <3>1. SUFFICES ASSUME NEW p \in 0..(Len(stream') - 1), Begins(sent', p)
                   PROVE  \E f \in sent' : f.from = p
      BY DEF Whole
    <3>2. CASE p = n
      BY <1>6, <3>2
    <3>3. CASE p > n
      <4>1. PICK f \in sent' : f.to = p
        BY <1>4, <3>1, <3>3 DEF Begins
      <4>2. f \in sent \/ f = new
        BY <1>6
      <4>3. f.to <= n \/ f.to = Len(stream')
        BY <1>3, <1>6, <1>7, <4>2 DEF SentInv, IsSent
      <4> QED
        BY <1>4, <1>7, <3>1, <3>3, <4>1, <4>3
    <3>4. CASE p < n
      <4>1. Begins(sent, p)
        <5>1. new.to # p
          BY <1>4, <1>6, <1>7, <3>4
        <5> QED
          BY <1>6, <3>1, <5>1 DEF Begins
      <4>2. p \in 0..(Len(stream) - 1)
        BY <1>4, <3>1, <3>4
      <4>3. PICK f \in sent : f.from = p
        BY <2>2, <4>1, <4>2 DEF Whole
      <4> QED
        BY <1>6, <4>3
    <3> QED
      BY <1>4, <3>1, <3>2, <3>3, <3>4
  <2>4. Begins(sent', Base(taken)')
    BY <1>6, <1>8, <2>2 DEF Begins
  <2>5. \A y \in Elements(frames') : \E f \in sent' : y = At(f)
    BY <1>2, <1>6, <2>2
  <2> QED
    BY <2>3, <2>4, <2>5
<1> QED
  BY <1>8, <1>9, <1>10, <1>11, <1>12 DEF FramingInv

(* Of two pieces of a line, one in the other.                              *)
LEMMA InPiece ==
    ASSUME NEW s \in Seq(Bytes), NEW v \in Seq(Bytes), NEW u \in Seq(Bytes), NEW m \in Nat, NEW j \in Nat,
           Window(s, u, m + j), Window(v, u, m), j + Len(s) <= Len(v)
    PROVE  Window(s, v, j)
<1>1. ASSUME NEW i \in 1..Len(s)
      PROVE  s[i] = v[j + i]
  <2>1. j + i \in 1..Len(v) /\ m + (j + i) = m + j + i
    <3>1. Len(s) \in Nat /\ Len(v) \in Nat
      OBVIOUS
    <3> QED
      BY <3>1
  <2>2. s[i] = u[m + j + i] /\ v[j + i] = u[m + (j + i)]
    BY <2>1 DEF Window
  <2> QED
    BY <2>1, <2>2
<1> QED
  BY <1>1 DEF Window

(* What was kept of a piece, with what comes next behind it.               *)
Follows(s, before, since, w) ==
    /\ s \in Seq(Bytes) /\ before \in Seq(Bytes) /\ since \in Seq(Bytes)
    /\ w \in Nat /\ w + Len(s) = Len(since)
    /\ Window(before, since, 0) /\ Window(s, since, w)

LEMMA PiecesMeet ==
    ASSUME NEW u \in Seq(Bytes), NEW m \in Nat, NEW w \in Nat, NEW before \in Seq(Bytes),
           NEW since \in Seq(Bytes), NEW b \in Seq(Bytes), NEW chunk \in Seq(Bytes),
           Window(before, u, m), Window(since, u, m), Len(before) + Len(chunk) = Len(since),
           Window(b, u, m + w), w + Len(b) = Len(before), Window(chunk, u, m + Len(before)),
           NEW s, s = b \o chunk
    PROVE  Follows(s, before, since, w)
<1>0. Len(before) \in Nat /\ Len(since) \in Nat /\ Len(b) \in Nat /\ Len(chunk) \in Nat
  OBVIOUS
<1>1. s \in Seq(Bytes) /\ Len(s) = Len(b) + Len(chunk) /\ Window(s, u, m + w)
  <2> DEFINE k == m + w
             n == Len(b)
             l == Len(before)
  <2>1. k \in Nat /\ k + n = m + l
    <3>1. w + n = l /\ n \in Nat /\ l \in Nat
      BY <1>0
    <3> HIDE DEF n, l
    <3> QED
      BY <3>1
  <2>2. Window(chunk, u, k + Len(b))
    BY <2>1
  <2>3. Window(b, u, k)
    OBVIOUS
  <2> HIDE DEF k
  <2>4. Together(s, b, chunk, u, k)
    BY <2>1, <2>2, <2>3, TwoPieces
  <2> QED
    BY <2>4 DEF k, Together
<1>2. Window(before, since, 0)
  <2>1. PICK o \in Nat : o = 0
    OBVIOUS
  <2>2. Window(before, u, m + o) /\ o + Len(before) <= Len(since)
    BY <1>0, <2>1
  <2>3. Window(before, since, o)
    BY <2>2, InPiece
  <2> QED
    BY <2>1, <2>3
<1>3. w + Len(s) = Len(since) /\ w + Len(s) <= Len(since)
  BY <1>0, <1>1
<1>4. Window(s, since, w)
  BY <1>1, <1>3, InPiece
<1> QED
  BY <1>1, <1>2, <1>3, <1>4 DEF Follows

(* What a scan kept, scanned again with more behind it, adds what a scan   *)
(* of it all would have found beyond, and keeps what that would keep.      *)
Continues(whole, longer, sc, s, since) ==
    /\ longer.frames = whole.frames \o sc.frames
    /\ SubSeq(s, sc.at + 1, Len(s)) = SubSeq(since, longer.at + 1, Len(since))

LEMMA ScanContinues ==
    ASSUME NEW m \in Nat, NEW patient \in BOOLEAN, ~patient,
           NEW s, NEW before, NEW since, NEW w, Follows(s, before, since, w),
           NEW whole, whole = Scan(before, m, patient), whole.at = w,
           NEW longer, longer = Scan(since, m, patient),
           NEW sc, sc = Scan(s, m + w, patient)
    PROVE  Continues(whole, longer, sc, s, since)
<1>1. /\ s \in Seq(Bytes) /\ before \in Seq(Bytes) /\ since \in Seq(Bytes)
      /\ w \in Nat /\ w + Len(s) = Len(since)
      /\ Window(before, since, 0) /\ Window(s, since, w)
  BY DEF Follows
<1> DEFINE f == ScanFrom(before, m, patient)
           h == ScanFrom(since, m, patient)
           g == ScanFrom(s, m + w, patient)
<1>2. whole = f[0] /\ longer = h[0] /\ sc = g[0]
  BY DEF Scan
<1>3. f = ScanFrom(before, m, patient) /\ h = ScanFrom(since, m, patient) /\ g = ScanFrom(s, m + w, patient)
  OBVIOUS
<1> HIDE DEF f, h, g
<1>4. 0 \in 0..Len(before) /\ 0 \in 0..Len(s) /\ m + w \in Nat /\ w + 0 = w
  BY <1>1
<1>5. GoesOn(f[0], h[f[0].at], h[0])
  <2>1. \A p \in 0..Len(before) : GoesOn(f[p], h[f[p].at], h[p])
    BY <1>1, <1>3, ScanOn
  <2> QED
    BY <1>4, <2>1
<1>6. Shifted(g[0], h[w + 0], w)
  <2>1. \A p \in 0..Len(s) : Shifted(g[p], h[w + p], w)
    BY <1>1, <1>3, ScanRest
  <2> QED
    BY <1>4, <2>1
<1>7. longer.frames = whole.frames \o sc.frames /\ longer.at = w + sc.at
  <2>1. f[0].at = w /\ h[w + 0] = h[w]
    BY <1>2, <1>4
  <2> QED
    BY <1>2, <1>5, <1>6, <2>1 DEF GoesOn, Shifted
<1> DEFINE at == sc.at
<1>8. at \in 0..Len(s)
  <2>1. g[0].at \in 0..Len(s)
    BY <1>1, <1>3, <1>4, ScanFields
  <2> QED
    BY <1>2, <2>1
<1>9. SubSeq(s, sc.at + 1, Len(s)) = SubSeq(since, longer.at + 1, Len(since))
  <2> DEFINE a == at + 1
             z == Len(s)
  <2>1. longer.at = w + at
    BY <1>7
  <2> HIDE DEF at
  <2>2. a \in 1..(z + 1) /\ z \in (a - 1)..z /\ w + a = w + at + 1 /\ z \in Nat
    BY <1>1, <1>8
  <2>3. SubSeq(s, a, z) = SubSeq(since, w + a, w + z)
    <3>1. a \in 1..(Len(s) + 1) /\ z \in (a - 1)..Len(s)
      BY <2>2
    <3> HIDE DEF a, z
    <3> QED
      BY <1>1, <3>1, SubSeqWindow
  <2>4. w + z = Len(since)
    BY <1>1
  <2>5. SubSeq(s, at + 1, Len(s)) = SubSeq(since, w + at + 1, Len(since))
    BY <2>2, <2>3, <2>4, Zenon
  <2> QED
    BY <2>1, <2>5, Zenon DEF at
<1> QED
  BY <1>7, <1>9 DEF Continues

-----------------------------------------------------------------------------
(* Where the buffer is in the stream.                                      *)
LEMMA HeldIs ==
    ASSUME FramingInv
    PROVE  /\ stream \in Seq(Bytes) /\ Len(stream) \in Nat /\ taken \in 0..Len(stream) /\ settled \in 0..taken
           /\ buffer \in Seq(Bytes) /\ Len(buffer) \in Nat /\ Base(taken) \in Nat
           /\ Base(taken) + Len(buffer) = taken /\ Window(buffer, stream, Base(taken))
<1>1. LineInv /\ HeldInv
  BY DEF FramingInv
<1>2. stream \in Seq(Bytes) /\ Len(stream) \in Nat /\ taken \in 0..Len(stream) /\ settled \in 0..taken
  BY <1>1 DEF LineInv
<1>3. buffer \in Seq(Bytes) /\ Len(buffer) \in Nat /\ Base(taken) \in Nat /\ Window(buffer, stream, Base(taken))
  BY <1>1 DEF HeldInv
<1>4. Base(taken) + Len(buffer) = taken
  <2> DEFINE n == Len(buffer)
  <2>1. Base(taken) = taken - n /\ n \in Nat /\ taken \in Nat
    BY <1>2, <1>3 DEF Base
  <2> HIDE DEF n
  <2> QED
    BY <2>1 DEF n
<1> QED
  BY <1>2, <1>3, <1>4

(* What a read of the port has the reassembler scan.                       *)
LEMMA FedIs ==
    ASSUME FramingInv, NEW n \in (taken + 1)..Len(stream),
           NEW chunk, chunk = SubSeq(stream, taken + 1, n), NEW s, s = buffer \o chunk
    PROVE  /\ chunk \in Seq(Bytes) /\ Len(chunk) = n - taken /\ Window(chunk, stream, taken)
           /\ s \in Seq(Bytes) /\ Base(taken) + Len(s) = n /\ Window(s, stream, Base(taken))
<1>1. /\ stream \in Seq(Bytes) /\ Len(stream) \in Nat /\ taken \in 0..Len(stream)
      /\ buffer \in Seq(Bytes) /\ Len(buffer) \in Nat /\ Base(taken) \in Nat
      /\ Base(taken) + Len(buffer) = taken /\ Window(buffer, stream, Base(taken))
  BY HeldIs
<1>2. chunk \in Seq(Bytes) /\ Len(chunk) = n - taken /\ Window(chunk, stream, taken)
  <2>1. taken \in Nat /\ n \in Nat /\ taken <= n /\ n <= Len(stream)
    BY <1>1
  <2>2. Cuts(chunk, stream, taken, n)
    BY <1>1, <2>1, CutOut
  <2> QED
    BY <2>2 DEF Cuts
<1>3. Together(s, buffer, chunk, stream, Base(taken))
  <2>1. Window(chunk, stream, Base(taken) + Len(buffer))
    BY <1>1, <1>2
  <2> QED
    BY <1>1, <1>2, <2>1, TwoPieces
<1>4. s \in Seq(Bytes) /\ Len(s) = Len(buffer) + Len(chunk) /\ Window(s, stream, Base(taken))
  BY <1>3 DEF Together
<1>5. Base(taken) + Len(s) = n
  <2> DEFINE k == Base(taken)
             l == Len(buffer)
             m == Len(s)
  <2>1. k \in Nat /\ l \in Nat /\ m = l + (n - taken) /\ k + l = taken /\ taken \in Nat /\ n \in Nat
    BY <1>1, <1>2, <1>4
  <2> HIDE DEF k, l, m
  <2>2. k + m = n
    BY <2>1
  <2> QED
    BY <2>2 DEF k, m
<1> QED
  BY <1>2, <1>4, <1>5

(* Since the last silence nothing depends on where the reads cut.          *)
LEMMA SinceFed ==
    ASSUME FramingInv, NEW n \in (taken + 1)..Len(stream), NEW patient \in BOOLEAN, ~patient,
           NEW chunk, chunk = SubSeq(stream, taken + 1, n), NEW s, s = buffer \o chunk,
           HandOver(s, Base(taken), patient), taken' = n, UNCHANGED <<stream, settled>>
    PROVE  SinceInv'
<1>1. /\ stream \in Seq(Bytes) /\ Len(stream) \in Nat /\ taken \in 0..Len(stream) /\ settled \in 0..taken
      /\ buffer \in Seq(Bytes) /\ Len(buffer) \in Nat
      /\ Base(taken) \in Nat /\ Base(taken) + Len(buffer) = taken
  BY HeldIs
<1>2. PICK before, whole : Pieces(before, whole)
  BY DEF FramingInv, SinceInv
<1>3. /\ before = SubSeq(stream, settled + 1, taken) /\ whole = Scan(before, settled, patient)
      /\ buffer = SubSeq(before, whole.at + 1, Len(before))
  BY <1>2 DEF Pieces
<1>4. PICK old \in Seq(Handed) :
          frames = old \o whole.frames /\ \A i \in DOMAIN old : old[i].to <= settled
  BY <1>2 DEF Pieces
<1>5. settled \in Nat /\ taken \in Nat /\ n \in Nat /\ settled <= taken /\ taken <= Len(stream)
      /\ settled <= n /\ n <= Len(stream)
  BY <1>1
<1>6. before \in Seq(Bytes) /\ Len(before) = taken - settled /\ Window(before, stream, settled)
  <2>1. Cuts(before, stream, settled, taken)
    BY <1>1, <1>3, <1>5, CutOut
  <2> QED
    BY <2>1 DEF Cuts
<1> DEFINE w == whole.at
<1>7. Len(buffer) = Len(before) - w /\ w \in 0..Len(before) /\ Window(buffer, stream, settled + w)
  <2>0. stream \in Seq(Bytes) /\ settled \in Nat /\ before \in Seq(Bytes) /\ Window(before, stream, settled)
    BY <1>1, <1>5, <1>6
  <2>1. Kept(buffer, before, stream, settled, whole, patient)
    BY <1>3, <2>0, ScanKeeps
  <2> QED
    BY <2>1 DEF Kept
<1> DEFINE since == SubSeq(stream, settled + 1, n)
           longer == Scan(since, settled, patient)
           sc == Scan(s, Base(taken), patient)
<1>8. since \in Seq(Bytes) /\ Len(since) = n - settled /\ Window(since, stream, settled)
  <2>1. since = SubSeq(stream, settled + 1, n)
    OBVIOUS
  <2> HIDE DEF since
  <2>2. Cuts(since, stream, settled, n)
    BY <1>1, <1>5, <2>1, CutOut
  <2> QED
    BY <2>2 DEF Cuts
<1>9. chunk \in Seq(Bytes) /\ Len(chunk) = n - taken /\ Window(chunk, stream, taken)
  BY FedIs
<1> DEFINE l == Len(before)
           b == Len(buffer)
<1>10. /\ w \in Nat /\ w + b = l /\ settled + l = taken /\ l + (n - taken) = n - settled
       /\ Base(taken) = settled + w
  <2>1. l = taken - settled /\ w \in 0..l /\ b = l - w /\ Base(taken) + b = taken
    BY <1>1, <1>6, <1>7
  <2>2. w \in Int /\ l \in Int /\ b \in Int /\ Base(taken) \in Int /\ 0 <= w
    BY <1>1, <1>5, <2>1
  <2> HIDE DEF w, l, b
  <2> QED
    BY <1>5, <2>1, <2>2
<1> HIDE DEF w
<1>11. Follows(s, before, since, w)
  <2>1. Len(before) + Len(chunk) = Len(since) /\ w + Len(buffer) = Len(before)
    BY <1>8, <1>9, <1>10
  <2>2. Window(chunk, stream, settled + Len(before))
    BY <1>9, <1>10
  <2> HIDE DEF since
  <2> QED
    BY <1>1, <1>5, <1>6, <1>7, <1>8, <1>9, <1>10, <2>1, <2>2, PiecesMeet
<1>12. Continues(whole, longer, sc, s, since)
  <2>1. longer = Scan(since, settled, patient) /\ sc = Scan(s, settled + w, patient) /\ whole.at = w
    BY <1>10 DEF w
  <2> HIDE DEF longer, sc, since
  <2> QED
    BY ZenonT(60), <1>3, <1>5, <1>11, <2>1, ScanContinues
<1>13. frames' = frames \o sc.frames /\ buffer' = SubSeq(s, sc.at + 1, Len(s))
  BY DEF HandOver
<1>14. whole.frames \in Seq(Handed) /\ sc.frames \in Seq(Handed)
  <2>1. Tidy(<<>>, 0, settled) /\ Tidy(<<>>, 0, Base(taken))
    <3>1. 0 \in Nat /\ 0 <= settled /\ 0 <= Base(taken)
      BY <1>1, <1>5
    <3> QED
      BY <1>1, <1>5, <3>1, TidyNone
  <2>2. s \in Seq(Bytes)
    BY FedIs
  <2>3. sc = Scan(s, Base(taken), patient)
    OBVIOUS
  <2> HIDE DEF sc
  <2>4. Advances(whole, before, <<>>, 0, settled)
    BY <1>3, <1>5, <1>6, <2>1, ScanGoesOn
  <2>5. Advances(sc, s, <<>>, 0, Base(taken))
    BY <1>1, <2>1, <2>2, <2>3, ScanGoesOn
  <2> QED
    BY <2>4, <2>5 DEF Advances
<1> HIDE DEF sc
<1>15. frames' = old \o longer.frames
  <2>1. longer.frames = whole.frames \o sc.frames
    BY <1>12 DEF Continues
  <2>2. (old \o whole.frames) \o sc.frames = old \o (whole.frames \o sc.frames)
    BY <1>14, Associates
  <2> HIDE DEF longer
  <2> QED
    BY <1>4, <1>13, <2>1, <2>2, Zenon
<1>16. buffer' = SubSeq(since, longer.at + 1, Len(since))
  <2> HIDE DEF longer, since
  <2> QED
    BY <1>12, <1>13, Zenon DEF Continues
<1>17. PICK gs, gl : gs = since /\ gl = longer
  OBVIOUS
<1>18. Pieces(gs, gl)'
  <2>1. settled' = settled /\ stream' = stream /\ taken' = n
    OBVIOUS
  <2>2. gl = Scan(gs, settled', FALSE) /\ gs = SubSeq(stream', settled' + 1, taken')
    <3>1. gl = Scan(gs, settled, patient) /\ gs = SubSeq(stream, settled + 1, n)
      BY <1>17
    <3> QED
      BY <2>1, <3>1
  <2>3. \A i \in DOMAIN old : old[i].to <= settled'
    BY <1>4, <2>1
  <2> HIDE DEF longer, since
  <2>4. frames' = old \o gl.frames /\ buffer' = SubSeq(gs, gl.at + 1, Len(gs))
    BY <1>15, <1>16, <1>17, Zenon
  <2> QED
    BY <1>4, <2>2, <2>3, <2>4, Zenon DEF Pieces
<1> QED
  BY <1>18, Zenon DEF SinceInv

(* After a silence there is nothing yet for a cut to matter to.            *)
LEMMA SinceSettled ==
    ASSUME stream' \in Seq(Bytes), taken' \in Nat, taken' <= Len(stream'), settled' = taken',
           buffer' = <<>>, Tidy(frames', 0, taken')
    PROVE  SinceInv'
<1>1. PICK since, whole :
        since = SubSeq(stream', taken' + 1, taken') /\ whole = Scan(since, taken', FALSE)
  OBVIOUS
<1>2. PICK u, n, fs : u = stream' /\ n = taken' /\ fs = frames'
  OBVIOUS
<1>3. /\ SubSeq(u, n + 1, n) = <<>>
      /\ Scan(<<>>, n, FALSE).at = 0 /\ Scan(<<>>, n, FALSE).frames = <<>>
      /\ SubSeq(<<>>, 0 + 1, Len(<<>>)) = <<>> /\ <<>> \o <<>> = <<>>
      /\ fs \in Seq(Handed) /\ fs = fs \o <<>> /\ \A i \in DOMAIN fs : fs[i].to <= n
  <2>1. u \in Seq(Bytes) /\ n \in Nat /\ n <= Len(u) /\ Tidy(fs, 0, n)
    BY <1>2
  <2> QED
    BY <2>1, SettledIs
<1>4. since = <<>> /\ whole.at = 0 /\ whole.frames = <<>>
  BY <1>1, <1>2, <1>3, Zenon
<1>5. buffer' = SubSeq(since, whole.at + 1, Len(since)) /\ frames' = fs \o whole.frames
  BY <1>2, <1>3, <1>4, Zenon
<1>6. Pieces(since, whole)'
  <2>1. since = SubSeq(stream', settled' + 1, taken') /\ whole = Scan(since, settled', FALSE)
    BY <1>1
  <2>2. fs \in Seq(Handed) /\ \A i \in DOMAIN fs : fs[i].to <= settled'
    BY <1>2, <1>3, Zenon
  <2> QED
    BY <1>5, <2>1, <2>2, Zenon DEF Pieces
<1> QED
  BY <1>6, Zenon DEF SinceInv

(* A line nothing has disturbed, taken apart further.                      *)
LEMMA StaysClean ==
    ASSUME FramingInv, NEW s \in Seq(Bytes), NEW giveUp \in BOOLEAN,
           Window(s, stream, Base(taken)), HandOver(s, Base(taken), giveUp),
           ~giveUp \/ Base(taken) + Len(s) = Len(stream),
           UNCHANGED <<stream, sent, damage>>,
           Base(taken)' = Base(taken) + Scan(s, Base(taken), giveUp).at,
           Elements(frames') = Elements(frames) \cup Elements(Scan(s, Base(taken), giveUp).frames)
    PROVE  CleanInv'
<1> DEFINE k == Base(taken)
           sc == Scan(s, k, giveUp)
<1>0. SUFFICES ASSUME ~damage.here
               PROVE  /\ Whole(stream, sent) /\ Begins(sent, Base(taken)')
                      /\ \A y \in Elements(frames') : \E f \in sent : y = At(f)
  BY DEF CleanInv
<1>1. /\ Whole(stream, sent) /\ Begins(sent, k)
      /\ \A y \in Elements(frames) : \E f \in sent : y = At(f)
  BY <1>0 DEF FramingInv, CleanInv
<1>2. stream \in Seq(Bytes) /\ k \in Nat
  BY HeldIs
<1>3. \A f \in sent : IsSent(stream, f)
  BY DEF FramingInv, SentInv
<1>4. Begins(sent, k + sc.at) /\ \A y \in Elements(sc.frames) : \E f \in sent : y = At(f)
  <2>1. /\ sc = Scan(s, k, giveUp) /\ Window(s, stream, k)
        /\ (~giveUp \/ k + Len(s) = Len(stream))
    OBVIOUS
  <2> HIDE DEF k, sc
  <2> QED
    BY <1>1, <1>2, <1>3, <2>1, ScanOfWhole
<1>5. Base(taken)' = k + sc.at /\ Elements(frames') = Elements(frames) \cup Elements(sc.frames)
  OBVIOUS
<1> HIDE DEF k, sc
<1> QED
  BY <1>1, <1>4, <1>5

(* Reassembler::feed.                                                      *)
LEMMA FeedKeeps ==
    ASSUME FramingInv, Feed
    PROVE  FramingInv'
<1>1. PICK n \in (taken + 1)..Len(stream) :
        /\ HandOver(buffer \o SubSeq(stream, taken + 1, n), Base(taken), FALSE)
        /\ taken' = n /\ UNCHANGED <<stream, sent, settled, damage>>
  BY DEF Feed
<1>2. PICK giveUp \in BOOLEAN : giveUp = FALSE
  OBVIOUS
<1>3. PICK chunk, s : chunk = SubSeq(stream, taken + 1, n) /\ s = buffer \o chunk
  OBVIOUS
<1>4. HandOver(s, Base(taken), giveUp)
  BY <1>1, <1>2, <1>3
<1>5. s \in Seq(Bytes) /\ Base(taken) + Len(s) = n /\ Window(s, stream, Base(taken))
  BY <1>3, FedIs
<1>6. LineInv /\ SentInv
  BY DEF FramingInv
<1>7. /\ SentInv' /\ HeldInv' /\ HandedInv'
      /\ Base(taken)' = Base(taken) + Scan(s, Base(taken), giveUp).at
      /\ Elements(frames') = Elements(frames) \cup Elements(Scan(s, Base(taken), giveUp).frames)
  <2>1. stream' \in Seq(Bytes) /\ Window(s, stream', Base(taken)) /\ taken' = Base(taken) + Len(s)
    BY <1>1, <1>5, HeldIs
  <2>2. sent' \subseteq sent /\ \A f \in sent' : IsSent(stream', f)
    BY <1>1, <1>6 DEF SentInv
  <2> QED
    BY <1>2, <1>4, <1>5, <2>1, <2>2, ScanStep
<1>8. LineInv'
  <2>1. taken' \in 0..Len(stream') /\ settled' \in 0..taken'
    BY <1>1, HeldIs
  <2> QED
    BY <1>1, <1>6, <2>1 DEF LineInv
<1>9. SinceInv'
  BY <1>1, <1>2, <1>3, <1>4, SinceFed
<1>10. CleanInv'
  BY <1>1, <1>2, <1>4, <1>5, <1>7, StaysClean
<1> QED
  BY <1>7, <1>8, <1>9, <1>10 DEF FramingInv

(* Reassembler::flush, after a silence.                                    *)
LEMMA QuietKeeps ==
    ASSUME FramingInv, Quiet
    PROVE  FramingInv'
<1>1. PICK giveUp \in BOOLEAN : giveUp = TRUE
  OBVIOUS
<1>2. /\ taken = Len(stream) /\ HandOver(buffer, Base(taken), giveUp) /\ settled' = taken
      /\ UNCHANGED <<stream, sent, taken, damage>>
  BY <1>1 DEF Quiet
<1>3. LineInv /\ SentInv
  BY DEF FramingInv
<1>4. /\ stream \in Seq(Bytes) /\ Len(stream) \in Nat /\ taken \in 0..Len(stream)
      /\ buffer \in Seq(Bytes) /\ Base(taken) \in Nat
      /\ Base(taken) + Len(buffer) = taken /\ Window(buffer, stream, Base(taken))
  BY HeldIs
<1>5. /\ SentInv' /\ HeldInv' /\ HandedInv'
      /\ Base(taken)' = Base(taken) + Scan(buffer, Base(taken), giveUp).at
      /\ buffer' = <<>> /\ Base(taken)' = taken'
      /\ Elements(frames') = Elements(frames) \cup Elements(Scan(buffer, Base(taken), giveUp).frames)
  <2>1. /\ stream' \in Seq(Bytes) /\ Window(buffer, stream', Base(taken))
        /\ taken' = Base(taken) + Len(buffer)
    BY <1>2, <1>4
  <2>2. sent' \subseteq sent /\ \A f \in sent' : IsSent(stream', f)
    BY <1>2, <1>3 DEF SentInv
  <2>3. NoneAcross(sent', taken')
    BY <1>2, <1>3 DEF SentInv, IsSent, NoneAcross
  <2> QED
    BY <1>1, <1>2, <1>4, <2>1, <2>2, <2>3, ScanStep
<1>6. LineInv'
  <2>1. taken' \in 0..Len(stream') /\ settled' \in 0..taken'
    BY <1>2, <1>4
  <2> QED
    BY <1>2, <1>3, <2>1 DEF LineInv
<1>7. SinceInv'
  <2>1. Tidy(frames', 0, Base(taken)')
    BY <1>5 DEF HandedInv
  <2>2. stream' \in Seq(Bytes) /\ taken' \in Nat /\ taken' <= Len(stream') /\ settled' = taken'
    BY <1>2, <1>4
  <2>3. Tidy(frames', 0, taken')
    BY <1>5, <2>1
  <2> QED
    BY <1>5, <2>2, <2>3, SinceSettled
<1>8. CleanInv'
  <2>1. ~giveUp \/ Base(taken) + Len(buffer) = Len(stream)
    BY <1>2, <1>4
  <2> QED
    BY <1>2, <1>4, <1>5, <2>1, StaysClean
<1> QED
  BY <1>5, <1>6, <1>7, <1>8 DEF FramingInv

(* The connection ends.                                                    *)
LEMMA CutKeeps ==
    ASSUME FramingInv, Cut
    PROVE  FramingInv'
<1>1. PICK giveUp \in BOOLEAN : giveUp = TRUE
  OBVIOUS
<1>2. /\ damage.count < MaxDamage /\ taken < Len(stream)
      /\ stream' = SubSeq(stream, 1, taken) /\ sent' = {f \in sent : f.to <= taken}
      /\ HandOver(buffer, Base(taken), giveUp) /\ settled' = taken /\ taken' = taken
      /\ damage' = [count |-> damage.count + 1, here |-> TRUE]
  BY <1>1 DEF Cut, Damage
<1>3. LineInv /\ SentInv
  BY DEF FramingInv
<1>4. /\ stream \in Seq(Bytes) /\ Len(stream) \in Nat /\ taken \in 0..Len(stream) /\ taken \in Nat
      /\ buffer \in Seq(Bytes) /\ Len(buffer) \in Nat /\ Base(taken) \in Nat
      /\ Base(taken) + Len(buffer) = taken /\ Window(buffer, stream, Base(taken))
  BY HeldIs
<1>5. PICK o \in Nat : o = 0
  OBVIOUS
<1>6. stream' \in Seq(Bytes) /\ Len(stream') = taken /\ Window(stream', stream, 0)
  <2>1. stream' = SubSeq(stream, o + 1, taken) /\ o <= taken /\ taken <= Len(stream)
    BY <1>2, <1>4, <1>5
  <2>2. Cuts(stream', stream, o, taken)
    BY <1>4, <2>1, CutOut
  <2>3. taken - o = taken
    BY <1>4, <1>5
  <2> QED
    BY <1>5, <2>2, <2>3 DEF Cuts
<1>7. Window(buffer, stream', Base(taken))
  <2> DEFINE k == Base(taken)
  <2>1. o + k = k /\ k \in Nat /\ k + Len(buffer) <= Len(stream')
    BY <1>4, <1>5, <1>6
  <2>2. Window(buffer, stream, o + k) /\ Window(stream', stream, o)
    BY <1>4, <1>5, <1>6, <2>1
  <2> HIDE DEF k
  <2>3. Window(buffer, stream', k)
    BY <1>4, <1>6, <2>1, <2>2, InPiece
  <2> QED
    BY <2>3 DEF k
<1>8. \A f \in sent' : IsSent(stream', f) /\ f.to <= taken
  <2>1. ASSUME NEW f \in sent'
        PROVE  IsSent(stream', f) /\ f.to <= taken
    <3>1. f \in sent /\ f.to <= taken
      BY <1>2
    <3>2. IsSent(stream, f) /\ f.to \in Nat
      BY <1>3, <3>1 DEF SentInv, IsSent
    <3>3. f.to <= Len(stream')
      BY <1>6, <3>1
    <3>4. IsSent(stream', f)
      BY <1>4, <1>6, <3>2, <3>3, SentIn
    <3> QED
      BY <3>1, <3>4
  <2> QED
    BY <2>1
<1>9. SentInv' /\ HeldInv' /\ HandedInv' /\ buffer' = <<>> /\ Base(taken)' = taken'
  <2>1. stream' \in Seq(Bytes) /\ taken' = Base(taken) + Len(buffer) /\ sent' \subseteq sent
    BY <1>2, <1>4, <1>6
  <2>2. NoneAcross(sent', taken')
    BY <1>2, <1>8 DEF NoneAcross
  <2> QED
    BY <1>1, <1>2, <1>4, <1>7, <1>8, <2>1, <2>2, ScanStep
<1>10. LineInv'
  <2>1. taken' \in 0..Len(stream') /\ settled' \in 0..taken' /\ Len(stream') <= MaxStream
    <3>1. Len(stream) <= MaxStream /\ MaxStream \in Nat
      BY <1>3, Recorded DEF LineInv
    <3> QED
      BY <1>2, <1>4, <1>6, <3>1
  <2>2. damage' \in [count : 0..MaxDamage, here : BOOLEAN]
    <3>1. damage.count \in 0..MaxDamage /\ MaxDamage \in Nat
      BY <1>3, Recorded DEF LineInv
    <3>2. damage.count + 1 \in 0..MaxDamage
      BY <1>2, <3>1
    <3> QED
      BY <1>2, <3>2
  <2> QED
    BY <1>6, <2>1, <2>2 DEF LineInv
<1>11. SinceInv'
  <2>1. Tidy(frames', 0, Base(taken)')
    BY <1>9 DEF HandedInv
  <2>2. taken' \in Nat /\ taken' <= Len(stream') /\ settled' = taken'
    BY <1>2, <1>4, <1>6
  <2>3. Tidy(frames', 0, taken')
    BY <1>9, <2>1
  <2> QED
    BY <1>6, <1>9, <2>2, <2>3, SinceSettled
<1>12. CleanInv'
  BY <1>2 DEF CleanInv
<1> QED
  BY <1>9, <1>10, <1>11, <1>12 DEF FramingInv

(* What is left of a frame that lost its tail is bytes, too.               *)
LEMMA CutFrameIs ==
    ASSUME NEW record \in Records, NEW b, b = Frame(ReadAnswer, Payload(0, record)),
           NEW cut \in Nat, cut < Len(b)
    PROVE  SubSeq(b, 1, cut) \in Seq(Bytes)
<1>1. PICK flags \in Decodable : flags = 0
  BY DEF Decodable, ProtocolFlag, DataFlag
<1>2. PICK data, h : data = Payload(flags, record) /\ h = Before(flags, record)
  OBVIOUS
<1>3. data \in Seq(Bytes)
  BY <1>2, PayloadIs
<1>4. Len(data) <= MaxData
  <2>1. data = h \o record
    BY <1>2, Zenon DEF Payload, Before
  <2>2. h \in Seq(Bytes) /\ Len(h) = Embedded(flags) + (IF Has(flags, DataFlag) THEN 2 ELSE 0)
    BY <1>2, BeforeIs
  <2>3. Embedded(flags) = 3 /\ ~Has(flags, DataFlag)
    BY <1>1 DEF Embedded, Has, ProtocolFlag, DataFlag
  <2>4. Len(h) = 3
    BY <2>2, <2>3
  <2>5. record \in Seq(Bytes) /\ 2 * Len(record) \in Bytes
    BY Recorded
  <2>6. Joined(data, h, record)
    BY <2>1, <2>2, <2>5, Behind
  <2> DEFINE n == Len(record)
  <2>7. Len(data) = 3 + n /\ n \in Nat /\ 2 * n \in 0..9
    BY <2>4, <2>5, <2>6 DEF Joined, Bytes, SOH
  <2> HIDE DEF n
  <2> QED
    BY <2>7 DEF MaxData
<1>5. Framed(b, ReadAnswer, data)
  <2>1. b = Frame(ReadAnswer, data) /\ ReadAnswer \in Bytes
    BY <1>1, <1>2 DEF ReadAnswer, Bytes, SOH
  <2> QED
    BY <1>3, <1>4, <2>1, FrameIs
<1>6. PICK o \in Nat : o = 0
  OBVIOUS
<1>7. b \in Seq(Bytes) /\ o <= cut /\ cut <= Len(b) /\ o + 1 = 1
  <2>1. b \in Seq(Bytes)
    BY <1>5 DEF Framed
  <2> QED
    BY <1>6, <2>1
<1>8. PICK d : d = SubSeq(b, 1, cut)
  OBVIOUS
<1>9. Cuts(d, b, o, cut)
  <2>1. d = SubSeq(b, o + 1, cut)
    BY <1>7, <1>8
  <2> QED
    BY <1>7, <2>1, CutOut
<1> QED
  BY <1>8, <1>9 DEF Cuts

(* Noise, and what is left of a frame, are more of the same.               *)
LEMMA NoiseIs ==
    ASSUME stream \in Seq(Bytes), NoiseArrives
    PROVE  \E more \in Seq(Bytes) : stream' = stream \o more
<1>1. CASE \E byte \in Noise : stream' = Append(stream, byte)
  <2>1. PICK byte \in Noise : stream' = Append(stream, byte)
    BY <1>1
  <2>2. byte \in Bytes
    BY Recorded
  <2>3. <<byte>> \in Seq(Bytes) /\ Append(stream, byte) = stream \o <<byte>>
    BY <2>2, AppendIsConcat
  <2> QED
    BY <2>1, <2>3
<1>2. CASE \E record \in Records, cut \in 2..MaxFrame :
             LET bytes == Frame(ReadAnswer, Payload(0, record)) IN
             cut < Len(bytes) /\ stream' = stream \o SubSeq(bytes, 1, cut)
  <2>1. PICK record \in Records, cut \in 2..MaxFrame :
             /\ cut < Len(Frame(ReadAnswer, Payload(0, record)))
             /\ stream' = stream \o SubSeq(Frame(ReadAnswer, Payload(0, record)), 1, cut)
    BY <1>2
  <2>2. cut \in Nat
    BY DEF MaxFrame, HeaderLen, MaxData
  <2>3. SubSeq(Frame(ReadAnswer, Payload(0, record)), 1, cut) \in Seq(Bytes)
    BY <2>1, <2>2, CutFrameIs
  <2> QED
    BY <2>1, <2>3
<1> QED
  BY <1>1, <1>2 DEF NoiseArrives

(* A disturbed line.                                                       *)
LEMMA NoiseKeeps ==
    ASSUME FramingInv, NoiseArrives
    PROVE  FramingInv'
<1>1. /\ damage.count < MaxDamage /\ Len(stream') <= MaxStream
      /\ damage' = [count |-> damage.count + 1, here |-> TRUE]
      /\ UNCHANGED <<sent, taken, settled, buffer, frames>>
  BY DEF NoiseArrives, Damage
<1>2. LineInv /\ SentInv /\ HandedInv
  BY DEF FramingInv
<1>3. stream \in Seq(Bytes)
  BY <1>2 DEF LineInv
<1>4. \E more \in Seq(Bytes) : stream' = stream \o more
  BY <1>3, NoiseIs
<1>5. /\ stream' \in Seq(Bytes)
      /\ taken' \in 0..Len(stream') /\ settled' \in 0..taken'
      /\ Base(taken)' = Base(taken)
      /\ HeldInv' /\ SinceInv' /\ \A f \in sent : IsSent(stream', f)
  BY <1>1, <1>4, StreamGrows
<1>6. LineInv'
  <2>1. damage' \in [count : 0..MaxDamage, here : BOOLEAN]
    <3>1. damage.count \in 0..MaxDamage /\ MaxDamage \in Nat
      BY <1>2, Recorded DEF LineInv
    <3>2. damage.count + 1 \in 0..MaxDamage
      BY <1>1, <3>1
    <3> QED
      BY <1>1, <3>2
  <2> QED
    BY <1>1, <1>5, <2>1 DEF LineInv
<1>7. SentInv'
  BY <1>1, <1>2, <1>5 DEF SentInv, Apart
<1>8. HandedInv'
  <2>1. Tidy(frames', 0, Base(taken)') /\ Covers(Elements(frames'), Base(taken)', sent')
    BY <1>1, <1>2, <1>5 DEF HandedInv
  <2> QED
    BY <2>1 DEF HandedInv
<1>9. CleanInv'
  BY <1>1 DEF CleanInv
<1> QED
  BY <1>5, <1>6, <1>7, <1>8, <1>9 DEF FramingInv

(* A new connection.                                                       *)
LEMMA ReopenKeeps ==
    ASSUME FramingInv, Reopen
    PROVE  FramingInv'
<1>1. /\ stream' = <<>> /\ sent' = {} /\ taken' = 0 /\ settled' = 0 /\ buffer' = <<>> /\ frames' = <<>>
      /\ damage' = [damage EXCEPT !.here = FALSE]
  BY DEF Reopen
<1>2. LineInv'
  <2>1. damage' \in [count : 0..MaxDamage, here : BOOLEAN]
    BY <1>1 DEF FramingInv, LineInv
  <2>2. stream' \in Seq(Bytes) /\ Len(stream') = 0
    BY <1>1
  <2>3. taken' \in 0..Len(stream') /\ settled' \in 0..taken' /\ Len(stream') <= MaxStream
    BY <1>1, <2>2, Recorded
  <2> QED
    BY <2>1, <2>2, <2>3 DEF LineInv
<1>3. Base(taken)' = 0
  <2>1. Len(buffer') = 0 /\ taken' = 0 /\ 0 - 0 = 0
    BY <1>1
  <2> QED
    BY <2>1, Zenon DEF Base
<1>4. HeldInv'
  <2>1. Window(buffer', stream', 0)
    BY <1>1 DEF Window
  <2>2. buffer' \in Seq(Bytes) /\ Len(buffer') < MaxFrame
    BY <1>1 DEF MaxFrame, HeaderLen, MaxData
  <2> QED
    BY <1>3, <2>1, <2>2 DEF HeldInv
<1>5. SentInv'
  BY <1>1 DEF SentInv, Apart
<1>6. Tidy(frames', 0, 0)
  <2>1. 0 \in Nat /\ 0 <= 0
    OBVIOUS
  <2> QED
    BY <1>1, <2>1, TidyNone
<1>7. HandedInv'
  BY <1>1, <1>3, <1>6 DEF HandedInv, Covers
<1>8. SinceInv'
  <2>1. stream' \in Seq(Bytes) /\ taken' \in Nat /\ taken' <= Len(stream') /\ settled' = taken'
    BY <1>1
  <2>2. Tidy(frames', 0, taken')
    BY <1>1, <1>6
  <2> QED
    BY <1>1, <2>1, <2>2, SinceSettled
<1>9. CleanInv'
  <2>1. Whole(stream', sent') /\ Begins(sent', 0)
    BY <1>1 DEF Whole, Begins
  <2>2. \A y \in Elements(frames') : \E f \in sent' : y = At(f)
    BY <1>1 DEF Elements
  <2> QED
    BY <1>3, <2>1, <2>2 DEF CleanInv
<1> QED
  BY <1>2, <1>4, <1>5, <1>7, <1>8, <1>9 DEF FramingInv

-----------------------------------------------------------------------------
(***************************************************************************)
(* What holds of the reassembler and the decoder.                          *)
(***************************************************************************)

LEMMA FramingNext ==
    FramingInv /\ [Next]_vars => FramingInv'
<1> SUFFICES ASSUME FramingInv, [Next]_vars
             PROVE  FramingInv'
  OBVIOUS
<1>1. CASE FrameIsSent
  BY <1>1, FrameIsSentKeeps
<1>2. CASE NoiseArrives
  BY <1>2, NoiseKeeps
<1>3. CASE Feed
  BY <1>3, FeedKeeps
<1>4. CASE Quiet
  BY <1>4, QuietKeeps
<1>5. CASE Cut
  BY <1>5, CutKeeps
<1>6. CASE Reopen
  BY <1>6, ReopenKeeps
<1>7. CASE UNCHANGED vars
  <2>1. /\ stream' = stream /\ sent' = sent /\ taken' = taken /\ settled' = settled
        /\ buffer' = buffer /\ frames' = frames /\ damage' = damage
    BY <1>7 DEF vars
  <2>2. Base(taken)' = Base(taken)
    BY <2>1 DEF Base
  <2>3. LineInv' /\ HeldInv'
    BY <2>1, <2>2 DEF FramingInv, LineInv, HeldInv
  <2>4. SentInv' /\ HandedInv' /\ CleanInv'
    BY <2>1, <2>2 DEF FramingInv, SentInv, HandedInv, CleanInv
  <2>5. SinceInv'
    <3>1. PICK since, whole : Pieces(since, whole)
      BY DEF FramingInv, SinceInv
    <3>2. Pieces(since, whole)'
      BY <2>1, <3>1, Zenon DEF Pieces
    <3> QED
      BY <3>2, Zenon DEF SinceInv
  <2> QED
    BY <2>3, <2>4, <2>5 DEF FramingInv
<1> QED
  BY <1>1, <1>2, <1>3, <1>4, <1>5, <1>6, <1>7 DEF Next

(* The inductive invariant: what was sent is where it was sent, what was   *)
(* handed over ends where what is held back begins, all that was sent      *)
(* before that place was handed over, and it is all as if it had come in   *)
(* one piece.                                                              *)
THEOREM FramingInvariant == Spec => []FramingInv
<1>1. Init => FramingInv
  BY FramingInit
<1>2. FramingInv /\ [Next]_vars => FramingInv'
  BY FramingNext
<1> QED
  BY <1>1, <1>2, PTL DEF Spec

(* The types; and the reassembler (Reassembler::feed, flush) never holds   *)
(* back as much as the longest frame, whatever arrives.                    *)
THEOREM FramingTypes == Spec => []TypeOK
<1>1. FramingInv => TypeOK
  <2> SUFFICES ASSUME FramingInv
               PROVE  TypeOK
    OBVIOUS
  <2>1. LineInv /\ HeldInv /\ SentInv /\ HandedInv
    BY DEF FramingInv
  <2>2. /\ stream \in Seq(Bytes) /\ Len(stream) \in Nat /\ Len(stream) <= MaxStream
        /\ taken \in 0..Len(stream) /\ settled \in 0..taken
        /\ damage \in [count : 0..MaxDamage, here : BOOLEAN]
    BY <2>1 DEF LineInv
  <2>3. MaxStream \in Nat
    BY Recorded
  <2>4. \A f \in sent : [from |-> f.from, to |-> f.to] \in Places
    <3>1. ASSUME NEW f \in sent
          PROVE  f.from \in 0..MaxStream /\ f.to \in 0..MaxStream
      <4>1. f.from \in 0..(Len(stream) - 1) /\ f.to \in (f.from + 4)..Len(stream)
        <5>1. IsSent(stream, f)
          BY <2>1 DEF SentInv
        <5> QED
          BY <2>2, <5>1, SentSpan
      <4> QED
        BY <2>2, <2>3, <4>1
    <3> QED
      BY <3>1 DEF Places
  <2>5. frames \in Seq(Places)
    <3>1. Tidy(frames, 0, Base(taken)) /\ Base(taken) <= Len(stream)
      <4>1. Base(taken) + Len(buffer) = taken /\ Base(taken) \in Nat /\ Len(buffer) \in Nat
        BY HeldIs
      <4>2. Base(taken) <= Len(stream)
        BY <2>2, <4>1
      <4> QED
        BY <2>1, <4>2 DEF HandedInv
    <3>2. /\ frames \in Seq(Handed) /\ Base(taken) \in Nat
          /\ \A i \in 1..Len(frames) : frames[i].from < frames[i].to /\ frames[i].to <= Base(taken)
      BY <3>1 DEF Tidy
    <3>3. \A i \in 1..Len(frames) : frames[i] \in Places
      <4>1. ASSUME NEW i \in 1..Len(frames)
            PROVE  frames[i] \in Places
        <5>1. frames[i] \in Handed /\ frames[i].from \in Nat /\ frames[i].to \in Nat
          BY <3>2, HandedAt
        <5>2. frames[i].from \in 0..MaxStream /\ frames[i].to \in 0..MaxStream
          BY <2>2, <2>3, <3>1, <3>2, <5>1
        <5> QED
          BY <5>1, <5>2 DEF Handed, Places
      <4> QED
        BY <4>1
    <3> QED
      BY <3>2, <3>3
  <2>6. buffer \in Seq(Bytes) /\ Len(buffer) < MaxFrame
    BY <2>1 DEF HeldInv
  <2> QED
    BY <2>2, <2>4, <2>5, <2>6 DEF TypeOK
<1> QED
  BY <1>1, FramingInvariant, PTL

(* However the reads of the port cut the stream, between two silences the  *)
(* reassembler's scan takes it apart as if it had come in one piece.       *)
THEOREM FramingIgnoresChunks == Spec => []ChunkingDoesNotMatter
<1>1. FramingInv => ChunkingDoesNotMatter
  <2> SUFFICES ASSUME FramingInv
               PROVE  ChunkingDoesNotMatter
    OBVIOUS
  <2>1. PICK since, whole : Pieces(since, whole)
    BY DEF FramingInv, SinceInv
  <2>2. /\ since = SubSeq(stream, settled + 1, taken) /\ whole = Scan(since, settled, FALSE)
        /\ buffer = SubSeq(since, whole.at + 1, Len(since))
    BY <2>1 DEF Pieces
  <2>3. PICK old \in Seq(Handed) :
          frames = old \o whole.frames /\ \A i \in DOMAIN old : old[i].to <= settled
    BY <2>1 DEF Pieces
  <2>4. whole.frames \in Seq(Handed)
    <3>1. stream \in Seq(Bytes) /\ settled \in Nat /\ taken \in Nat /\ settled <= taken /\ taken <= Len(stream)
      BY HeldIs
    <3>2. Cuts(since, stream, settled, taken)
      BY <2>2, <3>1, CutOut
    <3>3. PICK g \in BOOLEAN : g = FALSE
      OBVIOUS
    <3>4. Tidy(<<>>, 0, settled)
      <4>1. 0 \in Nat /\ 0 <= settled
        BY <3>1
      <4> QED
        BY <3>1, <4>1, TidyNone
    <3>5. since \in Seq(Bytes) /\ whole = Scan(since, settled, g)
      BY <2>2, <3>2, <3>3 DEF Cuts
    <3>6. Advances(whole, since, <<>>, 0, settled)
      BY <3>1, <3>4, <3>5, ScanGoesOn
    <3> QED
      BY <3>6 DEF Advances
  <2> DEFINE n == Len(old)
             l == Len(whole.frames)
             fs == frames
  <2>5. n \in Nat /\ l \in Nat /\ Len(fs) = n + l
    BY <2>3, <2>4
  <2>6. n \in 0..Len(fs)
    <3> HIDE DEF n, l, fs
    <3> QED
      BY <2>5
  <2>7. \A i \in 1..n : fs[i].to <= settled
    <3>1. \A i \in 1..n : fs[i] = old[i] /\ i \in DOMAIN old
      BY <2>3, <2>4
    <3> QED
      BY <2>3, <3>1
  <2>8. SubSeq(fs, n + 1, Len(fs)) = whole.frames
    <3>1. SubSeq(old \o whole.frames, Len(old) + 1, Len(old) + Len(whole.frames)) = whole.frames
      BY <2>3, <2>4, SubSeqOfConcat2
    <3> QED
      BY <2>3, <2>5, <3>1
  <2> HIDE DEF n
  <2>9. \E m \in 0..Len(frames) :
           /\ \A i \in 1..m : frames[i].to <= settled
           /\ SubSeq(frames, m + 1, Len(frames)) = whole.frames
    BY <2>6, <2>7, <2>8
  <2> QED
    BY <2>2, <2>9, Zenon DEF ChunkingDoesNotMatter
<1> QED
  BY <1>1, FramingInvariant, PTL

(* A frame that came through whole is handed over by the reassembler, in   *)
(* its place, unless noise made a frame of some of it; nothing is handed   *)
(* over twice, and all in the order it came.                               *)
LEMMA NoneLost ==
    FramingInv => NoFrameIsLost
<1> SUFFICES ASSUME FramingInv
             PROVE  NoFrameIsLost
  OBVIOUS
<1>1. SentInv /\ HandedInv
  BY DEF FramingInv
<1>2. stream \in Seq(Bytes) /\ Base(taken) \in Nat
  BY HeldIs
<1>3. /\ Tidy(frames, 0, Base(taken))
      /\ Covers(Elements(frames), Base(taken), sent)
  BY <1>1 DEF HandedInv
<1>4. frames \in Seq(Handed) /\ DOMAIN frames = 1..Len(frames) /\ InOrder(frames)
  BY <1>3 DEF Tidy
<1>5. ASSUME NEW f \in sent, f.to <= taken - Len(buffer)
      PROVE  \E i \in DOMAIN frames : frames[i] = At(f) \/ Accident(frames[i], f)
  <2>1. f.from \in 0..(Len(stream) - 1) /\ f.to \in (f.from + 4)..Len(stream)
    <3>1. IsSent(stream, f)
      BY <1>1 DEF SentInv
    <3> QED
      BY <1>2, <3>1, SentSpan
  <2> DEFINE k == Base(taken)
  <2>2. f.to <= k /\ k \in Nat
    BY <1>2, <1>5 DEF Base
  <2> HIDE DEF k
  <2>3. f.from < k
    <3>1. f.from \in Nat /\ f.to \in Nat /\ f.from + 4 <= f.to
      <4>1. Len(stream) \in Nat
        BY <1>2
      <4> QED
        BY <2>1, <4>1
    <3> QED
      BY <2>2, <3>1
  <2>4. PICK y \in Elements(frames) : y = At(f) \/ Disturbs(y, f, sent)
    BY <1>3, <2>3 DEF Covers, k
  <2>5. PICK i \in DOMAIN frames : y = frames[i]
    BY DEF Elements
  <2> QED
    BY <2>4, <2>5 DEF Disturbs, Accident
<1> QED
  BY <1>4, <1>5 DEF NoFrameIsLost, InOrder

THEOREM FramingLosesNothing == Spec => []NoFrameIsLost
  BY NoneLost, FramingInvariant, PTL

(* On a line that nothing disturbed, what reassembler and decoder make of  *)
(* the bytes is what the module meant: nothing but what it sent, the chip  *)
(* that was read, and a fault for a layout nobody has seen.                *)
THEOREM FramingReadsWhatWasMeant == Spec => []MeantAsDecoded
<1>1. FramingInv => MeantAsDecoded
  <2> SUFFICES ASSUME FramingInv, ~damage.here, NEW i \in DOMAIN frames
               PROVE  \E f \in sent : frames[i] = At(f) /\ decoded[i] = f.means
    BY DEF MeantAsDecoded
  <2>1. \A y \in Elements(frames) : \E f \in sent : y = At(f)
    BY DEF FramingInv, CleanInv
  <2>2. PICK f \in sent : frames[i] = At(f)
    BY <2>1 DEF Elements
  <2>3. Meaning(stream[f.from + 3], SubSeq(stream, f.from + 4, f.to - 1)) = f.means
    BY DEF FramingInv, SentInv, IsSent
  <2>4. frames[i].from = f.from /\ frames[i].to = f.to
    BY <2>2 DEF At
  <2>5. decoded[i] = f.means
    BY <2>3, <2>4 DEF decoded
  <2> QED
    BY <2>2, <2>5
<1> QED
  BY <1>1, FramingInvariant, PTL

-----------------------------------------------------------------------------
(***************************************************************************)
(* The capture beside it: where in the stream the replay is after each of  *)
(* the lines that are still to be written.                                 *)
(***************************************************************************)

(* It is in no stream: of no connection, or of one it was told has gaps.   *)
Lost == -1

Line == [is : {"open", "received", "end", "close", "before"}, from : Nat, to : Nat, droppedBefore : Nat]
Tape == [queue : Seq(Line), dropped : Nat, stopped : BOOLEAN]
Replay == [here : BOOLEAN, told : BOOLEAN, from : Nat, buffer : Seq(Bytes), frames : Seq(Handed)]

(* One line takes the replay from p to q.                                  *)
OneLine(line, p, q, S) ==
    IF line.is = "open" THEN q = 0
    ELSE IF line.droppedBefore > 0 \/ p = Lost THEN q = Lost
    ELSE IF line.is = "received" THEN line.from = p /\ line.to = q /\ p <= q
    ELSE q = p /\ (line.is = "end" => NoneAcross(S, p))

Leads(pos, queue, S, T) ==
    /\ \A i \in 0..Len(queue) : pos[i] \in Lost..T
    /\ \A i \in 1..Len(queue) : OneLine(queue[i], pos[i - 1], pos[i], S)

(* With nothing dropped and the writer at work, they lead to all there is. *)
UpToDate(pos, t, T) == t.dropped = 0 /\ ~t.stopped => pos[Len(t.queue)] \in {Lost, T}

(* What is recorded of a step from T to U.                                 *)
Recording(line, T, U, S) ==
    \/ line.is = "open" /\ U = 0
    \/ line.is = "received" /\ line.from = T /\ line.to = U
    \/ line.is \in {"end", "close"} /\ U = T /\ (line.is = "end" => NoneAcross(S, T))

(* Capture::record: what does not fit is dropped, and the next line that   *)
(* does fit says so.                                                       *)
LEMMA KeepLeads ==
    ASSUME NEW t \in Tape, NEW line \in Line, NEW S, NEW T \in Nat, NEW U \in Nat, T <= U,
           NEW pos, Leads(pos, t.queue, S, T), UpToDate(pos, t, T), Recording(line, T, U, S)
    PROVE  /\ Keep(t, line) \in Tape
           /\ \E more : /\ Leads(more, Keep(t, line).queue, S, U)
                        /\ UpToDate(more, Keep(t, line), U) /\ more[0] = pos[0]
<1>0. /\ t.queue \in Seq(Line) /\ t.dropped \in Nat /\ t.stopped \in BOOLEAN
      /\ Len(t.queue) \in Nat /\ Queue \in Nat
  BY CaptureAssumption DEF Tape
<1>1. Leads(pos, t.queue, S, U)
  <2>1. \A i \in 0..Len(t.queue) : pos[i] \in Lost..U
    BY DEF Leads, Lost
  <2> QED
    BY <2>1 DEF Leads
<1>2. CASE t.stopped
  <2>1. Keep(t, line) = t
    BY <1>2 DEF Keep
  <2>2. UpToDate(pos, t, U)
    BY <1>2 DEF UpToDate
  <2> QED
    BY <1>1, <2>1, <2>2
<1>3. CASE ~t.stopped /\ ~(Len(t.queue) < Queue)
  <2>1. Keep(t, line) = [t EXCEPT !.dropped = @ + 1]
    BY <1>3 DEF Keep
  <2> DEFINE k == [t EXCEPT !.dropped = @ + 1]
  <2>2. k \in Tape /\ k.queue = t.queue /\ k.dropped = t.dropped + 1
    BY <1>0 DEF Tape
  <2> HIDE DEF k
  <2>3. UpToDate(pos, k, U)
    BY <1>0, <2>2 DEF UpToDate
  <2> QED
    BY <1>1, <2>1, <2>2, <2>3 DEF k
<1>4. CASE ~t.stopped /\ Len(t.queue) < Queue
  <2> DEFINE last == [line EXCEPT !.droppedBefore = t.dropped]
             k == [t EXCEPT !.queue = Append(@, last), !.dropped = 0]
             n == Len(t.queue)
             q == t.queue
  <2>1. Keep(t, line) = k
    BY <1>4 DEF Keep
  <2>2. /\ last \in Line /\ last.is = line.is /\ last.from = line.from /\ last.to = line.to
        /\ last.droppedBefore = t.dropped
    BY <1>0 DEF Line
  <2>3. k \in Tape /\ k.queue = Append(q, last) /\ k.dropped = 0
    <3> DEFINE d == Append(t.queue, last)
    <3>1. d \in Seq(Line)
      BY <1>0, <2>2
    <3>2. k = [[t EXCEPT !.queue = d] EXCEPT !.dropped = 0]
      OBVIOUS
    <3> HIDE DEF last, d, k
    <3> QED
      BY <3>1, <3>2 DEF Tape, d, q
  <2>4. q \in Seq(Line) /\ n \in Nat /\ n = Len(q)
    BY <1>0
  <2> HIDE DEF last, k, n, q
  <2>5. /\ Len(k.queue) = n + 1 /\ k.queue[n + 1] = last
        /\ \A i \in 1..n : k.queue[i] = q[i]
    BY <2>2, <2>3, <2>4
  <2> DEFINE end == IF last.is = "open" THEN 0
                    ELSE IF last.droppedBefore > 0 \/ pos[n] = Lost THEN Lost ELSE U
             more == [i \in 0..(n + 1) |-> IF i <= n THEN pos[i] ELSE end]
  <2>6. /\ \A i \in 0..n : more[i] = pos[i] /\ pos[i] \in Lost..U
        /\ more[n + 1] = end /\ more[0] = pos[0] /\ end \in Lost..U /\ pos[n] \in Lost..T
    <3>1. \A i \in 0..n : pos[i] \in Lost..U
      BY <1>1, <2>4 DEF Leads, q
    <3>2. end \in Lost..U
      BY DEF Lost
    <3>3. \A i \in 0..n : i \in 0..(n + 1) /\ i <= n
      BY <2>4
    <3>4. n + 1 \in 0..(n + 1) /\ ~(n + 1 <= n) /\ 0 \in 0..n
      BY <2>4
    <3>5. pos[n] \in Lost..T
      BY <2>4 DEF Leads, q
    <3> HIDE DEF end
    <3> QED
      BY <3>1, <3>2, <3>3, <3>4, <3>5
  <2>7. OneLine(last, pos[n], end, S)
    <3>1. CASE last.is = "open"
      BY <3>1 DEF OneLine
    <3>2. CASE last.is # "open" /\ (last.droppedBefore > 0 \/ pos[n] = Lost)
      BY <3>2 DEF OneLine
    <3>3. CASE last.is # "open" /\ ~(last.droppedBefore > 0) /\ pos[n] # Lost
      <4>1. t.dropped = 0
        BY <1>0, <2>2, <3>3
      <4>2. pos[n] = T
        BY <1>4, <3>3, <4>1 DEF UpToDate, n
      <4>3. end = U
        BY <3>3
      <4>4. \/ last.is = "received" /\ last.from = T /\ last.to = U
            \/ last.is \in {"end", "close"} /\ U = T /\ (last.is = "end" => NoneAcross(S, T))
        BY <2>2, <3>3 DEF Recording
      <4> HIDE DEF end
      <4>5. CASE last.is = "received" /\ last.from = T /\ last.to = U
        BY <3>3, <4>2, <4>3, <4>5 DEF OneLine
      <4>6. CASE last.is \in {"end", "close"} /\ U = T /\ (last.is = "end" => NoneAcross(S, T))
        BY <3>3, <4>2, <4>3, <4>6 DEF OneLine
      <4> QED
        BY <4>4, <4>5, <4>6
    <3> QED
      BY <3>1, <3>2, <3>3
  <2>8. Leads(more, k.queue, S, U)
    <3>1. ASSUME NEW i \in 0..Len(k.queue)
          PROVE  more[i] \in Lost..U
      <4>1. i \in 0..n \/ i = n + 1
        BY <2>4, <2>5
      <4> HIDE DEF more, end
      <4> QED
        BY <2>6, <4>1
    <3>2. ASSUME NEW i \in 1..Len(k.queue)
          PROVE  OneLine(k.queue[i], more[i - 1], more[i], S)
      <4>1. CASE i = n + 1
        <5>1. i - 1 = n /\ n \in 0..n
          BY <2>4, <4>1
        <5> HIDE DEF more, end
        <5> QED
          BY <2>5, <2>6, <2>7, <4>1, <5>1
      <4>2. CASE i # n + 1
        <5>1. i \in 1..n /\ i \in 0..n /\ i - 1 \in 0..n
          BY <2>4, <2>5, <4>2
        <5>2. OneLine(q[i], pos[i - 1], pos[i], S)
          BY <5>1 DEF Leads, q, n
        <5> HIDE DEF more, end
        <5> QED
          BY <2>5, <2>6, <5>1, <5>2
      <4> QED
        BY <4>1, <4>2
    <3> HIDE DEF more
    <3> QED
      BY <3>1, <3>2 DEF Leads
  <2>9. UpToDate(more, k, U)
    <3>1. more[Len(k.queue)] \in {Lost, U}
      <4>1. end \in {Lost, U}
        BY <2>2, <2>7 DEF Recording
      <4> HIDE DEF more, end
      <4> QED
        BY <2>5, <2>6, <4>1
    <3> HIDE DEF more
    <3> QED
      BY <3>1 DEF UpToDate
  <2> HIDE DEF more, end
  <2> QED
    BY <2>1, <2>3, <2>6, <2>8, <2>9
<1> QED
  BY <1>0, <1>2, <1>3, <1>4

(* The lines lead where they did when something is sent behind them all.   *)
LEMMA LeadsAnyway ==
    ASSUME NEW queue, NEW S, NEW R, NEW T \in Nat, NEW pos, Leads(pos, queue, S, T), Len(queue) \in Nat,
           \A p \in 0..T : NoneAcross(S, p) => NoneAcross(R, p)
    PROVE  Leads(pos, queue, R, T)
<1>1. ASSUME NEW i \in 1..Len(queue)
      PROVE  OneLine(queue[i], pos[i - 1], pos[i], R)
  <2>1. OneLine(queue[i], pos[i - 1], pos[i], S)
    BY DEF Leads
  <2>2. pos[i - 1] \in Lost..T
    <3>1. i - 1 \in 0..Len(queue)
      OBVIOUS
    <3> QED
      BY <3>1 DEF Leads
  <2>3. pos[i - 1] # Lost => pos[i - 1] \in 0..T
    BY <2>2 DEF Lost
  <2> QED
    BY <2>1, <2>3 DEF OneLine
<1> QED
  BY <1>1 DEF Leads

(* How far the replay r has got, in the stream u with the frames S.        *)
Plays(r, p, u, S) ==
    /\ r \in Replay /\ (r.here <=> p # Lost) /\ (r.told => ~r.here)
    /\ r.here => /\ r.from + Len(r.buffer) = p /\ Window(r.buffer, u, r.from)
                 /\ Tidy(r.frames, 0, r.from) /\ Covers(Elements(r.frames), r.from, S)

(* The replay's reassembler, and the same of it as of the service's.       *)
LEMMA PlaysOn ==
    ASSUME NEW u \in Seq(Bytes), NEW S, \A f \in S : IsSent(u, f), Apart(S), replayed \in Replay,
           replayed.here, ~replayed.told,
           Tidy(replayed.frames, 0, replayed.from), Covers(Elements(replayed.frames), replayed.from, S),
           NEW s \in Seq(Bytes), Window(s, u, replayed.from), NEW giveUp \in BOOLEAN,
           NEW p \in Nat, p = replayed.from + Len(s), ~giveUp \/ NoneAcross(S, p),
           NEW r, r = Replayed(s, giveUp)
    PROVE  Plays(r, p, u, S) /\ r.here /\ (giveUp => r.from = p)
<1> DEFINE k == replayed.from
           fs == replayed.frames
           sc == Scan(s, k, giveUp)
           rest == SubSeq(s, sc.at + 1, Len(s))
<1>1. k \in Nat /\ fs \in Seq(Handed) /\ Len(s) \in Nat
  BY DEF Replay
<1>2. /\ Tidy(fs, 0, k) /\ Covers(Elements(fs), k, S) /\ Window(s, u, k) /\ sc = Scan(s, k, giveUp)
      /\ rest = SubSeq(s, sc.at + 1, Len(s)) /\ p = k + Len(s) /\ (~giveUp \/ NoneAcross(S, k + Len(s)))
  OBVIOUS
<1>3. r = [replayed EXCEPT !.frames = fs \o sc.frames, !.from = k + sc.at, !.buffer = rest]
  BY DEF Replayed
<1> HIDE DEF k, fs, sc, rest
<1>4. Kept(rest, s, u, k, sc, giveUp)
  BY <1>1, <1>2, ScanKeeps
<1>5. /\ rest \in Seq(Bytes) /\ Len(rest) = Len(s) - sc.at /\ sc.at \in 0..Len(s)
      /\ Window(rest, u, k + sc.at) /\ (giveUp => rest = <<>>)
  BY <1>4 DEF Kept
<1> DEFINE all == fs \o sc.frames
           high == k + sc.at
<1>6. Tidy(all, 0, high) /\ Elements(all) = Elements(fs) \cup Elements(sc.frames)
  <2>1. Tidy(fs, 0, k) /\ sc = Scan(s, k, giveUp) /\ k \in Nat
    BY <1>1, <1>2
  <2>2. Advances(sc, s, fs, 0, k)
    BY <2>1, ScanGoesOn
  <2> QED
    BY <2>2 DEF Advances
<1>7. Covers(Elements(all), high, S)
  <2>1. Covers(Elements(fs) \cup Elements(sc.frames), k + sc.at, S)
    BY <1>1, <1>2, ScanCoversSent
  <2> QED
    BY <1>6, <2>1
<1>8. high \in Nat /\ high + Len(rest) = p /\ (giveUp => high = p)
  <2>1. giveUp => Len(rest) = 0
    <3>1. Len(<<>>) = 0
      OBVIOUS
    <3> QED
      BY <1>5, <3>1, Zenon
  <2> DEFINE at == sc.at
             n == Len(s)
             m == Len(rest)
  <2>2. k \in Nat /\ n \in Nat /\ p = k + n /\ m = n - at /\ at \in 0..n /\ (giveUp => m = 0)
    BY <1>1, <1>2, <1>5, <2>1
  <2> HIDE DEF at, n, m
  <2>3. k + at \in Nat /\ k + at + m = p /\ (giveUp => k + at = p)
    BY <2>2
  <2> QED
    BY <2>3 DEF at, m
<1>9. all \in Seq(Handed)
  BY <1>6 DEF Tidy
<1>10. r = [[[replayed EXCEPT !.frames = all] EXCEPT !.from = high] EXCEPT !.buffer = rest]
  BY <1>3
<1> HIDE DEF all, high
<1>11. /\ r \in Replay /\ r.frames = all /\ r.from = high /\ r.buffer = rest
       /\ r.here = replayed.here /\ r.told = replayed.told
  BY <1>5, <1>8, <1>9, <1>10 DEF Replay
<1>12. p # Lost
  BY DEF Lost
<1>13. Window(rest, u, high)
  BY <1>5 DEF high
<1> QED
  BY <1>6, <1>7, <1>8, <1>11, <1>12, <1>13 DEF Plays

(* A stream that grows, or that ends behind what was written of it.        *)
LEMMA PlaysAnyway ==
    ASSUME NEW r, NEW p, NEW u \in Seq(Bytes), NEW v \in Seq(Bytes), NEW S, NEW R, NEW T \in Nat,
           p \in Lost..T, Plays(r, p, u, S),
           T <= Len(u), T <= Len(v), Window(u, v, 0) \/ Window(v, u, 0),
           \A H : \A high \in 0..T :
              Covers(H, high, S) /\ (\A y \in H : y.from \in Nat /\ y.from < high) => Covers(H, high, R)
    PROVE  Plays(r, p, v, R)
<1>1. CASE ~r.here
  BY <1>1 DEF Plays
<1>2. CASE r.here
  <2> DEFINE k == r.from
             b == r.buffer
  <2>1. /\ k \in Nat /\ b \in Seq(Bytes) /\ Len(b) \in Nat /\ k + Len(b) = p /\ Window(b, u, k)
        /\ Tidy(r.frames, 0, k) /\ Covers(Elements(r.frames), k, S) /\ p # Lost
    BY <1>2 DEF Plays, Replay
  <2> HIDE DEF k, b
  <2>2. p \in 0..T /\ k \in 0..T /\ k + Len(b) <= Len(v)
    BY <2>1 DEF Lost
  <2>3. PICK o \in Nat : o = 0
    OBVIOUS
  <2>4. Window(b, v, k)
    <3>1. o + k = k
      BY <2>1, <2>3
    <3>2. CASE Window(u, v, 0)
      <4>1. Window(u, v, o)
        BY <2>3, <3>2
      <4>2. Window(b, v, o + k)
        BY <2>1, <2>3, <4>1, PieceOfPiece
      <4> QED
        BY <3>1, <4>2
    <3>3. CASE Window(v, u, 0)
      <4>1. Window(v, u, o) /\ Window(b, u, o + k)
        BY <2>1, <2>3, <3>1, <3>3
      <4> QED
        BY <2>1, <2>2, <2>3, <4>1, InPiece
    <3> QED
      BY <3>2, <3>3
  <2>5. \A y \in Elements(r.frames) : y.from \in Nat /\ y.from < k
    <3> DEFINE fs == r.frames
    <3>0. Tidy(fs, 0, k)
      BY <2>1
    <3> HIDE DEF fs
    <3>1. ASSUME NEW i \in 1..Len(fs)
          PROVE  fs[i].from \in Nat /\ fs[i].from < k
      <4>1. /\ fs[i].from \in Nat /\ fs[i].to \in Nat /\ fs[i].from < fs[i].to /\ fs[i].to <= k
        BY <3>0, HandedAt DEF Tidy
      <4> QED
        BY <2>1, <4>1
    <3>2. DOMAIN fs = 1..Len(fs)
      BY <3>0 DEF Tidy
    <3>3. \A y \in Elements(fs) : y.from \in Nat /\ y.from < k
      BY <3>1, <3>2 DEF Elements
    <3> QED
      BY <3>3 DEF fs
  <2>6. Covers(Elements(r.frames), k, R)
    BY <2>1, <2>2, <2>5
  <2> QED
    BY <1>2, <2>1, <2>4, <2>6 DEF Plays, k, b
<1> QED
  BY <1>1, <1>2

(* replay: the file's next line.                                           *)
LEMMA PlaysLine ==
    ASSUME FramingInv, NEW p \in Lost..taken, NEW q \in Lost..taken, Plays(replayed, p, stream, sent),
           NEW line \in Line, OneLine(line, p, q, sent), NEW r, r = ReplayLine(line)
    PROVE  Plays(r, q, stream, sent)
<1>0. /\ stream \in Seq(Bytes) /\ Len(stream) \in Nat /\ taken \in Nat /\ taken <= Len(stream)
      /\ (\A f \in sent : IsSent(stream, f)) /\ Apart(sent)
  <2>1. stream \in Seq(Bytes) /\ Len(stream) \in Nat /\ taken \in Nat /\ taken <= Len(stream)
    BY HeldIs
  <2> QED
    BY <2>1 DEF FramingInv, SentInv
<1>1. replayed \in Replay /\ (replayed.here <=> p # Lost) /\ (replayed.told => ~replayed.here)
  BY DEF Plays
<1>2. CASE line.is = "open"
  <2>1. r = [here |-> TRUE, told |-> FALSE, from |-> 0, buffer |-> <<>>, frames |-> <<>>]
    BY <1>2 DEF ReplayLine, NothingReplayed
  <2>2. PICK none, o : none = <<>> /\ o = 0 /\ r = [here |-> TRUE, told |-> FALSE, from |-> o, buffer |-> none, frames |-> none]
    BY <2>1, Zenon
  <2>3. /\ none \in Seq(Bytes) /\ none \in Seq(Handed) /\ Len(none) = 0 /\ o \in Nat /\ o + Len(none) = 0
        /\ o <= o
    BY <2>2
  <2>4. Window(none, stream, o)
    <3>1. o + Len(none) <= Len(stream) /\ ~(\E i \in 1..Len(none) : TRUE)
      BY <1>0, <2>3
    <3> QED
      BY <3>1 DEF Window
  <2>5. Tidy(none, 0, o)
    <3>1. 0 \in Nat /\ 0 <= o
      BY <2>2, <2>3
    <3> QED
      BY <2>2, <2>3, <3>1, TidyNone
  <2>6. Covers(Elements(none), o, sent)
    <3>1. \A f \in sent : f.from \in Nat
      BY <1>0 DEF IsSent
    <3>2. \A f \in sent : ~(f.from < o)
      BY <2>2, <3>1
    <3> QED
      BY <3>2 DEF Covers
  <2>7. q = 0 /\ q # Lost
    BY <1>2 DEF OneLine, Lost
  <2>8. /\ r \in Replay /\ r.here = TRUE /\ r.told = FALSE /\ r.from = o /\ r.buffer = none /\ r.frames = none
    <3>1. none \in Seq(Bytes) /\ none \in Seq(Handed) /\ o \in Nat
      BY <2>3
    <3>2. r = [here |-> TRUE, told |-> FALSE, from |-> o, buffer |-> none, frames |-> none]
      BY <2>2
    <3> QED
      BY <3>1, <3>2 DEF Replay
  <2> QED
    BY <2>3, <2>4, <2>5, <2>6, <2>7, <2>8 DEF Plays
<1>3. CASE line.is # "open" /\ (replayed.told \/ line.droppedBefore > 0)
  <2>1. r = [here |-> FALSE, told |-> TRUE, from |-> 0, buffer |-> <<>>, frames |-> <<>>]
    BY <1>3 DEF ReplayLine, NothingReplayed
  <2>2. PICK none : none = <<>> /\ r = [here |-> FALSE, told |-> TRUE, from |-> 0, buffer |-> none, frames |-> none]
    BY <2>1, Zenon
  <2>3. r \in Replay /\ ~r.here
    <3>1. none \in Seq(Bytes) /\ none \in Seq(Handed) /\ 0 \in Nat
      BY <2>2
    <3>2. r = [here |-> FALSE, told |-> TRUE, from |-> 0, buffer |-> none, frames |-> none]
      BY <2>2
    <3> QED
      BY <3>1, <3>2 DEF Replay
  <2>4. q = Lost
    BY <1>1, <1>3 DEF OneLine
  <2> QED
    BY <2>3, <2>4 DEF Plays
<1>4. CASE line.is # "open" /\ ~replayed.told /\ ~(line.droppedBefore > 0) /\ ~replayed.here
  <2>1. r = replayed
    BY <1>4 DEF ReplayLine
  <2>2. p = Lost /\ q = Lost
    BY <1>1, <1>4 DEF OneLine
  <2> QED
    BY <2>1, <2>2
<1>5. CASE line.is # "open" /\ ~replayed.told /\ ~(line.droppedBefore > 0) /\ replayed.here
  <2>1. /\ p # Lost /\ p \in 0..taken
        /\ Tidy(replayed.frames, 0, replayed.from) /\ Covers(Elements(replayed.frames), replayed.from, sent)
    BY <1>1, <1>5 DEF Plays, Lost
  <2> DEFINE k == replayed.from
             b == replayed.buffer
  <2>2. k \in Nat /\ b \in Seq(Bytes) /\ Len(b) \in Nat /\ k + Len(b) = p /\ Window(b, stream, k)
    BY <1>1, <1>5 DEF Plays, Replay
  <2>3. PICK giveUp \in BOOLEAN : giveUp <=> line.is = "end"
    OBVIOUS
  <2>4. CASE line.is = "received"
    <3>1. line.from = p /\ line.to = q /\ p <= q
      BY <1>5, <2>1, <2>4 DEF OneLine
    <3>2. PICK chunk, s : chunk = SubSeq(stream, p + 1, q) /\ s = b \o chunk
      OBVIOUS
    <3>3. giveUp = FALSE
      BY <2>3, <2>4
    <3>4. r = Replayed(s, giveUp)
      BY <1>5, <2>4, <3>1, <3>2, <3>3 DEF ReplayLine
    <3> HIDE DEF k, b
    <3>5. Cuts(chunk, stream, p, q)
      <4>1. p \in Nat /\ q \in Nat /\ p <= q /\ q <= Len(stream)
        BY <1>0, <2>1, <3>1
      <4> QED
        BY <1>0, <3>2, <4>1, CutOut
    <3>6. Together(s, b, chunk, stream, k)
      <4>1. chunk \in Seq(Bytes) /\ Window(chunk, stream, k + Len(b))
        BY <2>2, <3>5 DEF Cuts
      <4> QED
        BY <1>0, <2>2, <3>2, <4>1, TwoPieces
    <3>7. s \in Seq(Bytes) /\ Window(s, stream, k) /\ q \in Nat /\ q = k + Len(s)
      <4>1. s \in Seq(Bytes) /\ Window(s, stream, k) /\ Len(s) = Len(b) + Len(chunk) /\ Len(chunk) = q - p
        BY <3>5, <3>6 DEF Cuts, Together
      <4> DEFINE n == Len(s)
                 m == Len(b)
      <4>2. n = m + (q - p) /\ k + m = p /\ k \in Nat /\ m \in Nat /\ p \in Nat /\ p <= q /\ q \in Int
        BY <2>1, <2>2, <3>1, <4>1
      <4> HIDE DEF n, m
      <4>3. q = k + n /\ q \in Nat
        BY <4>2
      <4> QED
        BY <4>1, <4>3 DEF n
    <3> QED
      BY <1>0, <1>1, <1>5, <2>1, <3>3, <3>4, <3>7, PlaysOn DEF k
  <2>5. CASE line.is = "end"
    <3>1. q = p /\ NoneAcross(sent, p)
      BY <1>5, <2>1, <2>5 DEF OneLine
    <3>2. giveUp = TRUE
      BY <2>3, <2>5
    <3>3. r = Replayed(b, giveUp)
      BY <1>5, <2>5, <3>2 DEF ReplayLine
    <3>4. p \in Nat /\ p = k + Len(b)
      BY <2>1, <2>2
    <3>5. Plays(r, p, stream, sent)
      BY <1>0, <1>1, <1>5, <2>1, <2>2, <3>1, <3>3, <3>4, PlaysOn
    <3> QED
      BY <3>1, <3>5
  <2>6. CASE line.is \notin {"received", "end"}
    <3>1. r = replayed /\ q = p
      BY <1>5, <2>1, <2>6 DEF ReplayLine, OneLine
    <3> QED
      BY <3>1
  <2> QED
    BY <2>4, <2>5, <2>6
<1> QED
  BY <1>1, <1>2, <1>3, <1>4, <1>5 DEF Replay

-----------------------------------------------------------------------------
(***************************************************************************)
(* The capture's inductive invariant, and its steps.                       *)
(***************************************************************************)

(* Places in the stream for the lines still to be written.                 *)
Placed(pos) ==
    /\ Leads(pos, tape.queue, sent, taken) /\ UpToDate(pos, tape, taken)
    /\ Plays(replayed, pos[0], stream, sent)
RecordedInv == tape \in Tape /\ \E pos : Placed(pos)
CaptureInv == FramingInv /\ RecordedInv

(* What a capture has before it, in the state before.                      *)
LEMMA PlacedIs ==
    ASSUME FramingInv, tape \in Tape, NEW pos, Placed(pos)
    PROVE  /\ tape.queue \in Seq(Line) /\ Len(tape.queue) \in Nat
           /\ tape.dropped \in Nat /\ tape.stopped \in BOOLEAN
           /\ taken \in Nat /\ taken <= Len(stream) /\ stream \in Seq(Bytes) /\ Len(stream) \in Nat
           /\ pos[0] \in Lost..taken
<1>1. stream \in Seq(Bytes) /\ Len(stream) \in Nat /\ taken \in Nat /\ taken <= Len(stream)
  BY HeldIs
<1>2. /\ tape.queue \in Seq(Line) /\ Len(tape.queue) \in Nat
      /\ tape.dropped \in Nat /\ tape.stopped \in BOOLEAN
  BY DEF Tape
<1>3. 0 \in 0..Len(tape.queue)
  BY <1>2
<1> QED
  BY <1>1, <1>2, <1>3 DEF Placed, Leads

LEMMA NothingPlays ==
    ASSUME NEW u, NEW S
    PROVE  Plays(NothingReplayed, Lost, u, S)
<1>1. PICK none, r : none = <<>> /\ r = [here |-> FALSE, told |-> FALSE, from |-> 0, buffer |-> none, frames |-> none]
  OBVIOUS
<1>2. r = NothingReplayed
  BY <1>1, Zenon DEF NothingReplayed
<1>3. r \in Replay /\ ~r.here /\ ~r.told
  <2>1. none \in Seq(Bytes) /\ none \in Seq(Handed) /\ 0 \in Nat
    BY <1>1
  <2>2. r = [here |-> FALSE, told |-> FALSE, from |-> 0, buffer |-> none, frames |-> none]
    BY <1>1
  <2> QED
    BY <2>1, <2>2 DEF Replay
<1>4. Plays(r, Lost, u, S)
  BY <1>3 DEF Plays
<1> QED
  BY <1>2, <1>4

LEMMA RecordedInit ==
    ASSUME CaptureInit
    PROVE  RecordedInv
<1>1. /\ stream = <<>> /\ sent = {} /\ taken = 0 /\ replayed = NothingReplayed
      /\ tape = [queue |-> <<Mark("open")>>, dropped |-> 0, stopped |-> FALSE]
  BY DEF CaptureInit, Init
<1>2. PICK open : open = Mark("open")
  OBVIOUS
<1>3. open \in Line /\ open.is = "open"
  BY <1>2 DEF Mark, Line
<1>4. PICK queue : queue = <<open>>
  OBVIOUS
<1>5. queue \in Seq(Line) /\ Len(queue) = 1 /\ queue[1] = open
  BY <1>3, <1>4
<1>6. tape = [queue |-> queue, dropped |-> 0, stopped |-> FALSE]
  BY <1>1, <1>2, <1>4
<1>7. tape \in Tape /\ tape.queue = queue
  BY <1>5, <1>6 DEF Tape
<1> DEFINE pos == [i \in 0..1 |-> IF i = 0 THEN Lost ELSE 0]
<1>8. pos[0] = Lost /\ pos[1] = 0
  OBVIOUS
<1> HIDE DEF pos
<1>9. Leads(pos, queue, sent, taken)
  <2>1. ASSUME NEW i \in 0..Len(queue)
        PROVE  pos[i] \in Lost..taken
    <3>1. i = 0 \/ i = 1
      BY <1>5
    <3> QED
      BY <1>1, <1>8, <3>1 DEF Lost
  <2>2. ASSUME NEW i \in 1..Len(queue)
        PROVE  OneLine(queue[i], pos[i - 1], pos[i], sent)
    <3>1. i = 1
      BY <1>5
    <3> QED
      BY <1>3, <1>5, <1>8, <3>1 DEF OneLine
  <2> QED
    BY <2>1, <2>2 DEF Leads
<1>10. UpToDate(pos, tape, taken)
  BY <1>1, <1>5, <1>7, <1>8 DEF UpToDate
<1>11. Plays(replayed, pos[0], stream, sent)
  BY <1>1, <1>8, NothingPlays
<1>12. Placed(pos)
  BY <1>7, <1>9, <1>10, <1>11 DEF Placed
<1> QED
  BY <1>7, <1>12 DEF RecordedInv

(* What the line brings meanwhile is behind all that was recorded.         *)
LEMMA LineGoesOn ==
    ASSUME CaptureInv, UNCHANGED captured, taken' = taken,
           NEW more \in Seq(Bytes), stream' = stream \o more,
           sent' = sent \/ \E new : new.from = Len(stream) /\ sent' = sent \cup {new}
    PROVE  RecordedInv'
<1>1. tape' = tape /\ replayed' = replayed /\ tape \in Tape
  BY DEF captured, CaptureInv, RecordedInv
<1>2. PICK pos : Placed(pos)
  BY DEF CaptureInv, RecordedInv
<1>3. /\ taken \in Nat /\ taken <= Len(stream) /\ stream \in Seq(Bytes) /\ Len(stream) \in Nat
      /\ pos[0] \in Lost..taken /\ Len(tape.queue) \in Nat
  BY <1>1, <1>2, PlacedIs DEF CaptureInv
<1>4. PICK longer : longer = stream \o more
  OBVIOUS
<1>5. longer \in Seq(Bytes) /\ Len(longer) = Len(stream) + Len(more) /\ Window(stream, longer, 0)
  BY <1>3, <1>4, Longer
<1>6. taken <= Len(longer)
  <2>1. Len(more) \in Nat
    OBVIOUS
  <2> QED
    BY <1>3, <1>5, <2>1
<1>7. ASSUME NEW p \in 0..taken, NoneAcross(sent, p)
      PROVE  NoneAcross(sent', p)
  <2>1. \A f \in sent' : f \in sent \/ p <= f.from
    BY <1>3
  <2> QED
    BY <1>7, <2>1 DEF NoneAcross
<1>8. ASSUME NEW H, NEW high \in 0..taken, Covers(H, high, sent),
             \A y \in H : y.from \in Nat /\ y.from < high
      PROVE  Covers(H, high, sent')
  <2>1. CASE sent' = sent
    BY <1>8, <2>1
  <2>2. ASSUME NEW new, new.from = Len(stream), sent' = sent \cup {new}
        PROVE  Covers(H, high, sent')
    <3>1. new.from \in Nat /\ high \in Nat /\ high <= new.from
      BY <1>3, <2>2
    <3>2. Covers(H, high, sent \cup {new})
      BY <1>8, <3>1, CoversMore
    <3> QED
      BY <2>2, <3>2
  <2> QED
    BY <2>1, <2>2
<1>9. Leads(pos, tape.queue, sent', taken)
  <2>1. Leads(pos, tape.queue, sent, taken)
    BY <1>2 DEF Placed
  <2> QED
    BY <1>3, <1>7, <2>1, LeadsAnyway
<1>10. Plays(replayed, pos[0], longer, sent')
  <2>1. Plays(replayed, pos[0], stream, sent)
    BY <1>2 DEF Placed
  <2> QED
    BY <1>3, <1>5, <1>6, <1>8, <2>1, PlaysAnyway
<1>11. Placed(pos)'
  <2>1. UpToDate(pos, tape, taken)
    BY <1>2 DEF Placed
  <2> QED
    BY <1>1, <1>4, <1>9, <1>10, <2>1 DEF Placed
<1> QED
  BY <1>1, <1>11 DEF RecordedInv

LEMMA FrameIsRecorded ==
    ASSUME CaptureInv, FrameIsSent, UNCHANGED captured
    PROVE  RecordedInv'
<1>1. PICK item \in Meant :
        /\ Len(item.data) <= MaxData
        /\ stream' = stream \o Frame(item.opcode, item.data)
        /\ sent' = sent \cup {[from |-> Len(stream),
                               to |-> Len(stream) + Len(Frame(item.opcode, item.data)),
                               means |-> item.means]}
  BY DEF FrameIsSent
<1>2. PICK b : b = Frame(item.opcode, item.data)
  OBVIOUS
<1>3. PICK longer : longer = stream \o b
  OBVIOUS
<1>4. stream \in Seq(Bytes)
  BY HeldIs DEF CaptureInv
<1>5. EndsWith(longer, stream, b, item.means)
  BY <1>1, <1>2, <1>3, <1>4, NewlySent
<1>6. b \in Seq(Bytes)
  BY <1>5 DEF EndsWith
<1>7. taken' = taken
  BY DEF FrameIsSent
<1>8. \E new : new.from = Len(stream) /\ sent' = sent \cup {new}
  <2> DEFINE new == [from |-> Len(stream), to |-> Len(stream) + Len(b), means |-> item.means]
  <2>1. new.from = Len(stream) /\ sent' = sent \cup {new}
    BY <1>1, <1>2
  <2> QED
    BY <2>1
<1> QED
  BY <1>1, <1>2, <1>6, <1>7, <1>8, LineGoesOn

LEMMA NoiseIsRecorded ==
    ASSUME CaptureInv, NoiseArrives, UNCHANGED captured
    PROVE  RecordedInv'
<1>1. sent' = sent /\ taken' = taken
  BY DEF NoiseArrives
<1>2. stream \in Seq(Bytes)
  BY HeldIs DEF CaptureInv
<1>3. PICK more \in Seq(Bytes) : stream' = stream \o more
  BY <1>2, NoiseIs
<1> QED
  BY <1>1, <1>3, LineGoesOn

(* Neither the line nor the capture moves.                                 *)
LEMMA RecordedRests ==
    ASSUME RecordedInv, UNCHANGED <<stream, sent, taken, captured>>
    PROVE  RecordedInv'
<1>1. /\ stream' = stream /\ sent' = sent /\ taken' = taken
      /\ tape' = tape /\ replayed' = replayed
  BY DEF captured
<1>2. PICK pos : Placed(pos)
  BY DEF RecordedInv
<1>3. Placed(pos)'
  BY <1>1, <1>2 DEF Placed
<1> QED
  BY <1>1, <1>3 DEF RecordedInv

(* Tee::read: what the port brought is recorded on its way.                *)
LEMMA FeedIsRecorded ==
    ASSUME CaptureInv, FeedRecorded
    PROVE  RecordedInv'
<1>1. /\ stream' = stream /\ sent' = sent /\ replayed' = replayed /\ taken' \in (taken + 1)..Len(stream)
      /\ tape' = Keep(tape, Received(taken, taken'))
  BY DEF FeedRecorded, Feed
<1>2. PICK pos : Placed(pos)
  BY DEF CaptureInv, RecordedInv
<1>3. tape \in Tape /\ taken \in Nat /\ taken' \in Nat /\ taken <= taken'
  <2>1. tape \in Tape /\ taken \in Nat /\ Len(stream) \in Nat
    BY <1>2, PlacedIs DEF CaptureInv, RecordedInv
  <2> QED
    BY <1>1, <2>1
<1>4. PICK line : line = Received(taken, taken')
  OBVIOUS
<1>5. line \in Line /\ line.is = "received" /\ line.from = taken /\ line.to = taken'
  <2>1. line = [is |-> "received", from |-> taken, to |-> taken', droppedBefore |-> 0]
    BY <1>4 DEF Received, Mark
  <2> QED
    BY <1>3, <2>1 DEF Line
<1>6. Recording(line, taken, taken', sent)
  BY <1>5 DEF Recording
<1>7. Leads(pos, tape.queue, sent, taken) /\ UpToDate(pos, tape, taken)
  BY <1>2 DEF Placed
<1>8. /\ Keep(tape, line) \in Tape
      /\ \E more : /\ Leads(more, Keep(tape, line).queue, sent, taken')
                   /\ UpToDate(more, Keep(tape, line), taken') /\ more[0] = pos[0]
  BY <1>3, <1>5, <1>6, <1>7, KeepLeads
<1>9. PICK more : /\ Leads(more, Keep(tape, line).queue, sent, taken')
                  /\ UpToDate(more, Keep(tape, line), taken') /\ more[0] = pos[0]
  BY <1>8
<1>10. Placed(more)'
  <2>1. Plays(replayed, pos[0], stream, sent)
    BY <1>2 DEF Placed
  <2> QED
    BY <1>1, <1>4, <1>9, <2>1 DEF Placed
<1> QED
  BY <1>1, <1>4, <1>8, <1>10 DEF RecordedInv

(* A mark on the tape, where nothing lies across.                          *)
LEMMA MarkLeads ==
    ASSUME NEW t \in Tape, NEW kind \in {"end", "close"}, NEW S, NEW T \in Nat,
           NEW pos, Leads(pos, t.queue, S, T), UpToDate(pos, t, T), NoneAcross(S, T)
    PROVE  /\ Keep(t, Mark(kind)) \in Tape
           /\ \E more : /\ Leads(more, Keep(t, Mark(kind)).queue, S, T)
                        /\ UpToDate(more, Keep(t, Mark(kind)), T) /\ more[0] = pos[0]
<1>1. Mark(kind) \in Line /\ Mark(kind).is = kind
  BY DEF Mark, Line
<1>2. Recording(Mark(kind), T, T, S) /\ T <= T
  BY <1>1 DEF Recording
<1> QED
  BY <1>1, <1>2, KeepLeads

(* An error or the end of the port, and the port let go of.                *)
LEMMA CutIsRecorded ==
    ASSUME CaptureInv, CutRecorded
    PROVE  RecordedInv'
<1>1. /\ stream' = SubSeq(stream, 1, taken) /\ sent' = {f \in sent : f.to <= taken} /\ taken' = taken
      /\ tape' = Keep(Keep(tape, Mark("end")), Mark("close")) /\ replayed' = replayed
  BY DEF CutRecorded, Cut
<1>2. PICK pos : Placed(pos)
  BY DEF CaptureInv, RecordedInv
<1>3. /\ tape \in Tape /\ taken \in Nat /\ taken <= Len(stream) /\ stream \in Seq(Bytes)
      /\ Len(stream) \in Nat /\ pos[0] \in Lost..taken /\ Len(tape.queue) \in Nat
  BY <1>2, PlacedIs DEF CaptureInv, RecordedInv
<1>4. PICK short, o : short = stream' /\ o = 0
  OBVIOUS
<1>5. short \in Seq(Bytes) /\ Len(short) = taken /\ Window(short, stream, 0)
  <2>1. short = SubSeq(stream, o + 1, taken) /\ o <= taken /\ o \in Nat /\ taken - o = taken
    BY <1>1, <1>3, <1>4
  <2>2. Cuts(short, stream, o, taken)
    BY <1>3, <2>1, CutOut
  <2> QED
    BY <1>4, <2>1, <2>2 DEF Cuts
<1>6. sent' \subseteq sent /\ NoneAcross(sent', taken)
  BY <1>1 DEF NoneAcross
<1>7. Leads(pos, tape.queue, sent', taken) /\ UpToDate(pos, tape, taken)
  <2>1. \A p \in 0..taken : NoneAcross(sent, p) => NoneAcross(sent', p)
    BY <1>6 DEF NoneAcross
  <2>2. Leads(pos, tape.queue, sent, taken) /\ UpToDate(pos, tape, taken)
    BY <1>2 DEF Placed
  <2> QED
    BY <1>3, <2>1, <2>2, LeadsAnyway
<1>8. Plays(replayed, pos[0], short, sent')
  <2>1. Plays(replayed, pos[0], stream, sent)
    BY <1>2 DEF Placed
  <2>2. \A H : \A high \in 0..taken : Covers(H, high, sent) => Covers(H, high, sent')
    BY <1>6, CoversFewer
  <2>3. taken <= Len(short)
    BY <1>3, <1>5
  <2> QED
    BY <1>3, <1>5, <2>1, <2>2, <2>3, PlaysAnyway
<1>9. taken <= taken
  BY <1>3
<1>10. PICK t, more : /\ t = Keep(tape, Mark("end")) /\ t \in Tape
                      /\ Leads(more, t.queue, sent', taken) /\ UpToDate(more, t, taken) /\ more[0] = pos[0]
  BY <1>3, <1>6, <1>7, <1>9, MarkLeads
<1>11. PICK last : /\ Keep(t, Mark("close")) \in Tape
                   /\ Leads(last, Keep(t, Mark("close")).queue, sent', taken)
                   /\ UpToDate(last, Keep(t, Mark("close")), taken) /\ last[0] = more[0]
  BY <1>3, <1>6, <1>9, <1>10, MarkLeads
<1>12. Placed(last)'
  BY <1>1, <1>4, <1>8, <1>10, <1>11 DEF Placed
<1> QED
  BY <1>1, <1>10, <1>11, <1>12 DEF RecordedInv

(* Capturing::open: of the connection before, nothing but what was         *)
(* dropped of it has a bearing on the replay.                              *)
LEMMA ReopenIsRecorded ==
    ASSUME CaptureInv, ReopenRecorded
    PROVE  RecordedInv'
<1>1. /\ sent' = {} /\ taken' = 0 /\ replayed' = NothingReplayed
      /\ tape' = Keep(Keep([tape EXCEPT !.queue = Outdated(@)], Mark("close")), Mark("open"))
  BY DEF ReopenRecorded, Reopen
<1>2. /\ tape \in Tape /\ tape.queue \in Seq(Line) /\ Len(tape.queue) \in Nat
  BY DEF CaptureInv, RecordedInv, Tape
<1>3. PICK queue : queue = tape.queue
  OBVIOUS
<1>4. PICK old : old = Outdated(queue)
  OBVIOUS
<1>5. queue \in Seq(Line) /\ Len(queue) \in Nat /\ DOMAIN queue = 1..Len(queue)
  BY <1>2, <1>3
<1>6. /\ old \in Seq(Line) /\ Len(old) = Len(queue)
      /\ \A i \in 1..Len(old) : old[i].is = "before"
  <2>1. ASSUME NEW i \in 1..Len(queue)
        PROVE  [queue[i] EXCEPT !.is = "before"] \in Line /\ [queue[i] EXCEPT !.is = "before"].is = "before"
    <3>1. queue[i] \in Line
      BY <1>5
    <3> QED
      BY <3>1 DEF Line
  <2>2. old = [i \in 1..Len(queue) |-> [queue[i] EXCEPT !.is = "before"]]
    BY <1>4, <1>5 DEF Outdated
  <2>3. \A i \in 1..Len(queue) : old[i] \in Line /\ old[i].is = "before"
    BY <2>1, <2>2
  <2>4. DOMAIN old = 1..Len(queue)
    BY <2>2
  <2>5. old \in [1..Len(queue) -> Line]
    BY <2>1, <2>2
  <2> HIDE DEF Line
  <2>6. old \in Seq(Line)
    BY <1>5, <2>5
  <2>7. Len(old) = Len(queue)
    BY <1>5, <2>4, <2>6
  <2> QED
    BY <2>3, <2>6, <2>7
<1>7. PICK t : t = [tape EXCEPT !.queue = old]
  OBVIOUS
<1>8. t \in Tape /\ t.queue = old
  BY <1>2, <1>6, <1>7 DEF Tape
<1>9. PICK T \in Nat : T = 0
  OBVIOUS
<1> DEFINE pos == [i \in 0..Len(queue) |-> Lost]
<1>10. \A i \in 0..Len(old) : pos[i] = Lost
  BY <1>6
<1> HIDE DEF pos
<1>11. Leads(pos, t.queue, sent', T) /\ UpToDate(pos, t, T)
  <2>1. ASSUME NEW i \in 1..Len(old)
        PROVE  OneLine(old[i], pos[i - 1], pos[i], sent')
    <3>1. i \in 0..Len(old) /\ i - 1 \in 0..Len(old)
      BY <1>5, <1>6
    <3>2. old[i].is # "open"
      BY <1>6
    <3> QED
      BY <1>10, <3>1, <3>2 DEF OneLine
  <2>2. \A i \in 0..Len(old) : pos[i] \in Lost..T
    BY <1>9, <1>10 DEF Lost
  <2>3. Len(old) \in 0..Len(old)
    BY <1>5, <1>6
  <2>4. pos[Len(old)] = Lost
    BY <1>10, <2>3
  <2> QED
    BY <1>8, <2>1, <2>2, <2>4 DEF Leads, UpToDate
<1>12. T <= T /\ NoneAcross(sent', T)
  BY <1>1, <1>9 DEF NoneAcross
<1>13. PICK s, more : /\ s = Keep(t, Mark("close")) /\ s \in Tape
                      /\ Leads(more, s.queue, sent', T) /\ UpToDate(more, s, T) /\ more[0] = pos[0]
  BY <1>8, <1>9, <1>11, <1>12, MarkLeads
<1>14. PICK last : /\ Keep(s, Mark("open")) \in Tape
                   /\ Leads(last, Keep(s, Mark("open")).queue, sent', T)
                   /\ UpToDate(last, Keep(s, Mark("open")), T) /\ last[0] = more[0]
  <2>1. PICK line : line = Mark("open")
    OBVIOUS
  <2>2. line \in Line /\ line.is = "open"
    BY <2>1 DEF Mark, Line
  <2>3. Recording(line, T, T, sent')
    BY <1>9, <2>2 DEF Recording
  <2>4. s \in Tape /\ Leads(more, s.queue, sent', T) /\ UpToDate(more, s, T) /\ T <= T
    BY <1>12, <1>13
  <2>5. /\ Keep(s, line) \in Tape
        /\ \E last : /\ Leads(last, Keep(s, line).queue, sent', T)
                     /\ UpToDate(last, Keep(s, line), T) /\ last[0] = more[0]
    BY <2>2, <2>3, <2>4, KeepLeads
  <2> QED
    BY <2>1, <2>5
<1>15. last[0] = Lost
  <2>1. 0 \in 0..Len(old)
    BY <1>5, <1>6
  <2> QED
    BY <1>10, <1>13, <1>14, <2>1
<1>16. Plays(replayed', Lost, stream', sent')
  BY <1>1, NothingPlays
<1>17. tape' = Keep(s, Mark("open")) /\ taken' = T
  BY <1>1, <1>3, <1>4, <1>7, <1>9, <1>13
<1>18. Placed(last)'
  BY <1>14, <1>15, <1>16, <1>17 DEF Placed
<1> QED
  BY <1>14, <1>17, <1>18 DEF RecordedInv

(* write_records: the replay goes where the line at hand leads.            *)
LEMMA WriteIsRecorded ==
    ASSUME CaptureInv, WriteRecord
    PROVE  RecordedInv'
<1>1. /\ tape.queue # <<>> /\ tape' = [tape EXCEPT !.queue = Tail(@)]
      /\ replayed' = ReplayLine(Head(tape.queue))
      /\ stream' = stream /\ sent' = sent /\ taken' = taken
  BY DEF WriteRecord, vars
<1>2. PICK pos : Placed(pos)
  BY DEF CaptureInv, RecordedInv
<1>3. /\ tape \in Tape /\ tape.queue \in Seq(Line) /\ Len(tape.queue) \in Nat /\ tape.dropped \in Nat
      /\ tape.stopped \in BOOLEAN /\ taken \in Nat
  BY <1>2, PlacedIs DEF CaptureInv, RecordedInv
<1>4. PICK queue, rest, t : queue = tape.queue /\ rest = Tail(queue) /\ t = [tape EXCEPT !.queue = rest]
  OBVIOUS
<1>5. /\ queue \in Seq(Line) /\ Len(queue) \in Nat /\ Len(queue) > 0 /\ Head(queue) = queue[1]
      /\ queue[1] \in Line
  BY <1>1, <1>3, <1>4
<1>6. /\ rest \in Seq(Line) /\ Len(rest) = Len(queue) - 1
      /\ \A i \in 1..Len(rest) : rest[i] = queue[i + 1]
  BY <1>1, <1>4, <1>5, HeadTailProperties
<1>7. t \in Tape /\ t.queue = rest /\ t.dropped = tape.dropped /\ t.stopped = tape.stopped /\ tape' = t
  BY <1>1, <1>3, <1>4, <1>6 DEF Tape
<1> DEFINE next == [i \in 0..Len(rest) |-> pos[i + 1]]
<1>8. /\ \A i \in 0..Len(rest) : next[i] = pos[i + 1] /\ i + 1 \in 1..Len(queue)
      /\ next[0] = pos[1] /\ next[Len(rest)] = pos[Len(queue)]
  <2> DEFINE n == Len(rest)
             m == Len(queue)
  <2>1. m \in Nat /\ m > 0 /\ n = m - 1
    BY <1>5, <1>6
  <2> HIDE DEF n, m, next
  <2>2. \A i \in 0..n : next[i] = pos[i + 1]
    BY DEF next, n
  <2>3. 0 \in 0..n /\ n \in 0..n /\ 0 + 1 = 1 /\ n + 1 = m /\ \A i \in 0..n : i + 1 \in 1..m
    BY <2>1
  <2> QED
    BY <2>2, <2>3 DEF n, m
<1> HIDE DEF next
<1>9. Leads(pos, queue, sent, taken) /\ UpToDate(pos, tape, taken) /\ Plays(replayed, pos[0], stream, sent)
  BY <1>2, <1>4 DEF Placed
<1>10. Leads(next, rest, sent, taken)
  <2>1. ASSUME NEW i \in 0..Len(rest)
        PROVE  next[i] \in Lost..taken
    <3>1. i + 1 \in 0..Len(queue) /\ next[i] = pos[i + 1]
      BY <1>5, <1>8
    <3> QED
      BY <1>9, <3>1 DEF Leads
  <2>2. ASSUME NEW i \in 1..Len(rest)
        PROVE  OneLine(rest[i], next[i - 1], next[i], sent)
    <3>1. i \in 0..Len(rest) /\ i - 1 \in 0..Len(rest) /\ (i - 1) + 1 = i /\ (i + 1) - 1 = i
      BY <1>5, <1>6
    <3>2. next[i] = pos[i + 1] /\ next[i - 1] = pos[i] /\ i + 1 \in 1..Len(queue)
      BY <1>8, <3>1
    <3>3. OneLine(queue[i + 1], pos[i], pos[i + 1], sent)
      BY <1>9, <3>1, <3>2 DEF Leads
    <3> QED
      BY <1>6, <3>2, <3>3
  <2> QED
    BY <2>1, <2>2 DEF Leads
<1>11. UpToDate(next, t, taken)
  BY <1>4, <1>7, <1>8, <1>9 DEF UpToDate
<1>12. Plays(replayed', next[0], stream, sent)
  <2>1. 1 \in 1..Len(queue) /\ 0 \in 0..Len(queue) /\ 1 \in 0..Len(queue) /\ 1 - 1 = 0
    BY <1>5
  <2>2. OneLine(queue[1], pos[0], pos[1], sent) /\ pos[0] \in Lost..taken /\ pos[1] \in Lost..taken
    BY <1>9, <2>1 DEF Leads
  <2>3. replayed' = ReplayLine(queue[1]) /\ FramingInv
    BY <1>1, <1>4, <1>5 DEF CaptureInv
  <2>4. Plays(replayed', pos[1], stream, sent)
    BY <1>5, <1>9, <2>2, <2>3, PlaysLine
  <2> QED
    BY <1>8, <2>4
<1>13. Placed(next)'
  BY <1>1, <1>7, <1>10, <1>11, <1>12 DEF Placed
<1> QED
  BY <1>7, <1>13 DEF RecordedInv

(* The writer's end: nothing more is written.                              *)
LEMMA FailureIsRecorded ==
    ASSUME CaptureInv, WriteFails
    PROVE  RecordedInv'
<1>1. /\ tape' = [queue |-> <<>>, dropped |-> 0, stopped |-> TRUE] /\ replayed' = replayed
      /\ stream' = stream /\ sent' = sent /\ taken' = taken
  BY DEF WriteFails, vars
<1>2. PICK pos : Placed(pos)
  BY DEF CaptureInv, RecordedInv
<1>3. pos[0] \in Lost..taken
  BY <1>2, PlacedIs DEF CaptureInv, RecordedInv
<1>4. PICK none : none = <<>> /\ tape' = [queue |-> none, dropped |-> 0, stopped |-> TRUE]
  BY <1>1, Zenon
<1>5. none \in Seq(Line) /\ Len(none) = 0
  BY <1>4
<1>6. tape' \in Tape /\ tape'.queue = none /\ tape'.stopped
  BY <1>4, <1>5 DEF Tape
<1>7. Leads(pos, none, sent, taken)
  BY <1>3, <1>5 DEF Leads
<1>8. UpToDate(pos, tape', taken)
  BY <1>6 DEF UpToDate
<1>9. Placed(pos)'
  BY <1>1, <1>2, <1>6, <1>7, <1>8 DEF Placed
<1> QED
  BY <1>6, <1>9 DEF RecordedInv

LEMMA CaptureNextKeeps ==
    CaptureInv /\ [CaptureNext]_<<vars, captured>> => CaptureInv'
<1> SUFFICES ASSUME CaptureInv, [CaptureNext]_<<vars, captured>>
             PROVE  CaptureInv'
  OBVIOUS
<1>1. FramingInv'
  <2>1. [Next]_vars
    BY DEF CaptureNext, FeedRecorded, CutRecorded, ReopenRecorded, WriteRecord, WriteFails, Next
  <2> QED
    BY <2>1, FramingNext DEF CaptureInv
<1>2. RecordedInv'
  <2>1. CASE FrameIsSent /\ UNCHANGED captured
    BY <2>1, FrameIsRecorded
  <2>2. CASE NoiseArrives /\ UNCHANGED captured
    BY <2>2, NoiseIsRecorded
  <2>3. CASE FeedRecorded
    BY <2>3, FeedIsRecorded
  <2>4. CASE Quiet /\ UNCHANGED captured
    <3>1. UNCHANGED <<stream, sent, taken, captured>>
      BY <2>4 DEF Quiet
    <3> QED
      BY <3>1, RecordedRests DEF CaptureInv
  <2>5. CASE CutRecorded
    BY <2>5, CutIsRecorded
  <2>6. CASE ReopenRecorded
    BY <2>6, ReopenIsRecorded
  <2>7. CASE WriteRecord
    BY <2>7, WriteIsRecorded
  <2>8. CASE WriteFails
    BY <2>8, FailureIsRecorded
  <2>9. CASE UNCHANGED <<vars, captured>>
    <3>1. UNCHANGED <<stream, sent, taken, captured>>
      BY <2>9 DEF vars
    <3> QED
      BY <3>1, RecordedRests DEF CaptureInv
  <2> QED
    BY <2>1, <2>2, <2>3, <2>4, <2>5, <2>6, <2>7, <2>8, <2>9 DEF CaptureNext
<1> QED
  BY <1>1, <1>2 DEF CaptureInv

(* The inductive invariant of a service that is recorded: the lines still  *)
(* to be written lead the replay from where it is in the stream to where   *)
(* the reassembler is, unless something was dropped on the way, and what   *)
(* the replay has handed over is what was sent before its place            *)
(* (Capture::record, write_records, replay).                               *)
THEOREM CaptureInvariant == CaptureSpec => []CaptureInv
<1>1. CaptureInit => CaptureInv
  BY FramingInit, RecordedInit DEF CaptureInit, CaptureInv
<1>2. CaptureInv /\ [CaptureNext]_<<vars, captured>> => CaptureInv'
  BY CaptureNextKeeps
<1> QED
  BY <1>1, <1>2, PTL DEF CaptureSpec

-----------------------------------------------------------------------------
(***************************************************************************)
(* What holds of the capture.                                              *)
(***************************************************************************)

(* Where no accident happened, what was handed over is what was sent, by   *)
(* the service and in the replay, and the service leaves nothing out.      *)
LEMMA JournalHasAll ==
    ASSUME FramingInv, taken = Len(stream), buffer = <<>>, NoAccident
    PROVE  /\ Elements(frames) = {At(f) : f \in sent}
           /\ Played \subseteq {At(f) : f \in sent}
<1>1. /\ stream \in Seq(Bytes) /\ Len(stream) \in Nat /\ taken \in Nat /\ Len(buffer) \in Nat
      /\ \A f \in sent : IsSent(stream, f)
  <2>1. stream \in Seq(Bytes) /\ Len(stream) \in Nat /\ taken \in Nat /\ Len(buffer) \in Nat
    BY HeldIs
  <2> QED
    BY <2>1 DEF FramingInv, SentInv
<1>2. \A y \in Elements(frames) \cup Played : \E g \in sent : y = At(g)
  BY DEF NoAccident, Elements
<1>3. ASSUME NEW f \in sent
      PROVE  At(f) \in Elements(frames)
  <2>1. Len(buffer) = 0
    <3>1. Len(<<>>) = 0
      OBVIOUS
    <3> QED
      BY <3>1, Zenon
  <2>2. f.to \in Nat /\ f.to <= Len(stream)
    BY <1>1 DEF IsSent
  <2>3. f.to <= taken - Len(buffer)
    <3> DEFINE n == Len(stream)
               m == Len(buffer)
    <3>1. m = 0 /\ n \in Nat /\ taken = n /\ f.to <= n
      BY <1>1, <2>1, <2>2
    <3> HIDE DEF n, m
    <3>2. f.to <= taken - m
      BY <2>2, <3>1
    <3> QED
      BY <3>2 DEF m
  <2>4. NoFrameIsLost
    BY NoneLost
  <2>5. PICK i \in DOMAIN frames : frames[i] = At(f) \/ Accident(frames[i], f)
    BY <2>3, <2>4, Zenon DEF NoFrameIsLost
  <2>6. frames[i] \in Elements(frames)
    BY DEF Elements
  <2>7. PICK g \in sent : frames[i] = At(g)
    BY <1>2, <2>6
  <2>8. frames[i].from = g.from
    BY <2>7 DEF At
  <2>9. ~Accident(frames[i], f)
    BY <2>8 DEF Accident
  <2> QED
    BY <2>5, <2>6, <2>9
<1> QED
  BY <1>2, <1>3

(* With nothing dropped nor left to write, nor does the replay.            *)
LEMMA CaptureHasAll ==
    ASSUME CaptureInv, taken = Len(stream), NoAccident, replayed.here, ~replayed.told,
           tape = [queue |-> <<>>, dropped |-> 0, stopped |-> FALSE]
    PROVE  \A f \in sent : At(f) \in Played
<1>1. PICK pos : Placed(pos)
  BY DEF CaptureInv, RecordedInv
<1>2. /\ stream \in Seq(Bytes) /\ Len(stream) \in Nat /\ taken \in Nat
      /\ (\A f \in sent : IsSent(stream, f)) /\ Apart(sent)
  <2>1. stream \in Seq(Bytes) /\ Len(stream) \in Nat /\ taken \in Nat
    BY HeldIs DEF CaptureInv
  <2> QED
    BY <2>1 DEF CaptureInv, FramingInv, SentInv
<1>3. Len(tape.queue) = 0 /\ tape.dropped = 0 /\ ~tape.stopped
  OBVIOUS
<1>4. Plays(replayed, pos[0], stream, sent) /\ UpToDate(pos, tape, taken)
  BY <1>1 DEF Placed
<1>5. pos[0] = taken
  <2>1. pos[0] \in {Lost, taken}
    BY <1>3, <1>4 DEF UpToDate
  <2>2. pos[0] # Lost
    BY <1>4 DEF Plays
  <2> QED
    BY <2>1, <2>2
<1>6. /\ replayed \in Replay /\ replayed.from + Len(replayed.buffer) = taken
      /\ Window(replayed.buffer, stream, replayed.from)
      /\ Tidy(replayed.frames, 0, replayed.from) /\ Covers(Elements(replayed.frames), replayed.from, sent)
  BY <1>4, <1>5 DEF Plays
<1>7. PICK giveUp \in BOOLEAN : giveUp = TRUE
  OBVIOUS
<1>8. PICK s, r : s = replayed.buffer /\ r = Replayed(s, giveUp)
  OBVIOUS
<1>9. s \in Seq(Bytes) /\ Window(s, stream, replayed.from) /\ taken = replayed.from + Len(s)
  BY <1>6, <1>8 DEF Replay
<1>10. NoneAcross(sent, taken)
  BY <1>2 DEF NoneAcross, IsSent
<1>11. Plays(r, taken, stream, sent) /\ r.here /\ (giveUp => r.from = taken)
  BY <1>2, <1>6, <1>8, <1>9, <1>10, PlaysOn
<1>12. Covers(Elements(r.frames), taken, sent)
  BY <1>7, <1>11 DEF Plays
<1>13. Elements(r.frames) = Played
  BY <1>7, <1>8 DEF Played, Elements
<1> SUFFICES ASSUME NEW f \in sent
             PROVE  At(f) \in Played
  OBVIOUS
<1>14. f.from < taken
  <2>1. IsSent(stream, f)
    BY <1>2
  <2>2. f.from \in 0..(Len(stream) - 1)
    BY <1>2, <2>1, SentSpan
  <2> QED
    BY <1>2, <2>2
<1>15. PICK y \in Played : y = At(f) \/ Disturbs(y, f, sent)
  BY <1>12, <1>13, <1>14 DEF Covers
<1>16. PICK g \in sent : y = At(g)
  BY <1>15 DEF NoAccident
<1>17. y.from = g.from
  BY <1>16 DEF At
<1>18. ~Disturbs(y, f, sent)
  BY <1>17 DEF Disturbs
<1> QED
  BY <1>15, <1>18

(* The check of a capture (splitforge-capture run) is fair: a journal that *)
(* has all the service decoded is never said to lack a read, unless the    *)
(* capture is said to be incomplete, however the port's reads were cut,    *)
(* whatever Capture::record dropped and whenever the writer stopped; and   *)
(* with nothing waiting, dropped or unwritten, the two agree.              *)
THEOREM CaptureIsFair == CaptureSpec => []CheckIsFair
<1>1. CaptureInv => CheckIsFair
  <2> SUFFICES ASSUME CaptureInv, taken = Len(stream), buffer = <<>>, NoAccident
               PROVE  /\ ~replayed.told => InCapture \subseteq InJournal
                      /\ replayed.here /\ tape = [queue |-> <<>>, dropped |-> 0, stopped |-> FALSE]
                         /\ ~replayed.told => Verdict = "agree"
    BY DEF CheckIsFair
  <2>1. /\ Elements(frames) = {At(f) : f \in sent}
        /\ Played \subseteq {At(f) : f \in sent}
    BY JournalHasAll DEF CaptureInv
  <2>2. InCapture \subseteq InJournal
    BY <2>1 DEF InCapture, InJournal, Elements
  <2>3. ASSUME replayed.here, tape = [queue |-> <<>>, dropped |-> 0, stopped |-> FALSE], ~replayed.told
        PROVE  Verdict = "agree"
    <3>1. \A f \in sent : At(f) \in Played
      BY <2>3, CaptureHasAll
    <3>2. InJournal \subseteq InCapture
      BY <2>1, <3>1 DEF InCapture, InJournal, Elements
    <3> QED
      BY <2>2, <2>3, <3>2 DEF Verdict
  <2> QED
    BY <2>2, <2>3
<1> QED
  BY <1>1, CaptureInvariant, PTL
=============================================================================
