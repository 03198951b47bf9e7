--------------------------- MODULE JournalProofs ---------------------------
(***************************************************************************)
(* What TLAPS proves of the journal, for every set of reads, every bound   *)
(* and both settings of the switches unless a theorem names one: first its *)
(* types; then that it implements EvidenceLog, so that whatever fails, and *)
(* even when the recover command runs beside the service, no read that was *)
(* acknowledged leaves the files unless the medium damaged a line of it.   *)
(*                                                                         *)
(* Then two ways the journal could stop for good, and why it does not: a   *)
(* start whose replay the schema refuses, and a store loop retrying a read *)
(* that the database already holds.  And last, that the two copies agree   *)
(* and that a checkpoint, which lets a start skip most of the file, tells  *)
(* the truth.                                                              *)
(***************************************************************************)
EXTENDS Journal, SequenceTheorems, FiniteSetTheorems, TLAPS

-----------------------------------------------------------------------------
(***************************************************************************)
(* Sequences and finite sets.                                              *)
(***************************************************************************)

(* A nonempty set of offsets has a last one.                               *)
LEMMA LastOffset ==
    ASSUME NEW n \in Nat, NEW S \in SUBSET (1..n), S # {}
    PROVE  \E m \in S : \A k \in S : k <= m
<1> DEFINE T == {t \in Nat : n - t \in S}
<1>1. T \in SUBSET Nat /\ T # {}
  <2>1. PICK k \in S : TRUE
    OBVIOUS
  <2>2. n - k \in Nat /\ n - (n - k) = k
    BY <2>1
  <2> QED
    BY <2>1, <2>2
<1>2. PICK t \in T : \A u \in T : ~(<<u, t>> \in OpToRel(<, Nat))
  BY <1>1, WFMin, NatLessThanWellFounded
<1>3. \A u \in T : ~(u < t)
  BY <1>1, <1>2 DEF OpToRel
<1>4. ASSUME NEW k \in S
      PROVE  k <= n - t
  <2>1. n - k \in T
    OBVIOUS
  <2> QED
    BY <2>1, <1>3
<1> QED
  BY <1>4

(* A finite set put into a sequence: every member is there.                *)
LEMMA SequenceOfSet ==
    ASSUME NEW S, IsFiniteSet(S), NEW s \in SetToSeqs(S)
    PROVE  s \in Seq(S) /\ ToSet(s) = S /\ Len(s) = Cardinality(S)
<1> DEFINE n == Cardinality(S)
<1>1. n \in Nat
  BY FS_CardinalityType
<1>2. s \in [1..n -> S] /\ \A i, j \in 1..n : i # j => s[i] # s[j]
  BY DEF SetToSeqs
<1>3. s \in Seq(S) /\ Len(s) = n /\ DOMAIN s = 1..n
  BY <1>1, <1>2
<1>4. s \in Injection(1..n, S)
  BY <1>2 DEF Injection, IsInjective
<1>5. IsFiniteSet(1..n) /\ Cardinality(1..n) = n
  BY <1>1, FS_Interval
<1>6. s \in Surjection(1..n, S)
  BY <1>4, <1>5, FS_Injection
<1>7. ToSet(s) = S
  BY <1>2, <1>3, <1>6 DEF ToSet, Surjection
<1> QED
  BY <1>3, <1>7

(* What appending and concatenating do to the members of a sequence.       *)
LEMMA MembersAfterAppend ==
    ASSUME NEW S, NEW s \in Seq(S), NEW e \in S
    PROVE  ToSet(Append(s, e)) = ToSet(s) \cup {e}
BY AppendProperties, LenProperties DEF ToSet

LEMMA MembersAfterConcat ==
    ASSUME NEW S, NEW s \in Seq(S), NEW t \in Seq(S)
    PROVE  ToSet(s \o t) = ToSet(s) \cup ToSet(t)
<1>1. s \o t \in Seq(S) /\ Len(s \o t) = Len(s) + Len(t) /\ Len(s) \in Nat /\ Len(t) \in Nat
  BY ConcatProperties, LenProperties
<1>2. \A i \in 1..Len(s) : (s \o t)[i] = s[i] /\ i \in 1..Len(s \o t)
  BY <1>1, ConcatProperties
<1>3. \A i \in 1..Len(t) : (s \o t)[Len(s) + i] = t[i] /\ Len(s) + i \in 1..Len(s \o t)
  BY <1>1, ConcatProperties
<1>4. \A i \in 1..Len(s \o t) : (s \o t)[i] \in ToSet(s) \cup ToSet(t)
  <2> TAKE i \in 1..Len(s \o t)
  <2>1. CASE i <= Len(s)
    BY <1>1, <1>2, <2>1, LenProperties DEF ToSet
  <2>2. CASE i > Len(s)
    <3>1. i - Len(s) \in 1..Len(t) /\ (s \o t)[i] = t[i - Len(s)]
      BY <1>1, <2>2, ConcatProperties
    <3> QED
      BY <3>1, LenProperties DEF ToSet
  <2> QED
    BY <1>1, <2>1, <2>2
<1>5. DOMAIN (s \o t) = 1..Len(s \o t) /\ DOMAIN s = 1..Len(s) /\ DOMAIN t = 1..Len(t)
  BY <1>1, LenProperties
<1>6. ToSet(s \o t) \subseteq ToSet(s) \cup ToSet(t)
  BY <1>4, <1>5 DEF ToSet
<1>7. ToSet(s) \subseteq ToSet(s \o t)
  BY <1>2, <1>5 DEF ToSet
<1>8. ToSet(t) \subseteq ToSet(s \o t)
  BY <1>3, <1>5 DEF ToSet
<1> QED
  BY <1>6, <1>7, <1>8

-----------------------------------------------------------------------------
(***************************************************************************)
(* The sidecar.                                                            *)
(***************************************************************************)

Entries == [end : Nat, read : Reads]

(* What a pass hands to the replay is a finite set of verified lines, each *)
(* of a read that is not stored, and no read twice.                        *)
LEMMA FirstCopiesFacts ==
    ASSUME NEW file \in Seq(Lines), NEW from \in Nat, NEW stored
    PROVE  LET found == FirstCopies(file, from, stored)
           IN  /\ found \subseteq Entries /\ IsFiniteSet(found)
               /\ \A t \in found : t.read \in Verified(file, from) \ stored
               /\ \A s, t \in found : s.read = t.read => s = t
<1> DEFINE unstored == {i \in (from + 1)..Len(file) : file[i] \in Reads \ stored}
           first == {i \in unstored : \A k \in unstored : k < i => file[k] # file[i]}
           line == [i \in first |-> [end |-> i, read |-> file[i]]]
           found == FirstCopies(file, from, stored)
<1>1. Len(file) \in Nat /\ first \subseteq (from + 1)..Len(file)
  BY LenProperties
<1>2. \A i \in first : /\ i \in Nat /\ file[i] \in Reads \ stored
                        /\ file[i] \in Verified(file, from)
                        /\ \A k \in first : k < i => file[k] # file[i]
  BY <1>1 DEF Verified
<1>3. found = {line[i] : i \in first}
  BY DEF FirstCopies
<1>4. \A i \in first : line[i] = [end |-> i, read |-> file[i]]
  OBVIOUS
<1>5. IsFiniteSet(first)
  <2>1. IsFiniteSet((from + 1)..Len(file))
    BY <1>1, FS_Interval
  <2> QED
    BY <1>1, <2>1, FS_Subset
<1>6. line \in Surjection(first, found)
  BY <1>3 DEF Surjection
<1> HIDE DEF first, line, found
<1>7. IsFiniteSet(found)
  BY <1>5, <1>6, FS_Surjection
<1>8. ASSUME NEW t \in found
      PROVE  \E i \in first : t = [end |-> i, read |-> file[i]]
  BY <1>3, <1>4
<1>9. found \subseteq Entries /\ \A t \in found : t.read \in Verified(file, from) \ stored
  <2> SUFFICES ASSUME NEW t \in found
               PROVE  t \in Entries /\ t.read \in Verified(file, from) \ stored
    OBVIOUS
  <2>1. PICK i \in first : t = [end |-> i, read |-> file[i]]
    BY <1>8
  <2> QED
    BY <1>2, <2>1 DEF Entries
<1>10. \A s, t \in found : s.read = t.read => s = t
  <2> SUFFICES ASSUME NEW s \in found, NEW t \in found, s.read = t.read
               PROVE  s = t
    OBVIOUS
  <2>1. PICK i \in first : s = [end |-> i, read |-> file[i]]
    BY <1>8
  <2>2. PICK j \in first : t = [end |-> j, read |-> file[j]]
    BY <1>8
  <2>3. file[i] = file[j]
    BY <2>1, <2>2
  <2>4. ~(i < j) /\ ~(j < i)
    BY <1>2, <2>3
  <2>5. i = j
    BY <1>2, <2>4
  <2> QED
    BY <2>1, <2>2, <2>5
<1> QED
  BY <1>7, <1>9, <1>10 DEF found

LEMMA LastVerifiedType ==
    ASSUME NEW file \in Seq(Lines), NEW from \in Nat
    PROVE  LastVerified(file, from) \in Tips
<1> DEFINE good == {i \in (from + 1)..Len(file) : file[i] \in Reads}
           last == CHOOSE i \in good : \A j \in good : j <= i
<1>1. CASE good = {}
  BY <1>1 DEF LastVerified, NoTip, Tips
<1>2. CASE good # {}
  <2>1. Len(file) \in Nat /\ good \in SUBSET (1..Len(file))
    BY LenProperties
  <2>2. \E i \in good : \A j \in good : j <= i
    BY <1>2, <2>1, LastOffset
  <2>3. last \in good
    BY <2>2
  <2>4. last \in Nat /\ file[last] \in Reads
    BY <2>1, <2>3
  <2>5. LastVerified(file, from) = [end |-> last, read |-> file[last]]
    BY <1>2 DEF LastVerified
  <2> QED
    BY <2>4, <2>5 DEF Tips
<1> QED
  BY <1>1, <1>2

(* An interrupted append leaves the file as it was and some lines more.    *)
LEMMA InterruptedFacts ==
    ASSUME NEW file \in Seq(Lines), NEW lines \in Seq(Reads),
           NEW left \in Interrupted(file, lines)
    PROVE  /\ left \in Seq(Lines) /\ Len(file) <= Len(left)
           /\ \A i \in 1..Len(file) : left[i] = file[i]
           /\ Verified(left, 0) \subseteq Verified(file, 0) \cup ToSet(lines)
<1>1. Reads \subseteq Lines /\ Torn \in Lines /\ Torn \notin Reads
  BY MarksAreNotReads DEF Lines
<1>2. lines \in Seq(Lines) /\ Len(lines) \in Nat /\ Len(file) \in Nat
  BY <1>1, LenProperties, SeqMonotonic
<1> DEFINE Part(n) == SubSeq(lines, 1, n)
<1>3. ASSUME NEW n \in 0..Len(lines)
      PROVE  /\ Part(n) \in Seq(Lines) /\ Len(Part(n)) = n
             /\ \A i \in 1..n : Part(n)[i] = lines[i]
  BY <1>2
<1>4. ASSUME NEW n \in 0..Len(lines)
      PROVE  LET new == file \o Part(n)
             IN  /\ new \in Seq(Lines) /\ Len(new) = Len(file) + n
                 /\ \A i \in 1..Len(file) : new[i] = file[i]
                 /\ \A i \in 1..Len(new) : i > Len(file) => new[i] \in ToSet(lines)
  <2> DEFINE new == file \o Part(n)
  <2>1. new \in Seq(Lines) /\ Len(new) = Len(file) + n
    BY <1>2, <1>3, ConcatProperties
  <2>2. \A i \in 1..Len(file) : new[i] = file[i]
    BY <1>2, <1>3, ConcatProperties
  <2>3. ASSUME NEW i \in 1..Len(new), i > Len(file)
        PROVE  new[i] \in ToSet(lines)
    <3>1. i - Len(file) \in 1..n /\ new[i] = Part(n)[i - Len(file)]
      BY <1>2, <1>3, <2>1, <2>3, ConcatProperties
    <3>2. new[i] = lines[i - Len(file)] /\ i - Len(file) \in DOMAIN lines
      BY <1>2, <1>3, <3>1, LenProperties
    <3> QED
      BY <3>2 DEF ToSet
  <2> QED
    BY <2>1, <2>2, <2>3
<1>5. ASSUME NEW n \in 0..Len(lines), left = file \o Part(n)
      PROVE  /\ left \in Seq(Lines) /\ Len(file) <= Len(left)
             /\ \A i \in 1..Len(file) : left[i] = file[i]
             /\ \A i \in 1..Len(left) : i > Len(file) => left[i] \in ToSet(lines) \cup {Torn}
  BY <1>2, <1>4, <1>5
<1>6. ASSUME NEW n \in 0..(Len(lines) - 1), left = Append(file \o Part(n), Torn)
      PROVE  /\ left \in Seq(Lines) /\ Len(file) <= Len(left)
             /\ \A i \in 1..Len(file) : left[i] = file[i]
             /\ \A i \in 1..Len(left) : i > Len(file) => left[i] \in ToSet(lines) \cup {Torn}
  <2> DEFINE new == file \o Part(n)
  <2>1. /\ new \in Seq(Lines) /\ Len(new) = Len(file) + n /\ n \in Nat
        /\ \A i \in 1..Len(file) : new[i] = file[i]
        /\ \A i \in 1..Len(new) : i > Len(file) => new[i] \in ToSet(lines)
    BY <1>2, <1>4
  <2> HIDE DEF new
  <2>2. /\ left \in Seq(Lines) /\ Len(left) = Len(new) + 1 /\ left[Len(new) + 1] = Torn
        /\ \A i \in 1..Len(new) : left[i] = new[i]
    BY <1>1, <1>6, <2>1, AppendProperties DEF new
  <2>3. \A i \in 1..Len(file) : i \in 1..Len(new)
    BY <1>2, <2>1
  <2>4. \A i \in 1..Len(left) : i \in 1..Len(new) \/ i = Len(new) + 1
    BY <1>2, <2>1, <2>2
  <2>5. left \in Seq(Lines) /\ Len(file) <= Len(left)
    BY <1>2, <2>1, <2>2
  <2>6. \A i \in 1..Len(file) : left[i] = file[i]
    BY <2>1, <2>2, <2>3
  <2>7. \A i \in 1..Len(left) : i > Len(file) => left[i] \in ToSet(lines) \cup {Torn}
    BY <2>1, <2>2, <2>4
  <2> QED
    BY <2>5, <2>6, <2>7
<1>7. /\ left \in Seq(Lines) /\ Len(file) <= Len(left)
      /\ \A i \in 1..Len(file) : left[i] = file[i]
      /\ \A i \in 1..Len(left) : i > Len(file) => left[i] \in ToSet(lines) \cup {Torn}
  BY <1>5, <1>6 DEF Interrupted
<1>8. Verified(left, 0) \subseteq Verified(file, 0) \cup ToSet(lines)
  <2> SUFFICES ASSUME NEW i \in 1..Len(left), left[i] \in Reads
               PROVE  left[i] \in Verified(file, 0) \cup ToSet(lines)
    BY DEF Verified
  <2>1. CASE i \in 1..Len(file)
    BY <1>7, <2>1 DEF Verified
  <2>2. CASE i > Len(file)
    BY <1>1, <1>7, <2>2
  <2> QED
    BY <1>2, <2>1, <2>2
<1> QED
  BY <1>7, <1>8

(* A power cut leaves at least what had been through fsync.                *)
LEMMA PowerCutFacts ==
    ASSUME NEW file \in Seq(Lines), NEW kept \in 0..Len(file),
           NEW left \in AfterPowerCut(file, kept)
    PROVE  /\ left \in Seq(Lines) /\ kept <= Len(left) /\ Len(left) <= Len(file)
           /\ \A i \in 1..kept : left[i] = file[i]
           /\ Verified(left, 0) \subseteq Verified(file, 0)
<1>1. Torn \in Lines /\ Torn \notin Reads /\ Len(file) \in Nat /\ kept \in Nat
  BY MarksAreNotReads, LenProperties DEF Lines
<1>2. ASSUME NEW n \in kept..Len(file)
      PROVE  LET part == SubSeq(file, 1, n)
             IN  /\ part \in Seq(Lines) /\ Len(part) = n
                 /\ \A i \in 1..n : part[i] = file[i]
  BY <1>1
<1>3. ASSUME NEW n \in kept..Len(file), left = SubSeq(file, 1, n)
      PROVE  /\ left \in Seq(Lines) /\ kept <= Len(left) /\ Len(left) <= Len(file)
             /\ \A i \in 1..kept : left[i] = file[i]
             /\ \A i \in 1..Len(left) : left[i] \in {file[i], Torn}
  BY <1>1, <1>2, <1>3
<1>4. ASSUME NEW n \in kept..(Len(file) - 1), left = Append(SubSeq(file, 1, n), Torn)
      PROVE  /\ left \in Seq(Lines) /\ kept <= Len(left) /\ Len(left) <= Len(file)
             /\ \A i \in 1..kept : left[i] = file[i]
             /\ \A i \in 1..Len(left) : left[i] \in {file[i], Torn}
  BY <1>1, <1>2, <1>4, AppendProperties
<1>5. /\ left \in Seq(Lines) /\ kept <= Len(left) /\ Len(left) <= Len(file)
      /\ \A i \in 1..kept : left[i] = file[i]
      /\ \A i \in 1..Len(left) : left[i] \in {file[i], Torn}
  BY <1>3, <1>4 DEF AfterPowerCut
<1>6. Verified(left, 0) \subseteq Verified(file, 0)
  BY <1>1, <1>5, LenProperties DEF Verified
<1> QED
  BY <1>5, <1>6
-----------------------------------------------------------------------------
(***************************************************************************)
(* Type correctness.  It needs two things more than TypeOK says: that what *)
(* a pass found is finite, without which no sequence would hold it, and    *)
(* that the store loop has a read in its hand wherever it uses one.        *)
(***************************************************************************)

FinitePasses == \A p \in Processes : IsFiniteSet(pass[p].replay)

HandIsARead == pc[Service] \in Appending => hand \in Reads

Typed == TypeOK /\ FinitePasses /\ HandIsARead

LEMMA StoredIsReads ==
    ASSUME NEW d \in Databases
    PROVE  Stored(d) \subseteq Reads
BY LenProperties, ElementOfSeq DEF Databases, Stored, ToSet

(* What a pass finds, wherever it starts.                                  *)
LEMMA FoundFacts ==
    ASSUME TypeOK, NEW start \in Checkpoints
    PROVE  /\ Found(start) \in Passes /\ IsFiniteSet(Found(start).replay)
           /\ \A t \in Found(start).replay : t.read \in Verified(sidecar, 0) \ Stored(db)
           /\ \A s, t \in Found(start).replay : s.read = t.read => s = t
           /\ Found(start).backfill \subseteq Stored(db)
<1> DEFINE last == LastVerified(sidecar, start.at.end)
           recent == {db.rows[n] : n \in (start.through + 1)..Len(db.rows)}
           replay == FirstCopies(sidecar, start.at.end, Stored(db))
           backfill == recent \ Verified(sidecar, start.at.end)
           verified == IF last # NoTip THEN last ELSE start.at
<1>1. /\ sidecar \in Seq(Lines) /\ db \in Databases /\ db.rows \in Seq(Reads)
      /\ start.at \in Tips /\ start.at.end \in Nat /\ start.through \in Nat
  BY DEF TypeOK, Checkpoints, Tips, Databases
<1>2. Found(start) = [replay |-> replay, backfill |-> backfill, verified |-> verified]
  BY DEF Found
<1>3. /\ replay \subseteq Entries /\ IsFiniteSet(replay)
      /\ \A t \in replay : t.read \in Verified(sidecar, start.at.end) \ Stored(db)
      /\ \A s, t \in replay : s.read = t.read => s = t
  BY <1>1, FirstCopiesFacts
<1>4. Verified(sidecar, start.at.end) \subseteq Verified(sidecar, 0)
  BY <1>1, LenProperties DEF Verified
<1>5. backfill \subseteq Stored(db)
  BY <1>1, LenProperties DEF Stored, ToSet
<1>6. verified \in Tips
  BY <1>1, LastVerifiedType
<1>7. Stored(db) \subseteq Reads
  BY <1>1, StoredIsReads
<1> HIDE DEF replay, backfill, verified
<1>8. Found(start) \in Passes
  BY <1>2, <1>3, <1>5, <1>6, <1>7 DEF Passes, Entries
<1> QED
  BY <1>2, <1>3, <1>4, <1>5, <1>8

(* Recording a checkpoint changes nothing else.                            *)
LEMMA CheckpointFacts ==
    ASSUME TypeOK, NEW p \in Processes
    PROVE  /\ WithCheckpoint(p) \in Databases
           /\ WithCheckpoint(p).rows = db.rows
           /\ WithCheckpoint(p).setAside = db.setAside
<1>1. db \in Databases /\ tip[p] \in Tips /\ Len(db.rows) \in Nat
  BY LenProperties DEF TypeOK, Databases
<1> QED
  BY <1>1 DEF WithCheckpoint, Databases, Checkpoints

(* A process that is gone leaves its variables well typed.                 *)
LEMMA GoneFacts ==
    ASSUME Typed, NEW ps \in SUBSET Processes, Gone(ps)
    PROVE  /\ pc' \in [Processes -> {"down"} \cup Starting \cup Running]
           /\ pass' \in [Processes -> Passes] /\ FinitePasses'
           /\ tip' \in [Processes -> Tips]
           /\ writer' \in Processes \cup {Nobody}
           /\ unconfirmed' \in BOOLEAN
           /\ hand' \in Reads \cup {NoRead} /\ HandIsARead'
<1>1. NoPass \in Passes /\ NoPass.replay = {} /\ NoTip \in Tips
  BY DEF NoPass, Passes, NoTip, Tips
<1>2. IsFiniteSet(NoPass.replay)
  BY <1>1, FS_EmptySet
<1>3. pc' \in [Processes -> {"down"} \cup Starting \cup Running]
  BY DEF Gone, Typed, TypeOK
<1>4. pass' \in [Processes -> Passes]
  BY <1>1 DEF Gone, Typed, TypeOK
<1>5. FinitePasses'
  BY <1>2 DEF Gone, Typed, TypeOK, FinitePasses
<1>6. tip' \in [Processes -> Tips] /\ writer' \in Processes \cup {Nobody}
  BY <1>1 DEF Gone, Typed, TypeOK
<1>7. unconfirmed' \in BOOLEAN
  BY DEF Gone, Typed, TypeOK
<1>8. hand' \in Reads \cup {NoRead}
  BY DEF Gone, Typed, TypeOK
<1>9. HandIsARead'
  <2>1. pc' = [q \in Processes |-> IF q \in ps THEN "down" ELSE pc[q]] /\ Service \in Processes
    BY DEF Gone, Processes
  <2>2. CASE Service \in ps
    BY <2>1, <2>2 DEF HandIsARead, Appending
  <2>3. CASE Service \notin ps
    BY <2>1, <2>3 DEF HandIsARead, Gone, Typed
  <2> QED
    BY <2>2, <2>3
<1> QED
  BY <1>3, <1>4, <1>5, <1>6, <1>7, <1>8, <1>9

(* Where a recovery starts from.                                           *)
LEMMA StartFacts ==
    ASSUME TypeOK, NEW p \in Processes
    PROVE  StartOf(p) \in Checkpoints
BY DEF StartOf, TypeOK, Databases, NoCheckpoint, Checkpoints, NoTip, Tips

(* The lines of a backfill.                                                *)
LEMMA BackfillFacts ==
    ASSUME TypeOK, NEW p \in Processes, NEW lines \in InSeqOrder(pass[p].backfill)
    PROVE  lines \in Seq(Reads) /\ ToSet(lines) = pass[p].backfill
<1>1. pass[p].backfill \subseteq Reads
  BY DEF TypeOK, Passes
<1>2. IsFiniteSet(pass[p].backfill)
  BY <1>1, ReadsAreFinite, FS_Subset
<1>3. lines \in SetToSeqs(pass[p].backfill)
  BY DEF InSeqOrder
<1> QED
  BY <1>1, <1>2, <1>3, SequenceOfSet, SeqMonotonic

(* The reads of a replay, in the order of the file.                        *)
LEMMA ReplayFacts ==
    ASSUME Typed, NEW p \in Processes, NEW lines \in InFileOrder(pass[p].replay)
    PROVE  LET reads == [i \in DOMAIN lines |-> lines[i].read]
           IN  reads \in Seq(Reads) /\ ToSet(reads) = {t.read : t \in pass[p].replay}
<1> DEFINE reads == [i \in DOMAIN lines |-> lines[i].read]
<1>1. pass[p].replay \subseteq Entries /\ IsFiniteSet(pass[p].replay)
  BY DEF Typed, TypeOK, Passes, FinitePasses, Entries
<1>2. lines \in SetToSeqs(pass[p].replay)
  BY DEF InFileOrder
<1>3. lines \in Seq(pass[p].replay) /\ ToSet(lines) = pass[p].replay
  BY <1>1, <1>2, SequenceOfSet
<1>4. Len(lines) \in Nat /\ DOMAIN lines = 1..Len(lines)
      /\ \A i \in DOMAIN lines : lines[i] \in pass[p].replay
  BY <1>3, LenProperties
<1>5. reads \in Seq(Reads)
  BY <1>1, <1>4 DEF Entries
<1>6. ToSet(reads) = {t.read : t \in pass[p].replay}
  BY <1>3, <1>4 DEF ToSet
<1> QED
  BY <1>5, <1>6

(* The journal starts well typed.                                          *)
LEMMA TypedInit ==
    ASSUME Init
    PROVE  Typed
<1>1. Legacy \in Seq(Reads)
  BY LegacyIsStorable, SeqMonotonic
<1>2. db \in Databases /\ snapshot \in Databases
  BY <1>1 DEF Init, EmptyDatabase, Databases, NoCheckpoint, Checkpoints, NoTip, Tips
<1>3. NoPass \in Passes /\ NoTip \in Tips
  BY DEF NoPass, Passes, NoTip, Tips
<1>4. sidecar \in Seq(Lines) /\ synced \in 0..Len(sidecar) /\ ToSet(Legacy) \subseteq Reads
  BY <1>1, LenProperties DEF Init, ToSet
<1>5. /\ writer \in Processes \cup {Nobody} /\ unconfirmed \in BOOLEAN
      /\ hand \in Reads \cup {NoRead} /\ arrived \subseteq Reads
      /\ acknowledged \subseteq Reads /\ damaged \subseteq Reads
      /\ disturbances \in 0..MaxDisturbances
  <2>1. writer \in Processes \cup {Nobody} /\ hand \in Reads \cup {NoRead}
    BY DEF Init
  <2>2. unconfirmed \in BOOLEAN
    BY DEF Init
  <2>3. arrived \subseteq Reads /\ acknowledged \subseteq Reads /\ damaged \subseteq Reads
    BY <1>4 DEF Init
  <2>4. disturbances \in 0..MaxDisturbances
    BY SwitchesAndBounds DEF Init
  <2> QED
    BY <2>1, <2>2, <2>3, <2>4
<1>6. /\ pc \in [Processes -> {"down"} \cup Starting \cup Running]
      /\ pass \in [Processes -> Passes] /\ tip \in [Processes -> Tips]
  BY <1>3 DEF Init
<1>7. FinitePasses
  BY FS_EmptySet DEF Init, FinitePasses, NoPass
<1>8. HandIsARead
  BY DEF Init, HandIsARead, Appending, Processes
<1> QED
  BY <1>2, <1>4, <1>5, <1>6, <1>7, <1>8 DEF Typed, TypeOK

(* Every step leaves the journal well typed.                               *)
LEMMA TypedStep ==
    ASSUME Typed, [Next]_vars
    PROVE  Typed'
<1> USE DEF Typed
<1>0. /\ NoTip \in Tips /\ NoPass \in Passes /\ EmptyDatabase \in Databases
      /\ Service \in Processes /\ Reads \subseteq Lines /\ NoRead \notin Reads
      /\ Len(sidecar) \in Nat /\ sidecar \in Seq(Lines) /\ disturbances \in Nat
  BY LenProperties, MarksAreNotReads
  DEF NoTip, Tips, NoPass, Passes, EmptyDatabase, Databases, NoCheckpoint, Checkpoints,
      Processes, Lines, TypeOK
<1>d. Calm \/ Disturb => disturbances' \in 0..MaxDisturbances
  BY <1>0, SwitchesAndBounds DEF TypeOK, Calm, Disturb
<1>g. ASSUME NEW p \in Processes, NEW place \in {"down"} \cup Starting \cup Running, Goto(p, place)
      PROVE  pc' \in [Processes -> {"down"} \cup Starting \cup Running]
  BY <1>g DEF TypeOK, Goto
<1>h. ASSUME NEW p \in Processes, NEW place, place \notin Appending, Goto(p, place),
             UNCHANGED hand \/ p = Service
      PROVE  HandIsARead'
  BY <1>0, <1>h DEF TypeOK, Goto, HandIsARead
<1>w. ASSUME NEW p \in Processes, db' = WithCheckpoint(p) \/ UNCHANGED db
      PROVE  db' \in Databases
  BY <1>w, CheckpointFacts DEF TypeOK
<1>1. ASSUME NEW p \in Processes, Scan(p)
      PROVE  Typed'
  <2> DEFINE found == Found(StartOf(p))
  <2>1. found \in Passes /\ IsFiniteSet(found.replay)
    BY StartFacts, FoundFacts
  <2>2. /\ pass' = [pass EXCEPT ![p] = found] /\ Goto(p, "commit")
        /\ synced' \in {Len(sidecar), synced} /\ writer' \in {writer, p}
        /\ tip' = [tip EXCEPT ![p] = NoTip] /\ (Calm \/ Disturb)
        /\ UNCHANGED <<sidecar, damaged, db, snapshot, unconfirmed, loop>>
    BY <1>1 DEF Scan
  <2> HIDE DEF found
  <2>3. pass' \in [Processes -> Passes] /\ FinitePasses'
    BY <2>1, <2>2 DEF TypeOK, FinitePasses
  <2>4. pc' \in [Processes -> {"down"} \cup Starting \cup Running] /\ HandIsARead'
    BY SMTT(60), <1>g, <1>h, <2>2 DEF Starting, Appending, loop
  <2> QED
    BY <1>0, <1>d, <2>2, <2>3, <2>4 DEF TypeOK, loop
<1>2. ASSUME NEW p \in Processes, CommitReplay(p)
      PROVE  Typed'
  <2>1. PICK lines \in InFileOrder(pass[p].replay) :
          LET reads == [i \in DOMAIN lines |-> lines[i].read]
          IN  db' = [db EXCEPT !.rows = @ \o reads, !.replayed = @ \cup ToSet(reads)]
    BY Zenon, <1>2 DEF CommitReplay
  <2> DEFINE reads == [i \in DOMAIN lines |-> lines[i].read]
  <2>2. reads \in Seq(Reads) /\ ToSet(reads) \subseteq Reads
    <3>1. reads \in Seq(Reads)
      BY ReplayFacts
    <3> QED
      BY <3>1, LenProperties DEF ToSet
  <2>3. db' = [db EXCEPT !.rows = @ \o reads, !.replayed = @ \cup ToSet(reads)]
    BY <2>1
  <2> HIDE DEF reads
  <2>4. db' \in Databases
    <3>1. db \in Databases /\ db.rows \o reads \in Seq(Reads)
      BY <2>2, ConcatProperties DEF TypeOK, Databases
    <3> QED
      BY <2>2, <2>3, <3>1 DEF Databases
  <2>5. pc' \in [Processes -> {"down"} \cup Starting \cup Running] /\ HandIsARead'
    BY <1>2, <1>g, <1>h DEF Starting, Appending, CommitReplay, loop
  <2> QED
    BY SMTT(60), <1>0, <1>2, <1>d, <2>4, <2>5 DEF CommitReplay, TypeOK, FinitePasses, files, loop
<1>3. ASSUME NEW p \in Processes, Backfill(p)
      PROVE  Typed'
  <2>1. pc' \in [Processes -> {"down"} \cup Starting \cup Running] /\ HandIsARead'
    BY <1>3, <1>g, <1>h DEF Starting, Appending, Backfill, loop
  <2>2. CASE pass[p].backfill = {}
    <3>1. tip' \in [Processes -> Tips]
      BY <1>3, <2>2 DEF Backfill, TypeOK, Passes
    <3> QED
      BY <1>0, <1>3, <1>d, <2>1, <2>2, <3>1 DEF Backfill, TypeOK, FinitePasses, stores, loop
  <2>3. CASE pass[p].backfill # {}
    <3>1. PICK lines \in InSeqOrder(pass[p].backfill) :
             /\ sidecar' = sidecar \o lines
             /\ synced' = Len(sidecar')
             /\ tip' = [tip EXCEPT ![p] =
                           [end |-> Len(sidecar'), read |-> lines[Len(lines)]]]
      BY <1>3, <2>3 DEF Backfill
    <3>2. lines \in Seq(Reads) /\ ToSet(lines) = pass[p].backfill
      BY BackfillFacts
    <3>3. Len(lines) \in Nat /\ DOMAIN lines = 1..Len(lines) /\ lines # <<>>
      BY <2>3, <3>2, LenProperties, EmptySeq DEF ToSet
    <3>4. lines[Len(lines)] \in Reads
      BY <3>2, <3>3, EmptySeq
    <3>5. sidecar' \in Seq(Lines) /\ Len(sidecar') \in Nat
      BY <1>0, <3>1, <3>2, SeqMonotonic, ConcatProperties, LenProperties
    <3>6. tip' \in [Processes -> Tips]
      BY <3>1, <3>4, <3>5 DEF TypeOK, Tips
    <3> QED
      BY <1>0, <1>3, <1>d, <2>1, <3>1, <3>5, <3>6 DEF Backfill, TypeOK, FinitePasses, stores, loop
  <2> QED
    BY <2>2, <2>3
<1>4. ASSUME NEW p \in Processes, FinishRecovery(p)
      PROVE  Typed'
  <2>1. pc' \in [Processes -> {"down"} \cup Starting \cup Running] /\ HandIsARead'
    BY <1>4, <1>g, <1>h DEF FinishRecovery, Done, Running, Appending, loop
  <2>2. db' \in Databases
    BY <1>4, <1>w DEF FinishRecovery
  <2>3. pass' \in [Processes -> Passes] /\ FinitePasses' /\ tip' \in [Processes -> Tips]
    <3>1. pass' \in [Processes -> Passes] /\ tip' \in [Processes -> Tips]
      BY <1>0, <1>4 DEF FinishRecovery, TypeOK
    <3>2. IsFiniteSet(NoPass.replay)
      BY FS_EmptySet DEF NoPass
    <3>3. FinitePasses'
      BY <1>4, <3>2 DEF FinishRecovery, TypeOK, FinitePasses
    <3> QED
      BY <3>1, <3>3
  <2> QED
    BY <1>0, <1>4, <1>d, <2>1, <2>2, <2>3 DEF FinishRecovery, TypeOK, files, loop
<1>5. ASSUME NEW p \in Processes, RecoveryFails(p)
      PROVE  Typed'
  <2>1. sidecar' \in Seq(Lines) /\ Len(sidecar) <= Len(sidecar') /\ Len(sidecar') \in Nat
    <3>1. CASE pc[p] = "backfill"
      <4>1. PICK lines \in InSeqOrder(pass[p].backfill) : sidecar' \in Interrupted(sidecar, lines)
        BY <1>5, <3>1 DEF RecoveryFails
      <4>2. lines \in Seq(Reads)
        BY BackfillFacts
      <4> QED
        BY <1>0, <4>1, <4>2, InterruptedFacts, LenProperties
    <3>2. CASE pc[p] # "backfill"
      BY <1>0, <1>5, <3>2 DEF RecoveryFails
    <3> QED
      BY <3>1, <3>2
  <2>2. /\ Gone({p}) /\ {p} \in SUBSET Processes /\ (Calm \/ Disturb)
        /\ UNCHANGED <<synced, damaged, db, snapshot, arrived, acknowledged>>
    BY <1>5 DEF RecoveryFails
  <2>3. synced' \in 0..Len(sidecar')
    BY <1>0, <2>1, <2>2 DEF TypeOK
  <2> QED
    BY <1>d, <2>1, <2>2, <2>3, GoneFacts DEF TypeOK
<1>6. ASSUME NEW p \in Processes, ProcessDies(p)
      PROVE  Typed'
  <2>1. /\ Gone({p}) /\ {p} \in SUBSET Processes /\ Disturb
        /\ UNCHANGED <<files, db, snapshot, arrived, acknowledged>>
    BY <1>6 DEF ProcessDies
  <2> QED
    BY <1>d, <2>1, GoneFacts DEF TypeOK, files
<1>7. CASE TakeRead
  <2>1. pc' \in [Processes -> {"down"} \cup Starting \cup Running]
    BY <1>0, <1>7, <1>g DEF TakeRead, Running, Appending
  <2>2. hand' \in Reads /\ arrived' \subseteq Reads
    BY <1>7 DEF TakeRead, TypeOK
  <2> QED
    BY <1>7, <1>d, <2>1, <2>2 DEF TakeRead, TypeOK, FinitePasses, HandIsARead, files, stores
<1>8. CASE SetAside
  <2>1. pc' \in [Processes -> {"down"} \cup Starting \cup Running] /\ HandIsARead'
    BY <1>0, <1>8, <1>g, <1>h DEF SetAside, Running, Appending
  <2>2. db \in Databases /\ hand \in Reads
    BY <1>8 DEF SetAside, TypeOK, HandIsARead, Appending
  <2>3. db' \in Databases
    BY <1>8, <2>2 DEF SetAside, Databases
  <2> QED
    BY <1>8, <1>d, <2>1, <2>3 DEF SetAside, TypeOK, FinitePasses, files
<1>9. CASE WriteLine
  <2>1. hand \in Reads
    BY <1>9 DEF WriteLine, HandIsARead, Appending
  <2>2. sidecar' \in Seq(Lines) /\ Len(sidecar') \in Nat
    BY <1>0, <1>9, <2>1, AppendProperties, LenProperties DEF WriteLine
  <2>3. tip' \in [Processes -> Tips]
    BY <1>9, <2>1, <2>2 DEF WriteLine, TypeOK, Tips
  <2>4. pc' \in [Processes -> {"down"} \cup Starting \cup Running] /\ HandIsARead'
    BY <1>0, <1>9, <1>g, <2>1 DEF WriteLine, Running, Appending, HandIsARead, loop
  <2> QED
    BY <1>9, <1>d, <2>2, <2>3, <2>4 DEF WriteLine, TypeOK, FinitePasses, stores, loop
<1>10. CASE WriteFails
  <2>1. hand \in Reads
    BY <1>10 DEF WriteFails, HandIsARead, Appending
  <2>2. <<hand>> \in Seq(Reads)
    BY <2>1
  <2>3. sidecar' \in Interrupted(sidecar, <<hand>>)
    BY <1>10 DEF WriteFails
  <2>4. sidecar' \in Seq(Lines) /\ Len(sidecar) <= Len(sidecar') /\ Len(sidecar') \in Nat
    BY <1>0, <2>2, <2>3, InterruptedFacts, LenProperties
  <2>5. synced' \in 0..Len(sidecar')
    BY <1>0, <1>10, <2>4 DEF WriteFails, TypeOK
  <2>6. pc' \in [Processes -> {"down"} \cup Starting \cup Running] /\ HandIsARead'
    BY <1>0, <1>10, <1>g, <2>1 DEF WriteFails, Running, Appending, HandIsARead, loop
  <2> QED
    BY <1>10, <1>d, <2>4, <2>5, <2>6 DEF WriteFails, TypeOK, FinitePasses, stores, loop
<1>11. CASE InsertRow
  <2>1. db \in Databases /\ hand \in Reads
    BY <1>11 DEF InsertRow, TypeOK, HandIsARead, Appending
  <2>2. Append(db.rows, hand) \in Seq(Reads)
    BY <2>1, AppendProperties DEF Databases
  <2>3. db' \in Databases
    BY <1>11, <2>1, <2>2 DEF InsertRow, Databases
  <2>4. pc' \in [Processes -> {"down"} \cup Starting \cup Running] /\ HandIsARead'
    BY <1>0, <1>11, <1>g, <2>1 DEF InsertRow, Running, Appending, HandIsARead, loop
  <2> QED
    BY <1>11, <1>d, <2>3, <2>4 DEF InsertRow, TypeOK, FinitePasses, files, loop
<1>12. CASE InsertFails
  <2>1. hand \in Reads
    BY <1>12 DEF InsertFails, HandIsARead, Appending
  <2>2. pc' \in [Processes -> {"down"} \cup Starting \cup Running] /\ HandIsARead'
    BY <1>0, <1>12, <1>g, <2>1 DEF InsertFails, Running, Appending, HandIsARead, loop
  <2> QED
    BY <1>12, <1>d, <2>2 DEF InsertFails, TypeOK, FinitePasses, files, stores, loop
<1>13. CASE Retry
  <2>1. hand \in Reads
    BY <1>13 DEF Retry, HandIsARead, Appending
  <2>2. pc' \in [Processes -> {"down"} \cup Starting \cup Running] /\ HandIsARead'
    BY <1>0, <1>13, <1>g, <2>1 DEF Retry, Running, Appending, HandIsARead, loop
  <2> QED
    BY <1>13, <1>d, <2>2 DEF Retry, TypeOK, FinitePasses, files, stores, loop
<1>14. CASE Acknowledge
  <2>1. hand \in Reads
    BY <1>14 DEF Acknowledge, HandIsARead, Appending
  <2>2. pc' \in [Processes -> {"down"} \cup Starting \cup Running] /\ HandIsARead'
    BY <1>0, <1>14, <1>g, <1>h DEF Acknowledge, Running, Appending
  <2>3. db' \in Databases
    BY <1>0, <1>14, <1>w DEF Acknowledge
  <2> QED
    BY <1>14, <1>d, <2>1, <2>2, <2>3 DEF Acknowledge, TypeOK, FinitePasses, files
<1>15. CASE StopService
  <2>1. /\ Gone({Service}) /\ {Service} \in SUBSET Processes /\ Disturb
        /\ UNCHANGED <<files, snapshot, arrived, acknowledged>>
    BY <1>0, <1>15 DEF StopService
  <2>2. db' \in Databases
    BY <1>0, <1>15, <1>w DEF StopService
  <2> QED
    BY <1>d, <2>1, <2>2, GoneFacts DEF TypeOK, files
<1>16. CASE PowerCut
  <2>1. sidecar' \in Seq(Lines) /\ Len(sidecar') \in Nat
    BY <1>0, <1>16, PowerCutFacts, LenProperties DEF PowerCut, TypeOK
  <2>2. /\ Gone(Processes) /\ Disturb /\ synced' = Len(sidecar')
        /\ UNCHANGED <<damaged, db, snapshot, arrived, acknowledged>>
    BY <1>16 DEF PowerCut
  <2> QED
    BY <1>d, <2>1, <2>2, GoneFacts DEF TypeOK
<1>17. CASE LineRots
  <2>1. PICK i \in 1..synced :
          /\ sidecar[i] \in Reads
          /\ sidecar' = [sidecar EXCEPT ![i] = Rotted]
          /\ damaged' = damaged \cup {sidecar[i]}
    BY <1>17 DEF LineRots
  <2>2. sidecar' \in Seq(Lines) /\ Len(sidecar') = Len(sidecar)
    BY <1>0, <2>1, ExceptSeq DEF TypeOK, Lines
  <2>3. damaged' \subseteq Reads
    BY <2>1 DEF TypeOK
  <2> QED
    BY <1>17, <1>d, <2>2, <2>3 DEF LineRots, TypeOK, FinitePasses, HandIsARead, stores, loop
<1>18. CASE TakeSnapshot
  BY <1>18, <1>d DEF TakeSnapshot, TypeOK, FinitePasses, HandIsARead, files, loop
<1>19. CASE ReplaceDatabase
  <2>1. db' \in Databases
    BY <1>0, <1>19 DEF ReplaceDatabase, TypeOK
  <2> QED
    BY <1>19, <1>d, <2>1 DEF ReplaceDatabase, TypeOK, FinitePasses, HandIsARead, files, loop
<1>20. CASE UNCHANGED vars
  BY <1>20 DEF vars, TypeOK, FinitePasses, HandIsARead
<1> QED
  BY <1>1, <1>2, <1>3, <1>4, <1>5, <1>6, <1>7, <1>8, <1>9, <1>10, <1>11, <1>12, <1>13,
     <1>14, <1>15, <1>16, <1>17, <1>18, <1>19, <1>20
  DEF Next, RecoveryStep, ReadPath

(* The variables keep their types.                                         *)
THEOREM TypeCorrect == Spec => []TypeOK
<1>1. Init => Typed
  BY TypedInit
<1>2. Typed /\ [Next]_vars => Typed'
  BY TypedStep
<1>3. Typed => TypeOK
  BY DEF Typed
<1> QED
  BY <1>1, <1>2, <1>3, PTL DEF Spec

-----------------------------------------------------------------------------
(***************************************************************************)
(* The invariant.  A read is safe when fsync has returned for a line of    *)
(* it, or when such a line has rotted.  What is acknowledged is safe, and  *)
(* is known to be before its row is: that is the order WriteLine and       *)
(* InsertRow come in.  The other parts say that a recovery appends only    *)
(* what is stored, and that a process that is down holds nothing.          *)
(***************************************************************************)

Safe == VerifiedUpTo(sidecar, synced) \cup damaged

DownHoldsNothing == \A p \in Processes : pc[p] = "down" => pass[p] = NoPass
BackfillIsStored == \A p \in Processes : pass[p].backfill \subseteq Stored(db)
AcknowledgedIsSafe == acknowledged \subseteq Safe
HandIsSafe == pc[Service] \in {"insert", "tail"} => hand \in Safe
HandIsStored == pc[Service] = "tail" => hand \in Stored(db)

Kept ==
    /\ Typed
    /\ DownHoldsNothing
    /\ BackfillIsStored
    /\ AcknowledgedIsSafe
    /\ HandIsSafe
    /\ HandIsStored

(* What fsync has returned for stays where it is, whatever happens, but    *)
(* for the lines that rot.                                                 *)
Steady ==
    /\ damaged \subseteq damaged' /\ synced' \in Nat /\ synced <= synced'
    /\ \A i \in 1..synced :
          \/ sidecar'[i] = sidecar[i]
          \/ sidecar[i] \in Reads \cap damaged' /\ sidecar'[i] = Rotted

LEMMA SyncedLinesStay ==
    ASSUME Typed, [Next]_vars
    PROVE  Steady
<1>0. /\ sidecar \in Seq(Lines) /\ Len(sidecar) \in Nat /\ synced \in Nat
      /\ synced <= Len(sidecar) /\ synced \in 0..Len(sidecar)
  BY LenProperties DEF Typed, TypeOK
<1>1. ASSUME synced' \in Nat, synced <= synced', \A i \in 1..synced : sidecar'[i] = sidecar[i],
             damaged' = damaged
      PROVE  Steady
  BY <1>1 DEF Steady
<1>2. ASSUME NEW p \in Processes, Scan(p)
      PROVE  Steady
  BY <1>0, <1>1, <1>2 DEF Scan
<1>3. ASSUME NEW p \in Processes, CommitReplay(p)
      PROVE  Steady
  BY <1>0, <1>1, <1>3 DEF CommitReplay, files
<1>4. ASSUME NEW p \in Processes, Backfill(p)
      PROVE  Steady
  <2>1. CASE pass[p].backfill = {}
    BY <1>0, <1>1, <1>4, <2>1 DEF Backfill
  <2>2. CASE pass[p].backfill # {}
    <3>1. PICK lines \in InSeqOrder(pass[p].backfill) :
             sidecar' = sidecar \o lines /\ synced' = Len(sidecar')
      BY <1>4, <2>2 DEF Backfill
    <3>2. lines \in Seq(Lines)
      BY BackfillFacts, SeqMonotonic DEF Typed, Lines
    <3>3. /\ Len(lines) \in Nat /\ Len(sidecar') = Len(sidecar) + Len(lines)
          /\ \A i \in 1..Len(sidecar) : sidecar'[i] = sidecar[i]
      BY <1>0, <3>1, <3>2, ConcatProperties, LenProperties
    <3>4. damaged' = damaged
      BY <1>4 DEF Backfill
    <3> QED
      BY <1>0, <1>1, <3>1, <3>3, <3>4
  <2> QED
    BY <2>1, <2>2
<1>5. ASSUME NEW p \in Processes, FinishRecovery(p)
      PROVE  Steady
  BY <1>0, <1>1, <1>5 DEF FinishRecovery, files
<1>6. ASSUME NEW p \in Processes, RecoveryFails(p)
      PROVE  Steady
  <2>1. \A i \in 1..synced : sidecar'[i] = sidecar[i]
    <3>1. CASE pc[p] = "backfill"
      <4>1. PICK lines \in InSeqOrder(pass[p].backfill) : sidecar' \in Interrupted(sidecar, lines)
        BY <1>6, <3>1 DEF RecoveryFails
      <4>2. lines \in Seq(Reads)
        BY BackfillFacts DEF Typed
      <4>3. \A i \in 1..Len(sidecar) : sidecar'[i] = sidecar[i]
        BY <1>0, <4>1, <4>2, InterruptedFacts
      <4> QED
        BY <1>0, <4>3
    <3>2. CASE pc[p] # "backfill"
      BY <1>6, <3>2 DEF RecoveryFails
    <3> QED
      BY <3>1, <3>2
  <2> QED
    BY <1>0, <1>1, <1>6, <2>1 DEF RecoveryFails
<1>7. ASSUME NEW p \in Processes, ProcessDies(p)
      PROVE  Steady
  BY <1>0, <1>1, <1>7 DEF ProcessDies, files
<1>8. CASE TakeRead \/ SetAside \/ InsertRow \/ InsertFails \/ Retry \/ Acknowledge
            \/ StopService \/ TakeSnapshot \/ ReplaceDatabase \/ UNCHANGED vars
  BY <1>0, <1>1, <1>8
  DEF TakeRead, SetAside, InsertRow, InsertFails, Retry, Acknowledge, StopService,
      TakeSnapshot, ReplaceDatabase, files, vars
<1>9. CASE WriteLine
  <2>1. hand \in Lines
    BY <1>9 DEF WriteLine, Typed, HandIsARead, Appending, Lines
  <2>2. /\ sidecar' = Append(sidecar, hand) /\ synced' = Len(sidecar') /\ damaged' = damaged
    BY <1>9 DEF WriteLine
  <2>3. Len(sidecar') = Len(sidecar) + 1 /\ \A i \in 1..Len(sidecar) : sidecar'[i] = sidecar[i]
    BY <1>0, <2>1, <2>2, AppendProperties
  <2> QED
    BY <1>0, <1>1, <2>2, <2>3
<1>10. CASE WriteFails
  <2>1. <<hand>> \in Seq(Reads)
    BY <1>10 DEF WriteFails, Typed, HandIsARead, Appending
  <2>2. sidecar' \in Interrupted(sidecar, <<hand>>)
    BY <1>10 DEF WriteFails
  <2>3. \A i \in 1..Len(sidecar) : sidecar'[i] = sidecar[i]
    BY <1>0, <2>1, <2>2, InterruptedFacts
  <2> QED
    BY <1>0, <1>1, <1>10, <2>3 DEF WriteFails
<1>11. CASE PowerCut
  <2>1. sidecar' \in AfterPowerCut(sidecar, synced)
    BY <1>11 DEF PowerCut
  <2>2. /\ sidecar' \in Seq(Lines) /\ synced <= Len(sidecar')
        /\ \A i \in 1..synced : sidecar'[i] = sidecar[i]
    BY <1>0, <2>1, PowerCutFacts
  <2> QED
    BY <1>0, <1>1, <1>11, <2>2, LenProperties DEF PowerCut
<1>12. CASE LineRots
  <2>1. PICK n \in 1..synced :
          /\ sidecar[n] \in Reads
          /\ sidecar' = [sidecar EXCEPT ![n] = Rotted]
          /\ damaged' = damaged \cup {sidecar[n]}
    BY ZenonT(60), <1>12 DEF LineRots
  <2>2. \A i \in 1..synced : IF i = n THEN sidecar'[i] = Rotted ELSE sidecar'[i] = sidecar[i]
    BY <1>0, <2>1
  <2>3. synced' = synced
    BY <1>12 DEF LineRots
  <2>4. sidecar[n] \in Reads
    BY <2>1
  <2> QED
    BY <1>0, <2>1, <2>2, <2>3, <2>4 DEF Steady
<1> QED
  BY <1>2, <1>3, <1>4, <1>5, <1>6, <1>7, <1>8, <1>9, <1>10, <1>11, <1>12
  DEF Next, RecoveryStep, ReadPath


(* No step takes a read out of what is safe: a line is lost only before    *)
(* its fsync, and one that rots is counted as damaged.                     *)
LEMMA SafeGrows ==
    ASSUME Typed, [Next]_vars
    PROVE  Safe \subseteq Safe'
<1>1. Steady /\ synced \in Nat
  BY SMTT(60), SyncedLinesStay DEF Typed, TypeOK
<1> QED
  BY SMTT(60), <1>1 DEF Steady, Safe, VerifiedUpTo

(* What a commit adds to the rows, and what a backfill can add to the      *)
(* lines, finished or cut short.                                           *)
LEMMA ReplayedRows ==
    ASSUME Typed, NEW p \in Processes, CommitReplay(p)
    PROVE  Stored(db)' = Stored(db) \cup {t.read : t \in pass[p].replay}
<1>1. PICK lines \in InFileOrder(pass[p].replay) :
        LET reads == [i \in DOMAIN lines |-> lines[i].read]
        IN  db' = [db EXCEPT !.rows = @ \o reads, !.replayed = @ \cup ToSet(reads)]
  BY Zenon DEF CommitReplay
<1> DEFINE reads == [i \in DOMAIN lines |-> lines[i].read]
<1>2. reads \in Seq(Reads) /\ ToSet(reads) = {t.read : t \in pass[p].replay}
  BY ReplayFacts
<1>3. db.rows \in Seq(Reads) /\ db'.rows = db.rows \o reads
  BY <1>1 DEF Typed, TypeOK, Databases
<1> HIDE DEF reads
<1> QED
  BY SMTT(60), <1>2, <1>3, MembersAfterConcat DEF Stored

LEMMA BackfilledLines ==
    ASSUME Typed, BackfillIsStored, NEW p \in Processes, Backfill(p) \/ RecoveryFails(p)
    PROVE  Verified(sidecar, 0)' \subseteq Verified(sidecar, 0) \cup Stored(db)
<1>0. sidecar \in Seq(Lines) /\ pass[p].backfill \subseteq Stored(db)
  BY DEF Typed, TypeOK, BackfillIsStored
<1>1. CASE Backfill(p) /\ pass[p].backfill # {}
  <2>1. PICK lines \in InSeqOrder(pass[p].backfill) : sidecar' = sidecar \o lines
    BY <1>1 DEF Backfill
  <2>2. lines \in Seq(Lines) /\ ToSet(lines) = pass[p].backfill
    BY BackfillFacts, SeqMonotonic DEF Lines, Typed
  <2>3. ToSet(sidecar') = ToSet(sidecar) \cup ToSet(lines) /\ sidecar' \in Seq(Lines)
    BY <1>0, <2>1, <2>2, MembersAfterConcat, ConcatProperties
  <2>4. \A file \in Seq(Lines) : Verified(file, 0) = ToSet(file) \cap Reads
    BY LenProperties DEF Verified, ToSet
  <2> QED
    BY <1>0, <2>2, <2>3, <2>4
<1>2. CASE RecoveryFails(p) /\ pc[p] = "backfill"
  <2>1. PICK lines \in InSeqOrder(pass[p].backfill) : sidecar' \in Interrupted(sidecar, lines)
    BY <1>2 DEF RecoveryFails
  <2>2. lines \in Seq(Reads) /\ ToSet(lines) = pass[p].backfill
    BY BackfillFacts DEF Typed
  <2>3. Verified(sidecar', 0) \subseteq Verified(sidecar, 0) \cup ToSet(lines)
    BY <1>0, <2>1, <2>2, InterruptedFacts
  <2> QED
    BY <1>0, <2>2, <2>3
<1>3. CASE \/ Backfill(p) /\ pass[p].backfill = {}
           \/ RecoveryFails(p) /\ pc[p] # "backfill"
  BY <1>3 DEF Backfill, RecoveryFails
<1> QED
  BY <1>1, <1>2, <1>3

(* A line that rots is the only read that leaves the file.                 *)
LEMMA RottedLine ==
    ASSUME Typed, LineRots
    PROVE  \E r \in Verified(sidecar, 0) :
               /\ damaged' = damaged \cup {r}
               /\ Verified(sidecar, 0)' \subseteq Verified(sidecar, 0)
               /\ Verified(sidecar, 0) \subseteq Verified(sidecar, 0)' \cup {r}
<1>0. sidecar \in Seq(Lines) /\ Len(sidecar) \in Nat /\ synced \in 0..Len(sidecar)
  BY LenProperties DEF Typed, TypeOK
<1>1. PICK n \in 1..synced :
        /\ sidecar[n] \in Reads
        /\ sidecar' = [sidecar EXCEPT ![n] = Rotted]
        /\ damaged' = damaged \cup {sidecar[n]}
  BY DEF LineRots
<1>2. n \in 1..Len(sidecar) /\ sidecar[n] \in Verified(sidecar, 0) /\ Rotted \notin Reads
  BY <1>0, <1>1, MarksAreNotReads DEF Verified
<1>3. Len(sidecar') = Len(sidecar) /\ sidecar'[n] = Rotted
      /\ \A i \in 1..Len(sidecar) : i # n => sidecar'[i] = sidecar[i]
  BY <1>0, <1>1, <1>2
<1>4. /\ Verified(sidecar, 0)' \subseteq Verified(sidecar, 0)
      /\ Verified(sidecar, 0) \subseteq Verified(sidecar, 0)' \cup {sidecar[n]}
  BY SMTT(60), <1>2, <1>3 DEF Verified
<1> QED
  BY <1>1, <1>2, <1>4

(* Rows are only ever added, until everything is stopped and the database  *)
(* is replaced.                                                            *)
LEMMA RowsStay ==
    ASSUME Typed, [Next]_vars, ~ReplaceDatabase
    PROVE  Stored(db) \subseteq Stored(db)'
<1>0. db \in Databases /\ db.rows \in Seq(Reads) /\ Service \in Processes
  BY DEF Typed, TypeOK, Databases, Processes
<1>1. ASSUME db'.rows = db.rows
      PROVE  Stored(db) \subseteq Stored(db)'
  BY <1>1 DEF Stored
<1>w. ASSUME NEW p \in Processes, db' = WithCheckpoint(p) \/ UNCHANGED db
      PROVE  Stored(db) \subseteq Stored(db)'
  BY <1>1, <1>w, CheckpointFacts DEF Typed
<1>2. ASSUME NEW p \in Processes, Scan(p) \/ Backfill(p) \/ RecoveryFails(p) \/ ProcessDies(p)
      PROVE  Stored(db) \subseteq Stored(db)'
  BY <1>1, <1>2 DEF Scan, Backfill, RecoveryFails, ProcessDies, stores
<1>3. ASSUME NEW p \in Processes, CommitReplay(p)
      PROVE  Stored(db) \subseteq Stored(db)'
  BY <1>3, ReplayedRows
<1>4. ASSUME NEW p \in Processes, FinishRecovery(p)
      PROVE  Stored(db) \subseteq Stored(db)'
  BY <1>4, <1>w DEF FinishRecovery
<1>5. CASE Acknowledge \/ StopService
  BY <1>0, <1>5, <1>w DEF Acknowledge, StopService
<1>6. CASE SetAside
  BY <1>0, <1>1, <1>6 DEF SetAside, Databases
<1>7. CASE InsertRow
  <2>1. hand \in Reads
    BY <1>7 DEF InsertRow, Typed, HandIsARead, Appending
  <2>2. db'.rows = Append(db.rows, hand)
    BY <1>0, <1>7 DEF InsertRow, Databases
  <2> QED
    BY <1>0, <2>1, <2>2, MembersAfterAppend DEF Stored
<1>8. CASE TakeRead \/ WriteLine \/ WriteFails \/ InsertFails \/ Retry \/ PowerCut
            \/ LineRots \/ TakeSnapshot \/ UNCHANGED vars
  BY <1>1, <1>8
  DEF TakeRead, WriteLine, WriteFails, InsertFails, Retry, PowerCut, LineRots, TakeSnapshot,
      stores, vars
<1> QED
  BY <1>2, <1>3, <1>4, <1>5, <1>6, <1>7, <1>8 DEF Next, RecoveryStep, ReadPath

(* The invariant holds at the start.                                       *)
LEMMA KeptInit ==
    ASSUME Init
    PROVE  Kept
<1>1. DownHoldsNothing /\ BackfillIsStored
  BY DEF Init, DownHoldsNothing, BackfillIsStored, NoPass
<1>2. AcknowledgedIsSafe /\ HandIsSafe /\ HandIsStored
  BY DEF Init, AcknowledgedIsSafe, HandIsSafe, HandIsStored, Processes
<1> QED
  BY <1>1, <1>2, TypedInit DEF Kept

(* Every step keeps it.                                                    *)
LEMMA KeptStep ==
    ASSUME Kept, [Next]_vars
    PROVE  Kept'
<1>0. Typed /\ Service \in Processes /\ pc \in [Processes -> {"down"} \cup Starting \cup Running]
      /\ pass \in [Processes -> Passes] /\ NoPass.backfill = {}
  BY DEF Kept, Typed, TypeOK, Processes, NoPass
<1>1. Typed'
  BY <1>0, TypedStep
<1>2. Safe \subseteq Safe' /\ (ReplaceDatabase \/ Stored(db) \subseteq Stored(db)')
  BY <1>0, SafeGrows, RowsStay
<1>3. ASSUME NEW ps \in SUBSET Processes, Gone(ps)
      PROVE  /\ \A p \in Processes : pc'[p] = "down" => (pc[p] = "down" \/ p \in ps)
             /\ \A p \in Processes : pass'[p] = IF p \in ps THEN NoPass ELSE pass[p]
             /\ pc'[Service] \in {pc[Service], "down"} /\ (hand' = hand \/ pc'[Service] = "down")
  BY <1>0, <1>3 DEF Gone
<1>4. CASE ReplaceDatabase
  <2>1. \A p \in Processes : pc[p] = "down" /\ pass[p] = NoPass
    BY <1>4 DEF ReplaceDatabase, Kept, DownHoldsNothing
  <2>2. DownHoldsNothing' /\ BackfillIsStored'
    BY <1>0, <1>4, <2>1 DEF ReplaceDatabase, DownHoldsNothing, BackfillIsStored
  <2>3. AcknowledgedIsSafe' /\ HandIsSafe' /\ HandIsStored'
    BY <1>0, <1>2, <1>4, <2>1
    DEF ReplaceDatabase, Kept, AcknowledgedIsSafe, HandIsSafe, HandIsStored, loop
  <2> QED
    BY <1>1, <2>2, <2>3 DEF Kept
<1>5. CASE ~ReplaceDatabase
  <2>1. DownHoldsNothing'
    <3>1. ASSUME NEW p \in Processes, Scan(p) \/ CommitReplay(p) \/ Backfill(p) \/ FinishRecovery(p)
          PROVE  DownHoldsNothing'
      BY <1>0, <3>1
      DEF Scan, CommitReplay, Backfill, FinishRecovery, Goto, Kept, DownHoldsNothing
    <3>2. ASSUME NEW p \in Processes, RecoveryFails(p) \/ ProcessDies(p)
          PROVE  DownHoldsNothing'
      <4>1. Gone({p})
        BY <3>2 DEF RecoveryFails, ProcessDies
      <4> QED
        BY <1>3, <4>1 DEF Kept, DownHoldsNothing
    <3>3. CASE StopService \/ PowerCut
      <4>1. Gone({Service}) \/ Gone(Processes)
        BY <3>3 DEF StopService, PowerCut
      <4> QED
        BY <1>0, <1>3, <4>1 DEF Kept, DownHoldsNothing
    <3>4. CASE TakeRead \/ ReadPath \/ WriteFails
      BY <1>0, <3>4
      DEF TakeRead, ReadPath, SetAside, WriteLine, WriteFails, InsertRow, InsertFails, Retry,
          Acknowledge, Goto, Kept, DownHoldsNothing
    <3>5. CASE LineRots \/ TakeSnapshot \/ UNCHANGED vars
      BY <3>5 DEF LineRots, TakeSnapshot, vars, Kept, DownHoldsNothing
    <3> QED
      BY <1>5, <3>1, <3>2, <3>3, <3>4, <3>5 DEF Next, RecoveryStep
  <2>2. BackfillIsStored'
    <3>1. ASSUME \A p \in Processes : pass'[p].backfill \subseteq pass[p].backfill
          PROVE  BackfillIsStored'
      BY <1>2, <1>5, <3>1 DEF Kept, BackfillIsStored
    <3>2. ASSUME NEW p \in Processes, Scan(p)
          PROVE  BackfillIsStored'
      <4>1. Found(StartOf(p)).backfill \subseteq Stored(db)
        BY <1>0, StartFacts, FoundFacts DEF Typed
      <4>2. pass' = [pass EXCEPT ![p] = Found(StartOf(p))]
        BY <3>2 DEF Scan
      <4> QED
        BY <1>0, <1>2, <1>5, <4>1, <4>2 DEF Kept, BackfillIsStored
    <3>3. ASSUME NEW p \in Processes, FinishRecovery(p)
          PROVE  BackfillIsStored'
      BY <1>0, <3>1, <3>3 DEF FinishRecovery
    <3>4. ASSUME NEW p \in Processes, RecoveryFails(p) \/ ProcessDies(p)
          PROVE  BackfillIsStored'
      <4>1. Gone({p})
        BY <3>4 DEF RecoveryFails, ProcessDies
      <4> QED
        BY <1>0, <1>3, <3>1, <4>1
    <3>5. CASE StopService \/ PowerCut
      <4>1. Gone({Service}) \/ Gone(Processes)
        BY <3>5 DEF StopService, PowerCut
      <4> QED
        BY <1>0, <1>3, <3>1, <4>1
    <3>6. ASSUME NEW p \in Processes, CommitReplay(p) \/ Backfill(p)
          PROVE  BackfillIsStored'
      BY <3>1, <3>6 DEF CommitReplay, Backfill
    <3>7. CASE TakeRead \/ ReadPath \/ WriteFails \/ LineRots \/ TakeSnapshot \/ UNCHANGED vars
      <4>1. pass' = pass
        BY <3>7
        DEF TakeRead, ReadPath, SetAside, WriteLine, WriteFails, InsertRow, InsertFails, Retry,
            Acknowledge, LineRots, TakeSnapshot, vars
      <4> QED
        BY <3>1, <4>1
    <3> QED
      BY <1>5, <3>2, <3>3, <3>4, <3>5, <3>6, <3>7 DEF Next, RecoveryStep
  <2>3. CASE WriteLine
    <3>1. hand \in Reads
      BY <2>3 DEF WriteLine, Kept, Typed, HandIsARead, Appending
    <3>2. /\ sidecar' = Append(sidecar, hand) /\ synced' = Len(sidecar') /\ hand' = hand
          /\ acknowledged' = acknowledged /\ pc'[Service] = "insert"
      BY <1>0, <2>3 DEF WriteLine, Goto, loop
    <3>3. sidecar \in Seq(Lines) /\ hand \in Lines
      BY <3>1 DEF Kept, Typed, TypeOK, Lines
    <3>4. hand \in Safe'
      BY <3>1, <3>2, <3>3, AppendProperties, LenProperties DEF Safe, VerifiedUpTo
    <3>5. AcknowledgedIsSafe' /\ HandIsSafe' /\ HandIsStored'
      BY <1>2, <3>2, <3>4 DEF Kept, AcknowledgedIsSafe, HandIsSafe, HandIsStored
    <3> QED
      BY <1>1, <2>1, <2>2, <3>5 DEF Kept
  <2>4. CASE InsertRow
    <3>1. hand \in Reads /\ db \in Databases
      BY <2>4 DEF InsertRow, Kept, Typed, TypeOK, HandIsARead, Appending
    <3>2. /\ db'.rows = Append(db.rows, hand) /\ hand' = hand /\ pc[Service] = "insert"
          /\ acknowledged' = acknowledged /\ pc'[Service] = "tail"
      BY <1>0, <2>4, <3>1 DEF InsertRow, Goto, loop, Databases
    <3>3. hand \in Stored(db)'
      BY <3>1, <3>2, MembersAfterAppend DEF Stored, Databases
    <3>4. AcknowledgedIsSafe' /\ HandIsSafe' /\ HandIsStored'
      BY <1>2, <3>2, <3>3 DEF Kept, AcknowledgedIsSafe, HandIsSafe, HandIsStored
    <3> QED
      BY <1>1, <2>1, <2>2, <3>4 DEF Kept
  <2>5. CASE Acknowledge
    <3>1. /\ pc[Service] = "tail" /\ pc'[Service] = "idle"
          /\ acknowledged' = acknowledged \cup {hand}
      BY <1>0, <2>5 DEF Acknowledge, Goto
    <3>2. AcknowledgedIsSafe' /\ HandIsSafe' /\ HandIsStored'
      BY <1>2, <3>1 DEF Kept, AcknowledgedIsSafe, HandIsSafe, HandIsStored
    <3> QED
      BY <1>1, <2>1, <2>2, <3>2 DEF Kept
  <2>6. CASE ~(WriteLine \/ InsertRow \/ Acknowledge)
    <3> DEFINE Quiet == /\ acknowledged' = acknowledged
                        /\ pc'[Service] \in {"insert", "tail"} =>
                              pc'[Service] = pc[Service] /\ hand' = hand
    <3>1. ASSUME NEW p \in Processes,
                 Scan(p) \/ CommitReplay(p) \/ Backfill(p) \/ FinishRecovery(p)
          PROVE  Quiet
      BY <1>0, <3>1 DEF Scan, CommitReplay, Backfill, FinishRecovery, Goto, Done, loop
    <3>2. ASSUME NEW p \in Processes, RecoveryFails(p) \/ ProcessDies(p)
          PROVE  Quiet
      <4>1. Gone({p}) /\ acknowledged' = acknowledged
        BY <3>2 DEF RecoveryFails, ProcessDies
      <4> QED
        BY <1>3, <4>1
    <3>3. ASSUME StopService \/ PowerCut
          PROVE  Quiet
      <4>1. (Gone({Service}) \/ Gone(Processes)) /\ acknowledged' = acknowledged
        BY <3>3 DEF StopService, PowerCut
      <4> QED
        BY <1>0, <1>3, <4>1
    <3>4. ASSUME TakeRead \/ SetAside \/ InsertFails \/ Retry \/ WriteFails
          PROVE  Quiet
      BY <1>0, <3>4 DEF TakeRead, SetAside, InsertFails, Retry, WriteFails, Goto, loop
    <3>5. ASSUME LineRots \/ TakeSnapshot \/ UNCHANGED vars
          PROVE  Quiet
      BY <3>5 DEF LineRots, TakeSnapshot, vars, loop
    <3>6. Quiet
      BY <1>5, <2>6, <3>1, <3>2, <3>3, <3>4, <3>5 DEF Next, RecoveryStep, ReadPath
    <3>7. AcknowledgedIsSafe' /\ HandIsSafe' /\ HandIsStored'
      BY <1>2, <1>5, <3>6 DEF Kept, AcknowledgedIsSafe, HandIsSafe, HandIsStored
    <3> QED
      BY <1>1, <2>1, <2>2, <3>7 DEF Kept
  <2> QED
    BY <2>3, <2>4, <2>5, <2>6
<1> QED
  BY <1>4, <1>5
-----------------------------------------------------------------------------
(***************************************************************************)
(* The refinement.                                                         *)
(***************************************************************************)

Held == Stored(db) \cup Stored(snapshot) \cup Verified(sidecar, 0) \cup InAPass

(* A read some process's pass holds.                                       *)
LEMMA InAPassFacts ==
    ASSUME NEW r
    PROVE  r \in InAPass <=> \E p \in Processes : \E t \in pass[p].replay : t.read = r
BY DEF InAPass

(* A step that adds nothing to what is held, and acknowledges and damages  *)
(* nothing, forgets only what was not acknowledged or was damaged.         *)
LEMMA NothingNewIsForget ==
    ASSUME Kept', Held' \subseteq Held, UNCHANGED <<acknowledged, damaged>>
    PROVE  Evidence!Forget
<1> DEFINE lost == Held \ Held'
<1>1. acknowledged' \subseteq (Held \cup damaged)'
  <2>1. acknowledged' \subseteq Safe' /\ synced' \in 0..Len(sidecar')
    BY DEF Kept, AcknowledgedIsSafe, Typed, TypeOK
  <2>2. Safe' \subseteq (Held \cup damaged)'
    BY <2>1, LenProperties DEF Safe, Held, Verified, VerifiedUpTo, Kept, Typed, TypeOK
  <2> QED
    BY <2>1, <2>2
<1>2. lost \in SUBSET Held /\ lost \cap acknowledged \subseteq damaged /\ Held' = Held \ lost
  BY <1>1
<1> QED
  BY <1>2 DEF Evidence!Forget, Held

(* A step that brings one read into what is held, or leaves it as it was.  *)
LEMMA OneReadIsHold ==
    ASSUME NEW r \in Reads, Held \subseteq Held', Held' \subseteq Held \cup {r},
           UNCHANGED <<acknowledged, damaged>>
    PROVE  [Evidence!Next]_(Evidence!vars)
<1>1. CASE r \in Held'
  BY <1>1 DEF Evidence!Next, Evidence!Hold, Held
<1>2. CASE r \notin Held'
  BY <1>2 DEF Evidence!vars, Held
<1> QED
  BY <1>1, <1>2

(* Every step of the journal is a step of the evidence log, or none; and   *)
(* the only read a step can bring in is the one in the store loop's hand.  *)
LEMMA EvidenceStep ==
    ASSUME Kept, Kept', [Next]_vars
    PROVE  [Evidence!Next]_(Evidence!vars) /\ Held' \subseteq Held \cup {hand}
<1>0. /\ Typed /\ TypeOK /\ Service \in Processes /\ pass \in [Processes -> Passes]
      /\ sidecar \in Seq(Lines) /\ Len(sidecar) \in Nat /\ synced \in 0..Len(sidecar)
      /\ db \in Databases /\ db.rows \in Seq(Reads) /\ NoPass.replay = {}
      /\ EmptyDatabase.rows = <<>>
  BY LenProperties DEF Kept, Typed, TypeOK, Processes, NoPass, Databases, EmptyDatabase
<1>f. ASSUME Held' \subseteq Held, UNCHANGED <<acknowledged, damaged>>
      PROVE  [Evidence!Next]_(Evidence!vars) /\ Held' \subseteq Held \cup {hand}
  BY <1>f, NothingNewIsForget DEF Evidence!Next
<1>p. ASSUME \A p \in Processes : pass'[p].replay \subseteq pass[p].replay
      PROVE  InAPass' \subseteq InAPass
  BY <1>p DEF InAPass
<1>g. ASSUME NEW ps \in SUBSET Processes, Gone(ps)
      PROVE  InAPass' \subseteq InAPass
  BY <1>0, <1>g, <1>p DEF Gone
<1>w. ASSUME NEW p \in Processes, db' = WithCheckpoint(p) \/ UNCHANGED db
      PROVE  Stored(db)' = Stored(db)
  BY <1>0, <1>w, CheckpointFacts DEF Stored
<1>1. ASSUME NEW p \in Processes, Scan(p)
      PROVE  [Evidence!Next]_(Evidence!vars) /\ Held' \subseteq Held \cup {hand}
  <2> DEFINE found == Found(StartOf(p))
  <2>1. \A t \in found.replay : t.read \in Verified(sidecar, 0)
    BY <1>0, StartFacts, FoundFacts
  <2>2. /\ pass' = [pass EXCEPT ![p] = found]
        /\ UNCHANGED <<sidecar, damaged, db, snapshot, acknowledged>>
    BY <1>1 DEF Scan, loop
  <2> HIDE DEF found
  <2>3. InAPass' \subseteq InAPass \cup Verified(sidecar, 0)
    BY <1>0, <2>1, <2>2 DEF InAPass
  <2>4. Held' \subseteq Held
    BY <2>2, <2>3 DEF Held
  <2> QED
    BY <1>f, <2>2, <2>4
<1>2. ASSUME NEW p \in Processes, CommitReplay(p)
      PROVE  [Evidence!Next]_(Evidence!vars) /\ Held' \subseteq Held \cup {hand}
  <2>1. UNCHANGED <<sidecar, damaged, snapshot, pass, acknowledged>>
    BY <1>2 DEF CommitReplay, files, loop
  <2>2. Held' \subseteq Held
    BY <1>0, <1>2, <2>1, ReplayedRows DEF Held, InAPass
  <2> QED
    BY <1>f, <2>1, <2>2
<1>3. ASSUME NEW p \in Processes, Backfill(p)
      PROVE  [Evidence!Next]_(Evidence!vars) /\ Held' \subseteq Held \cup {hand}
  <2>1. UNCHANGED <<damaged, db, snapshot, pass, acknowledged>>
    BY <1>3 DEF Backfill, stores, loop
  <2>2. Held' \subseteq Held
    BY <1>0, <1>3, <2>1, BackfilledLines DEF Held, InAPass, Kept
  <2> QED
    BY <1>f, <2>1, <2>2
<1>4. ASSUME NEW p \in Processes, FinishRecovery(p)
      PROVE  [Evidence!Next]_(Evidence!vars) /\ Held' \subseteq Held \cup {hand}
  <2>1. InAPass' \subseteq InAPass
    BY <1>0, <1>4, <1>p DEF FinishRecovery
  <2>2. UNCHANGED <<sidecar, damaged, snapshot, acknowledged>> /\ Stored(db)' = Stored(db)
    BY <1>4, <1>w DEF FinishRecovery, files, loop
  <2>3. Held' \subseteq Held
    BY <2>1, <2>2 DEF Held
  <2> QED
    BY <1>f, <2>2, <2>3
<1>5. ASSUME NEW p \in Processes, RecoveryFails(p)
      PROVE  [Evidence!Next]_(Evidence!vars) /\ Held' \subseteq Held \cup {hand}
  <2>1. Gone({p}) /\ UNCHANGED <<damaged, db, snapshot, acknowledged>>
    BY <1>5 DEF RecoveryFails
  <2>2. Held' \subseteq Held
    BY <1>0, <1>5, <1>g, <2>1, BackfilledLines DEF Held, Kept
  <2> QED
    BY <1>f, <2>1, <2>2
<1>6. ASSUME NEW p \in Processes, ProcessDies(p)
      PROVE  [Evidence!Next]_(Evidence!vars) /\ Held' \subseteq Held \cup {hand}
  <2>1. Gone({p}) /\ UNCHANGED <<sidecar, damaged, db, snapshot, acknowledged>>
    BY <1>6 DEF ProcessDies, files
  <2>2. Held' \subseteq Held
    BY <1>g, <2>1 DEF Held
  <2> QED
    BY <1>f, <2>1, <2>2
<1>7. CASE TakeRead \/ SetAside \/ InsertFails \/ Retry \/ UNCHANGED vars
  <2>1. UNCHANGED <<sidecar, damaged, snapshot, pass, acknowledged>>
    BY <1>7 DEF TakeRead, SetAside, InsertFails, Retry, files, stores, loop, vars
  <2>2. db'.rows = db.rows
    BY <1>0, <1>7 DEF TakeRead, SetAside, InsertFails, Retry, stores, vars, Databases
  <2>3. Held' \subseteq Held
    BY <2>1, <2>2 DEF Held, InAPass, Stored
  <2> QED
    BY <1>f, <2>1, <2>3
<1>8. CASE WriteLine
  <2>1. hand \in Reads
    BY <1>8 DEF WriteLine, Kept, Typed, HandIsARead, Appending
  <2>2. /\ UNCHANGED <<damaged, db, snapshot, pass, acknowledged>>
        /\ sidecar' = Append(sidecar, hand)
    BY <1>8 DEF WriteLine, stores, loop
  <2>3. Verified(sidecar', 0) = Verified(sidecar, 0) \cup {hand}
    <3>1. hand \in Lines
      BY <2>1 DEF Lines
    <3>2. ToSet(sidecar') = ToSet(sidecar) \cup {hand} /\ sidecar' \in Seq(Lines)
      BY <1>0, <2>2, <3>1, MembersAfterAppend, AppendProperties
    <3>3. \A file \in Seq(Lines) : Verified(file, 0) = ToSet(file) \cap Reads
      BY LenProperties DEF Verified, ToSet
    <3> QED
      BY <1>0, <2>1, <3>2, <3>3
  <2>4. Held' = Held \cup {hand}
    BY <2>2, <2>3 DEF Held, InAPass
  <2> QED
    BY <2>1, <2>2, <2>4, OneReadIsHold
<1>9. CASE WriteFails
  <2>1. hand \in Reads /\ <<hand>> \in Seq(Reads) /\ ToSet(<<hand>>) = {hand}
    BY <1>9 DEF WriteFails, Kept, Typed, HandIsARead, Appending, ToSet
  <2>2. /\ UNCHANGED <<damaged, db, snapshot, pass, acknowledged>>
        /\ sidecar' \in Interrupted(sidecar, <<hand>>)
    BY <1>9 DEF WriteFails, stores, loop
  <2>3. /\ sidecar' \in Seq(Lines) /\ Len(sidecar) <= Len(sidecar')
        /\ \A i \in 1..Len(sidecar) : sidecar'[i] = sidecar[i]
        /\ Verified(sidecar', 0) \subseteq Verified(sidecar, 0) \cup {hand}
    BY <1>0, <2>1, <2>2, InterruptedFacts
  <2>4. Verified(sidecar, 0) \subseteq Verified(sidecar', 0)
    BY <1>0, <2>3, LenProperties DEF Verified
  <2>5. Held \subseteq Held' /\ Held' \subseteq Held \cup {hand}
    BY <2>2, <2>3, <2>4 DEF Held, InAPass
  <2> QED
    BY <2>1, <2>2, <2>5, OneReadIsHold
<1>10. CASE InsertRow
  <2>1. hand \in Reads
    BY <1>10 DEF InsertRow, Kept, Typed, HandIsARead, Appending
  <2>2. /\ UNCHANGED <<sidecar, damaged, snapshot, pass, acknowledged>>
        /\ db'.rows = Append(db.rows, hand)
    BY <1>0, <1>10 DEF InsertRow, files, loop, Databases
  <2>3. Stored(db)' = Stored(db) \cup {hand}
    BY <1>0, <2>1, <2>2, MembersAfterAppend DEF Stored
  <2>4. Held' = Held \cup {hand}
    BY <2>2, <2>3 DEF Held, InAPass
  <2> QED
    BY <2>1, <2>2, <2>4, OneReadIsHold
<1>11. CASE Acknowledge
  <2>1. hand \in Held /\ acknowledged' = acknowledged \cup {hand}
    BY <1>11 DEF Acknowledge, Kept, HandIsStored, Held
  <2>2. UNCHANGED <<sidecar, damaged, snapshot, pass>> /\ Stored(db)' = Stored(db)
    BY <1>0, <1>11, <1>w DEF Acknowledge, files
  <2>3. Held' = Held
    BY <2>2 DEF Held, InAPass
  <2> QED
    BY <2>1, <2>2, <2>3 DEF Evidence!Next, Evidence!Acknowledge, Held
<1>12. CASE StopService
  <2>1. /\ Gone({Service}) /\ UNCHANGED <<sidecar, damaged, snapshot, acknowledged>>
        /\ Stored(db)' = Stored(db)
    BY <1>0, <1>12, <1>w DEF StopService, files
  <2>2. Held' \subseteq Held
    BY <1>0, <1>g, <2>1 DEF Held
  <2> QED
    BY <1>f, <2>1, <2>2
<1>13. CASE PowerCut
  <2>1. /\ Gone(Processes) /\ UNCHANGED <<damaged, db, snapshot, acknowledged>>
        /\ sidecar' \in AfterPowerCut(sidecar, synced)
    BY <1>13 DEF PowerCut
  <2>2. Verified(sidecar', 0) \subseteq Verified(sidecar, 0)
    BY <1>0, <2>1, PowerCutFacts
  <2>3. Held' \subseteq Held
    BY <1>g, <2>1, <2>2 DEF Held
  <2> QED
    BY <1>f, <2>1, <2>3
<1>14. CASE LineRots
  <2>1. PICK r \in Verified(sidecar, 0) :
          /\ damaged' = damaged \cup {r}
          /\ Verified(sidecar, 0)' \subseteq Verified(sidecar, 0)
          /\ Verified(sidecar, 0) \subseteq Verified(sidecar, 0)' \cup {r}
    BY <1>0, <1>14, RottedLine
  <2>2. UNCHANGED <<db, snapshot, pass, acknowledged>>
    BY <1>14 DEF LineRots, stores, loop
  <2>3. r \in Held /\ Held' \in {Held, Held \ {r}}
    BY <2>1, <2>2 DEF Held, InAPass
  <2> QED
    BY <2>1, <2>2, <2>3 DEF Evidence!Next, Evidence!Damage, Held
<1>15. CASE TakeSnapshot
  <2>1. UNCHANGED <<sidecar, damaged, db, pass, acknowledged>> /\ snapshot' = db
    BY <1>15 DEF TakeSnapshot, files, loop
  <2>2. Held' \subseteq Held
    BY <2>1 DEF Held, InAPass
  <2> QED
    BY <1>f, <2>1, <2>2
<1>16. CASE ReplaceDatabase
  <2>1. /\ UNCHANGED <<sidecar, damaged, snapshot, pass, acknowledged>>
        /\ db' \in {snapshot, EmptyDatabase}
    BY <1>16 DEF ReplaceDatabase, files, loop
  <2>2. Stored(EmptyDatabase) = {}
    BY <1>0 DEF Stored, ToSet
  <2>3. Held' \subseteq Held
    BY <2>1, <2>2 DEF Held, InAPass
  <2> QED
    BY <1>f, <2>1, <2>3
<1> QED
  BY <1>1, <1>2, <1>3, <1>4, <1>5, <1>6, <1>7, <1>8, <1>9, <1>10, <1>11, <1>12, <1>13,
     <1>14, <1>15, <1>16
  DEF Next, RecoveryStep, ReadPath

(* The journal implements the evidence log: what it acknowledged it keeps. *)
THEOREM JournalKeepsEvidence == Spec => EvidenceIsKept
<1>1. Init => Kept
  BY KeptInit
<1>2. Kept /\ [Next]_vars => Kept'
  BY KeptStep
<1>3. Init /\ Kept => Evidence!Init
  <2> SUFFICES ASSUME Init, Kept
               PROVE  Evidence!Init
    OBVIOUS
  <2>1. Stored(db) \subseteq Reads /\ Stored(snapshot) \subseteq Reads
    BY StoredIsReads DEF Kept, Typed, TypeOK
  <2>2. InAPass = {} /\ Verified(sidecar, 0) \subseteq Reads
    BY DEF Init, InAPass, NoPass, Verified
  <2> QED
    BY <2>1, <2>2 DEF Init, Evidence!Init
<1>4. Kept /\ Kept' /\ [Next]_vars => [Evidence!Next]_(Evidence!vars)
  BY EvidenceStep
<1> QED
  BY <1>1, <1>2, <1>3, <1>4, PTL DEF Spec, EvidenceIsKept, Evidence!Spec

-----------------------------------------------------------------------------
(***************************************************************************)
(* A replay is accepted, whoever else is running.  No read the schema      *)
(* cannot hold is ever in a file, and a pass with reads to replay holds    *)
(* the write lock from its scan to its commit, so that what was not stored *)
(* when it looked is not stored when it inserts.                           *)
(***************************************************************************)

FilesAreStorable ==
    (Stored(db) \cup Stored(snapshot) \cup Verified(sidecar, 0)) \cap Unstorable = {}

ReplayIsFresh ==
    \A p \in Processes : pc[p] = "commit" =>
        /\ \A s, t \in pass[p].replay : s.read = t.read => s = t
        /\ \A t \in pass[p].replay : t.read \notin Stored(db) \cup Unstorable

ReplayHoldsTheLock ==
    \A p \in Processes : pc[p] = "commit" /\ pass[p].replay # {} => writer = p

Acceptable ==
    /\ Kept
    /\ FilesAreStorable
    /\ ReplayIsFresh
    /\ ReplayHoldsTheLock

(* What is held after a step and was not before is a read that was checked *)
(* against the schema.                                                     *)
LEMMA StorableStep ==
    ASSUME Acceptable, [Next]_vars
    PROVE  FilesAreStorable'
<1>0. /\ Kept /\ Typed /\ TypeOK /\ Service \in Processes
      /\ sidecar \in Seq(Lines) /\ db \in Databases /\ db.rows \in Seq(Reads)
      /\ synced \in 0..Len(sidecar)
  BY DEF Acceptable, Kept, Typed, TypeOK, Databases, Processes
<1>w. ASSUME NEW p \in Processes, db' = WithCheckpoint(p) \/ UNCHANGED db
      PROVE  Stored(db)' = Stored(db)
  BY <1>0, <1>w, CheckpointFacts DEF Stored
<1>a. \A file \in Seq(Lines) : Verified(file, 0) = ToSet(file) \cap Reads
  BY SMTT(60), LenProperties DEF Verified, ToSet
<1>1. ASSUME NEW p \in Processes, Scan(p) \/ ProcessDies(p)
      PROVE  FilesAreStorable'
  BY SMTT(60), <1>1 DEF Scan, ProcessDies, files, Acceptable, FilesAreStorable
<1>2. ASSUME NEW p \in Processes, CommitReplay(p)
      PROVE  FilesAreStorable'
  <2>1. {t.read : t \in pass[p].replay} \cap Unstorable = {}
    BY <1>2 DEF CommitReplay, Accepted, Refused
  <2> QED
    BY Zenon, <1>0, <1>2, <2>1, ReplayedRows DEF CommitReplay, files, Acceptable, FilesAreStorable
<1>3. ASSUME NEW p \in Processes, Backfill(p) \/ RecoveryFails(p)
      PROVE  FilesAreStorable'
  <2>1. UNCHANGED <<db, snapshot>>
    BY <1>3 DEF Backfill, RecoveryFails, stores
  <2> QED
    BY <1>0, <1>3, <2>1, BackfilledLines DEF Acceptable, FilesAreStorable, Kept
<1>4. ASSUME NEW p \in Processes, FinishRecovery(p)
      PROVE  FilesAreStorable'
  BY <1>4, <1>w DEF FinishRecovery, files, Acceptable, FilesAreStorable
<1>5. CASE TakeRead \/ SetAside \/ InsertFails \/ Retry \/ UNCHANGED vars
  <2>1. UNCHANGED <<sidecar, snapshot>>
    BY <1>5 DEF TakeRead, SetAside, InsertFails, Retry, files, stores, vars
  <2>2. db'.rows = db.rows
    BY <1>0, <1>5 DEF TakeRead, SetAside, InsertFails, Retry, stores, vars, Databases
  <2> QED
    BY <2>1, <2>2 DEF Stored, Acceptable, FilesAreStorable
<1>6. CASE WriteLine
  <2>1. hand \in Reads \ Unstorable /\ hand \in Lines
    BY <1>6 DEF WriteLine, Storable, Kept, Typed, HandIsARead, Appending, Acceptable, Lines
  <2>2. UNCHANGED <<db, snapshot>> /\ sidecar' = Append(sidecar, hand)
    BY <1>6 DEF WriteLine, stores
  <2>3. ToSet(sidecar') = ToSet(sidecar) \cup {hand} /\ sidecar' \in Seq(Lines)
    BY <1>0, <2>1, <2>2, MembersAfterAppend, AppendProperties
  <2>4. Verified(sidecar', 0) \subseteq Verified(sidecar, 0) \cup {hand}
    BY <1>0, <1>a, <2>3
  <2> QED
    BY <2>1, <2>2, <2>4 DEF Acceptable, FilesAreStorable
<1>7. CASE WriteFails
  <2>1. hand \in Reads \ Unstorable /\ <<hand>> \in Seq(Reads) /\ ToSet(<<hand>>) = {hand}
    BY <1>7 DEF WriteFails, Storable, Kept, Typed, HandIsARead, Appending, Acceptable, ToSet
  <2>2. UNCHANGED <<db, snapshot>> /\ sidecar' \in Interrupted(sidecar, <<hand>>)
    BY <1>7 DEF WriteFails, stores
  <2>3. Verified(sidecar', 0) \subseteq Verified(sidecar, 0) \cup {hand}
    BY <1>0, <2>1, <2>2, InterruptedFacts
  <2> QED
    BY <2>1, <2>2, <2>3 DEF Acceptable, FilesAreStorable
<1>8. CASE InsertRow
  <2>1. hand \in Reads \ Unstorable
    BY <1>8 DEF InsertRow, Refused, Kept, Typed, HandIsARead, Appending, Acceptable
  <2>2. UNCHANGED <<sidecar, snapshot>> /\ db'.rows = Append(db.rows, hand)
    BY <1>0, <1>8 DEF InsertRow, files, Databases
  <2>3. Stored(db)' = Stored(db) \cup {hand}
    BY <1>0, <2>1, <2>2, MembersAfterAppend DEF Stored
  <2> QED
    BY <2>1, <2>2, <2>3 DEF Acceptable, FilesAreStorable
<1>9. CASE Acknowledge \/ StopService
  BY <1>0, <1>9, <1>w DEF Acknowledge, StopService, files, Acceptable, FilesAreStorable
<1>10. CASE PowerCut
  <2>1. UNCHANGED <<db, snapshot>> /\ sidecar' \in AfterPowerCut(sidecar, synced)
    BY <1>10 DEF PowerCut
  <2>2. Verified(sidecar', 0) \subseteq Verified(sidecar, 0)
    BY <1>0, <2>1, PowerCutFacts
  <2> QED
    BY <2>1, <2>2 DEF Acceptable, FilesAreStorable
<1>11. CASE LineRots
  BY <1>0, <1>11, RottedLine DEF LineRots, stores, Acceptable, FilesAreStorable
<1>12. CASE TakeSnapshot
  BY <1>12 DEF TakeSnapshot, files, Acceptable, FilesAreStorable
<1>13. CASE ReplaceDatabase
  <2>1. Stored(EmptyDatabase) = {}
    BY DEF Stored, ToSet, EmptyDatabase
  <2> QED
    BY <1>13, <2>1 DEF ReplaceDatabase, files, Acceptable, FilesAreStorable
<1> QED
  BY <1>1, <1>2, <1>3, <1>4, <1>5, <1>6, <1>7, <1>8, <1>9, <1>10, <1>11, <1>12, <1>13
  DEF Next, RecoveryStep, ReadPath

(* The invariant holds at the start.                                       *)
LEMMA AcceptableInit ==
    ASSUME Init
    PROVE  Acceptable
<1>1. Stored(db) = ToSet(Legacy) /\ Stored(snapshot) = {} /\ Verified(sidecar, 0) = {}
  BY DEF Init, Stored, EmptyDatabase, ToSet, Verified
<1>2. ToSet(Legacy) \cap Unstorable = {}
  BY LegacyIsStorable, LenProperties, ElementOfSeq DEF ToSet
<1>3. ReplayIsFresh /\ ReplayHoldsTheLock
  BY DEF Init, ReplayIsFresh, ReplayHoldsTheLock
<1> QED
  BY <1>1, <1>2, <1>3, KeptInit DEF Acceptable, FilesAreStorable

(* Every step keeps it.                                                    *)
LEMMA AcceptableStep ==
    ASSUME Acceptable, [Next]_vars
    PROVE  Acceptable'
<1>0. /\ Kept /\ Typed /\ TypeOK /\ Service \in Processes /\ Nobody \notin Processes
      /\ pc \in [Processes -> {"down"} \cup Starting \cup Running]
      /\ pass \in [Processes -> Passes] /\ db \in Databases
  BY ProcessesAreDistinct DEF Acceptable, Kept, Typed, TypeOK, Processes
<1>w. ASSUME NEW q \in Processes, db' = WithCheckpoint(q) \/ UNCHANGED db
      PROVE  Stored(db)' = Stored(db)
  BY <1>0, <1>w, CheckpointFacts DEF Stored
<1>1. ASSUME NEW p \in Processes, Scan(p)
      PROVE  /\ \A s, t \in pass'[p].replay : s.read = t.read => s = t
             /\ \A t \in pass'[p].replay : t.read \notin Stored(db)' \cup Unstorable
             /\ pass'[p].replay # {} => writer' = p
  <2> DEFINE found == Found(StartOf(p))
  <2>1. /\ \A t \in found.replay : t.read \in Verified(sidecar, 0) \ Stored(db)
        /\ \A s, t \in found.replay : s.read = t.read => s = t
    BY <1>0, StartFacts, FoundFacts
  <2>2. /\ pass' = [pass EXCEPT ![p] = found] /\ UNCHANGED db
        /\ found.replay # {} => writer' = p
    BY <1>1 DEF Scan
  <2> HIDE DEF found
  <2>3. pass'[p] = found
    BY <1>0, <2>2
  <2> QED
    BY <2>1, <2>2, <2>3 DEF Acceptable, FilesAreStorable
<1>2. ASSUME NEW p \in Processes, pc'[p] = "commit", ~Scan(p)
      PROVE  pc[p] = "commit" /\ pass'[p] = pass[p]
  <2>1. ASSUME NEW q \in Processes, RecoveryStep(q)
        PROVE  pc[p] = "commit" /\ pass'[p] = pass[p]
    BY <1>0, <1>2, <2>1
    DEF RecoveryStep, Scan, CommitReplay, Backfill, FinishRecovery, Goto, Done
  <2>2. ASSUME NEW ps \in SUBSET Processes, Gone(ps)
        PROVE  pc[p] = "commit" /\ pass'[p] = pass[p]
    BY <1>2, <2>2 DEF Gone
  <2>3. CASE TakeRead \/ ReadPath \/ WriteFails
    BY <1>0, <1>2, <2>3
    DEF TakeRead, ReadPath, SetAside, WriteLine, WriteFails, InsertRow, InsertFails, Retry,
        Acknowledge, Goto
  <2>4. CASE LineRots \/ TakeSnapshot \/ ReplaceDatabase \/ UNCHANGED vars
    BY <1>2, <2>4 DEF LineRots, TakeSnapshot, ReplaceDatabase, vars
  <2> QED
    BY <1>0, <2>1, <2>2, <2>3, <2>4 DEF Next, RecoveryFails, ProcessDies, StopService, PowerCut
<1>3. ASSUME NEW p \in Processes, pc'[p] = "commit", ~Scan(p), pass[p].replay # {}
      PROVE  writer' = p /\ Stored(db)' = Stored(db)
  <2>0. pc[p] = "commit" /\ writer = p
    BY <1>2, <1>3 DEF Acceptable, ReplayHoldsTheLock
  <2>1. ASSUME NEW q \in Processes, Scan(q)
        PROVE  writer' = p /\ Stored(db)' = Stored(db)
    BY <1>0, <2>0, <2>1 DEF Scan
  <2>2. ASSUME NEW q \in Processes, CommitReplay(q)
        PROVE  writer' = p /\ Stored(db)' = Stored(db)
    <3>1. q # p
      BY <1>0, <1>3, <2>2 DEF CommitReplay, Goto
    <3>2. pass[q].replay = {}
      BY <2>0, <2>2, <3>1 DEF CommitReplay, Acceptable, ReplayHoldsTheLock
    <3>3. Stored(db)' = Stored(db)
      BY ZenonT(60), <1>0, <2>2, <3>2, ReplayedRows
    <3> QED
      BY <2>0, <2>2, <3>1, <3>3 DEF CommitReplay
  <2>3. ASSUME NEW q \in Processes, Backfill(q) \/ FinishRecovery(q)
        PROVE  writer' = p /\ Stored(db)' = Stored(db)
    BY <1>w, <2>0, <2>3 DEF Backfill, FinishRecovery, stores
  <2>4. ASSUME NEW q \in Processes, RecoveryFails(q) \/ ProcessDies(q)
        PROVE  writer' = p /\ Stored(db)' = Stored(db)
    BY <1>3, <2>0, <2>4 DEF RecoveryFails, ProcessDies, Gone
  <2>5. CASE TakeRead \/ SetAside \/ WriteLine \/ WriteFails \/ InsertFails \/ Retry
                \/ LineRots \/ TakeSnapshot \/ UNCHANGED vars
    <3>1. writer' = writer
      BY <2>5
      DEF TakeRead, SetAside, WriteLine, WriteFails, InsertFails, Retry, LineRots,
          TakeSnapshot, stores, vars
    <3>2. db'.rows = db.rows
      BY <1>0, <2>5
      DEF TakeRead, SetAside, WriteLine, WriteFails, InsertFails, Retry, LineRots,
          TakeSnapshot, stores, vars, Databases
    <3> QED
      BY <2>0, <3>1, <3>2 DEF Stored
  <2>6. CASE Acknowledge
    BY <1>0, <1>w, <2>0, <2>6 DEF Acknowledge
  <2>7. CASE StopService \/ PowerCut
    BY <1>0, <1>3, <1>w, <2>0, <2>7 DEF StopService, PowerCut, Gone
  <2>8. CASE InsertRow
    BY <1>0, <2>0, <2>8 DEF InsertRow, MayWrite
  <2>9. CASE ReplaceDatabase
    BY <2>0, <2>9 DEF ReplaceDatabase
  <2> QED
    BY <2>1, <2>2, <2>3, <2>4, <2>5, <2>6, <2>7, <2>8, <2>9 DEF Next, RecoveryStep, ReadPath
<1>4. ReplayHoldsTheLock'
  BY <1>1, <1>2, <1>3 DEF ReplayHoldsTheLock
<1>5. ReplayIsFresh'
  BY <1>1, <1>2, <1>3 DEF ReplayIsFresh, Acceptable
<1> QED
  BY <1>0, <1>4, <1>5, KeptStep, StorableStep DEF Acceptable

(* A replay transaction is never one the schema refuses, so a recovery     *)
(* cannot fail in the same place on every start.                           *)
THEOREM ReplayAccepted == Spec => []ReplayIsAccepted
<1>1. Init => Acceptable
  BY AcceptableInit
<1>2. Acceptable /\ [Next]_vars => Acceptable'
  BY AcceptableStep
<1>3. Acceptable => ReplayIsAccepted
  BY DEF Acceptable, ReplayIsFresh, ReplayIsAccepted, Accepted, Refused
<1> QED
  BY <1>1, <1>2, <1>3, PTL DEF Spec
-----------------------------------------------------------------------------
(***************************************************************************)
(* The read being retried is not stored, provided recover is not run while *)
(* the service is up.  Every read held anywhere has arrived, a read is     *)
(* taken up only when it arrives, and while the store loop has it no other *)
(* process can put it into the database.  Without the proviso the property *)
(* fails: that is the run RecoverBesideService.                            *)
(***************************************************************************)

HeldHasArrived == Held \subseteq arrived
HandHasArrived == hand \in arrived \cup {NoRead}
OneAtATime == \A p, q \in Processes : pc[p] # "down" /\ pc[q] # "down" => p = q

Landing ==
    /\ Kept
    /\ HeldHasArrived
    /\ HandHasArrived
    /\ OneAtATime
    /\ RetryCanLand

(* The invariant holds at the start.                                       *)
LEMMA LandingInit ==
    ASSUME Init
    PROVE  Landing
<1>1. InAPass = {} /\ Verified(sidecar, 0) = {} /\ Stored(snapshot) = {}
      /\ Stored(db) = ToSet(Legacy)
  BY DEF Init, InAPass, NoPass, Verified, Stored, EmptyDatabase, ToSet
<1>2. HeldHasArrived
  BY <1>1 DEF Init, HeldHasArrived, Held
<1>3. HandHasArrived
  BY DEF Init, HandHasArrived
<1>4. OneAtATime /\ RetryCanLand
  BY DEF Init, OneAtATime, RetryCanLand, Processes
<1> QED
  BY <1>2, <1>3, <1>4, KeptInit DEF Landing

(* Every step keeps it, where recover waits for the service to stop.       *)
LEMMA LandingStep ==
    ASSUME ~RecoverMayRunBesideService, Landing, [Next]_vars
    PROVE  Landing'
<1>0. /\ Kept /\ Typed /\ TypeOK /\ Service \in Processes /\ NoRead \notin Reads
      /\ pc \in [Processes -> {"down"} \cup Starting \cup Running]
      /\ db \in Databases /\ db.rows \in Seq(Reads)
  BY MarksAreNotReads DEF Landing, Kept, Typed, TypeOK, Processes, Databases
<1>1. Kept' /\ Held' \subseteq Held \cup {hand}
  BY <1>0, KeptStep, EvidenceStep
<1>2. Held' \subseteq Reads
  <2>1. Typed'
    BY <1>1 DEF Kept
  <2>2. Stored(db)' \subseteq Reads /\ Stored(snapshot)' \subseteq Reads
    BY <2>1, LenProperties, ElementOfSeq DEF Typed, TypeOK, Databases, Stored, ToSet
  <2>3. InAPass' \subseteq Reads
    BY <2>1 DEF Typed, TypeOK, InAPass, Passes
  <2> QED
    BY <2>2, <2>3 DEF Held, Verified
<1>3. arrived \subseteq arrived' /\ hand' \in {hand, NoRead} \cup arrived'
  <2>1. ASSUME NEW q \in Processes, RecoveryStep(q) \/ RecoveryFails(q) \/ ProcessDies(q)
        PROVE  arrived' = arrived /\ hand' \in {hand, NoRead}
    BY Zenon, <2>1
    DEF RecoveryStep, Scan, CommitReplay, Backfill, FinishRecovery, RecoveryFails, ProcessDies,
        Gone, loop
  <2>2. CASE TakeRead
    BY <2>2 DEF TakeRead
  <2>3. CASE ReadPath \/ WriteFails
    BY <2>3
    DEF ReadPath, SetAside, WriteLine, WriteFails, InsertRow, InsertFails, Retry, Acknowledge,
        loop
  <2>4. CASE StopService \/ PowerCut
    BY <2>4 DEF StopService, PowerCut, Gone
  <2>5. CASE LineRots \/ TakeSnapshot \/ ReplaceDatabase \/ UNCHANGED vars
    BY <2>5 DEF LineRots, TakeSnapshot, ReplaceDatabase, vars, loop
  <2> QED
    BY <2>1, <2>2, <2>3, <2>4, <2>5 DEF Next
<1>4. HandHasArrived'
  BY <1>3 DEF Landing, HandHasArrived
<1>5. HeldHasArrived'
  BY <1>0, <1>1, <1>2, <1>3 DEF Landing, HeldHasArrived, HandHasArrived
<1>g. ASSUME NEW ps \in SUBSET Processes, Gone(ps)
      PROVE  /\ \A p \in Processes : pc'[p] # "down" => pc[p] # "down"
             /\ pc'[Service] \in {pc[Service], "down"}
             /\ pc'[Service] # "down" => hand' = hand
  BY <1>0, <1>g DEF Gone
<1>6. OneAtATime'
  <2>1. ASSUME NEW p \in Processes, Scan(p)
        PROVE  OneAtATime'
    <3>1. \A q \in Processes \ {p} : pc'[q] = "down"
      BY <1>0, <2>1 DEF Scan, OtherIsDown, Goto
    <3> QED
      BY <3>1 DEF OneAtATime
  <2>2. ASSUME \A p \in Processes : pc'[p] # "down" => pc[p] # "down"
        PROVE  OneAtATime'
    BY <2>2 DEF Landing, OneAtATime
  <2>3. ASSUME NEW p \in Processes, CommitReplay(p) \/ Backfill(p) \/ FinishRecovery(p)
        PROVE  OneAtATime'
    BY <1>0, <2>2, <2>3 DEF CommitReplay, Backfill, FinishRecovery, Goto
  <2>4. CASE TakeRead \/ ReadPath \/ WriteFails
    BY <1>0, <2>2, <2>4
    DEF TakeRead, ReadPath, SetAside, WriteLine, WriteFails, InsertRow, InsertFails, Retry,
        Acknowledge, Goto
  <2>5. ASSUME NEW p \in Processes, RecoveryFails(p) \/ ProcessDies(p)
        PROVE  OneAtATime'
    <3>1. Gone({p})
      BY <2>5 DEF RecoveryFails, ProcessDies
    <3> QED
      BY <1>g, <2>2, <3>1
  <2>6. CASE StopService \/ PowerCut
    BY <1>0, <1>g, <2>2, <2>6 DEF StopService, PowerCut
  <2>7. CASE LineRots \/ TakeSnapshot \/ ReplaceDatabase \/ UNCHANGED vars
    BY <2>2, <2>7 DEF LineRots, TakeSnapshot, ReplaceDatabase, vars
  <2> QED
    BY <2>1, <2>3, <2>4, <2>5, <2>6, <2>7 DEF Next, RecoveryStep
<1>7. RetryCanLand'
  <2> SUFFICES ASSUME pc'[Service] \in {"write", "insert", "retry"}
               PROVE  hand' \notin Stored(db)'
    BY DEF RetryCanLand
  <2>1. CASE TakeRead
    <3>1. hand' \notin arrived /\ Stored(db)' = Stored(db)
      BY <2>1 DEF TakeRead, stores
    <3> QED
      BY <3>1 DEF Landing, HeldHasArrived, Held
  <2>2. CASE ~TakeRead
    <3>1. ASSUME NEW p \in Processes, RecoveryStep(p)
          PROVE  /\ pc[Service] \in {"write", "insert", "retry"} /\ hand' = hand
                 /\ Stored(db)' = Stored(db)
      <4>1. pc[p] # "down" \/ OtherIsDown(p)
        BY ZenonT(60), <3>1 DEF RecoveryStep, Scan, CommitReplay, Backfill, FinishRecovery
      <4>2. p # Service
        BY <1>0, <3>1
        DEF RecoveryStep, Scan, CommitReplay, Backfill, FinishRecovery, Goto, Done
      <4>3. pc[Service] = pc'[Service] /\ hand' = hand
        BY <1>0, <3>1, <4>2
        DEF RecoveryStep, Scan, CommitReplay, Backfill, FinishRecovery, Goto, loop
      <4>4. FALSE
        BY <1>0, <3>1, <4>1, <4>2, <4>3 DEF OtherIsDown, Landing, OneAtATime
      <4> QED
        BY <4>4
    <3>2. ASSUME NEW p \in Processes, RecoveryFails(p) \/ ProcessDies(p)
          PROVE  /\ pc[Service] \in {"write", "insert", "retry"} /\ hand' = hand
                 /\ Stored(db)' = Stored(db)
      <4>1. Gone({p}) /\ Stored(db)' = Stored(db)
        BY <3>2 DEF RecoveryFails, ProcessDies
      <4> QED
        BY <1>g, <4>1
    <3>3. ASSUME SetAside \/ InsertRow \/ Acknowledge \/ StopService \/ PowerCut
          PROVE  FALSE
      BY <1>0, <3>3 DEF SetAside, InsertRow, Acknowledge, StopService, PowerCut, Goto, Gone
    <3>4. ASSUME WriteLine \/ WriteFails \/ InsertFails \/ Retry \/ LineRots
                   \/ TakeSnapshot \/ UNCHANGED vars
          PROVE  /\ pc[Service] \in {"write", "insert", "retry"} /\ hand' = hand
                 /\ Stored(db)' = Stored(db)
      <4>1. hand' = hand /\ db' = db
        BY <3>4
        DEF WriteLine, WriteFails, InsertFails, Retry, LineRots, TakeSnapshot, vars, stores, loop
      <4>2. pc[Service] \in {"write", "insert", "retry"}
        BY <3>4 DEF WriteLine, WriteFails, InsertFails, Retry, LineRots, TakeSnapshot, vars
      <4> QED
        BY <4>1, <4>2
    <3>5. ASSUME ReplaceDatabase
          PROVE  FALSE
      BY <1>0, <3>5 DEF ReplaceDatabase
    <3> QED
      BY <2>2, <3>1, <3>2, <3>3, <3>4, <3>5 DEF Next, ReadPath, Landing, RetryCanLand
  <2> QED
    BY <2>1, <2>2
<1> QED
  BY <1>1, <1>4, <1>5, <1>6, <1>7 DEF Landing

(* A read the store loop is retrying can still be inserted: no other copy  *)
(* of it has reached the database.                                         *)
THEOREM RetriesCanLand ==
    ASSUME ~RecoverMayRunBesideService
    PROVE  Spec => []RetryCanLand
<1>1. Init => Landing
  BY LandingInit
<1>2. Landing /\ [Next]_vars => Landing'
  BY LandingStep
<1>3. Landing => RetryCanLand
  BY DEF Landing
<1> QED
  BY <1>1, <1>2, <1>3, PTL DEF Spec

-----------------------------------------------------------------------------
(***************************************************************************)
(* The copies agree, and a checkpoint tells the truth, provided recover is *)
(* not run while the service is up and what a recovery has read is on the  *)
(* disk.  A start reads only what comes after a checkpoint it trusts, so   *)
(* its word for the lines before has to be kept true by every step since   *)
(* it was recorded, and in the snapshot too, which may be the database of  *)
(* another day.                                                            *)
(***************************************************************************)

(* The reads that have a line that verifies, and those a pass will insert. *)
Lined == Verified(sidecar, 0)
Replayed(p) == {t.read : t \in pass[p].replay}

(* A checkpoint is at the end of a line fsync has returned for, and claims *)
(* no row there is not; and what a handle or a pass would make the next    *)
(* checkpoint of is on the disk too.                                       *)
CheckpointIsSettled(d) == d.checkpoint.at.end <= synced /\ d.checkpoint.through <= Len(d.rows)
CheckpointsAreSettled == CheckpointIsSettled(db) /\ CheckpointIsSettled(snapshot)
TipsAreSettled == \A p \in Processes : tip[p].end <= synced /\ pass[p].verified.end <= synced

(* CheckpointIsTrue, of a file and what it has lost.                       *)
Truthful(file, lost, d) ==
    UsableCheckpoint(d, file) =>
        /\ VerifiedUpTo(file, d.checkpoint.at.end) \subseteq Stored(d)
        /\ {d.rows[n] : n \in 1..d.checkpoint.through}
              \subseteq VerifiedUpTo(file, d.checkpoint.at.end) \cup lost

(* unconfirmed is set while a line may be without its row, and only then.  *)
UnconfirmedIsInHand ==
    /\ pc[Service] \in {"insert", "retry"} => unconfirmed
    /\ pc[Service] \in {"down", "idle", "tail"} \cup Starting => ~unconfirmed
    /\ unconfirmed => Storable(hand)

(* No line that verifies comes after the one a handle knows as the last.   *)
AtTheEnd(p) == tip[p] # NoTip => Verified(sidecar, tip[p].end) = {}

(* What a recovery still has to do is all that keeps the copies apart.     *)
RecoveryAgrees(p) ==
    /\ pc[p] \in {"commit", "backfill"} =>
          /\ Stored(db) \subseteq Lined \cup damaged \cup pass[p].backfill
          /\ Verified(sidecar, pass[p].verified.end) = {}
          /\ tip[p] = NoTip
    /\ pc[p] = "commit" => /\ Lined \subseteq Stored(db) \cup Replayed(p)
                           /\ Replayed(p) \subseteq Lined \cup damaged
    /\ pc[p] = "backfill" => Lined \subseteq Stored(db)
    /\ pc[p] = "checkpoint" => /\ Stored(db) \subseteq Lined \cup damaged
                               /\ Lined \subseteq Stored(db)
                               /\ AtTheEnd(p)

RecoveriesAgree == \A p \in Processes : RecoveryAgrees(p)

(* And so is the line of the read in the store loop's hand.                *)
ServiceAgrees ==
    pc[Service] \in Running =>
        /\ Stored(db) \subseteq Lined \cup damaged
        /\ Lined \subseteq Stored(db) \cup {hand}
        /\ ~unconfirmed => Lined \subseteq Stored(db)
        /\ ~unconfirmed \/ pc[Service] = "insert" => AtTheEnd(Service)

HandIsNew == acknowledged \subseteq arrived /\ hand \notin acknowledged

Agreed ==
    /\ Landing
    /\ CheckpointsAreSettled
    /\ CheckpointClaim
    /\ TipsAreSettled
    /\ UnconfirmedIsInHand
    /\ RecoveriesAgree
    /\ ServiceAgrees
    /\ HandIsNew

(* The invariant holds at the start.                                       *)
LEMMA AgreedInit ==
    ASSUME Init
    PROVE  Agreed
<1>0. Service \in Processes /\ NoRead \notin Reads
  BY MarksAreNotReads DEF Processes
<1>1. /\ db.checkpoint = NoCheckpoint /\ snapshot.checkpoint = NoCheckpoint
      /\ NoCheckpoint.at.end = 0 /\ NoCheckpoint.through = 0
      /\ Len(db.rows) \in Nat /\ Len(snapshot.rows) \in Nat
  <2>1. db = [EmptyDatabase EXCEPT !.rows = Legacy] /\ snapshot = EmptyDatabase
    BY DEF Init
  <2>2. EmptyDatabase.rows = <<>> /\ EmptyDatabase.checkpoint = NoCheckpoint
    BY DEF EmptyDatabase
  <2>3. db.rows = Legacy /\ db.checkpoint = NoCheckpoint
    BY <2>1 DEF EmptyDatabase
  <2> QED
    BY <2>1, <2>2, <2>3, LegacyIsStorable, LenProperties DEF NoCheckpoint, NoTip
<1>2. CheckpointsAreSettled
  BY <1>1 DEF Init, CheckpointsAreSettled, CheckpointIsSettled
<1>3. CheckpointClaim
  BY <1>1 DEF CheckpointClaim, CheckpointIsTrue, UsableCheckpoint, EndsWithLine
<1>4. TipsAreSettled
  BY DEF Init, TipsAreSettled, NoTip, NoPass
<1>5. UnconfirmedIsInHand /\ RecoveriesAgree /\ ServiceAgrees
  BY <1>0
  DEF Init, UnconfirmedIsInHand, RecoveriesAgree, RecoveryAgrees, ServiceAgrees, Starting,
      Running, Appending
<1>6. HandIsNew
  BY DEF Init, HandIsNew
<1> QED
  BY <1>2, <1>3, <1>4, <1>5, <1>6, LandingInit DEF Agreed

(* What a checkpoint claims stays true as long as the lines before it stay *)
(* where they are or rot.                                                  *)
LEMMA ClaimStays ==
    ASSUME NEW file, NEW left, NEW old, NEW new, NEW d \in Databases,
           Len(file) \in Nat, d.checkpoint.at.end <= Len(file), old \subseteq new,
           \A i \in 1..d.checkpoint.at.end :
              left[i] = file[i] \/ (file[i] \in Reads \cap new /\ left[i] = Rotted),
           Truthful(file, old, d)
    PROVE  Truthful(left, new, d)
<1> SUFFICES ASSUME UsableCheckpoint(d, left)
             PROVE  /\ VerifiedUpTo(left, d.checkpoint.at.end) \subseteq Stored(d)
                    /\ {d.rows[n] : n \in 1..d.checkpoint.through}
                          \subseteq VerifiedUpTo(left, d.checkpoint.at.end) \cup new
  BY DEF Truthful
<1> DEFINE end == d.checkpoint.at.end
<1>1. end \in Nat /\ d.checkpoint.at.read \in Reads \cup {NoRead}
  BY DEF Databases, Checkpoints, Tips
<1>2. end >= 1 /\ left[end] = d.checkpoint.at.read
  BY DEF UsableCheckpoint, EndsWithLine
<1>3. left[end] # Rotted
  BY <1>1, <1>2, MarksAreNotReads
<1>4. UsableCheckpoint(d, file)
  BY <1>1, <1>2, <1>3 DEF UsableCheckpoint, EndsWithLine
<1>5. /\ VerifiedUpTo(left, end) \subseteq VerifiedUpTo(file, end)
      /\ VerifiedUpTo(file, end) \subseteq VerifiedUpTo(left, end) \cup new
  BY <1>1, MarksAreNotReads DEF VerifiedUpTo
<1> QED
  BY <1>4, <1>5 DEF Truthful

(* Rows are only ever added at the end, so what a checkpoint says of the   *)
(* first of them stays true.                                               *)
LEMMA MoreRows ==
    ASSUME NEW file, NEW lost, NEW d \in Databases, NEW e \in Databases,
           e.checkpoint = d.checkpoint, Len(d.rows) <= Len(e.rows),
           \A n \in 1..Len(d.rows) : e.rows[n] = d.rows[n],
           d.checkpoint.through <= Len(d.rows),
           Truthful(file, lost, d)
    PROVE  Truthful(file, lost, e) /\ e.checkpoint.through <= Len(e.rows)
<1>1. /\ d.checkpoint.through \in Nat /\ Len(d.rows) \in Nat /\ Len(e.rows) \in Nat
      /\ DOMAIN d.rows = 1..Len(d.rows) /\ DOMAIN e.rows = 1..Len(e.rows)
  BY LenProperties DEF Databases, Checkpoints
<1>2. Stored(d) \subseteq Stored(e)
  BY <1>1 DEF Stored, ToSet
<1>3. \A n \in 1..d.checkpoint.through : e.rows[n] = d.rows[n]
  BY <1>1
<1>4. UsableCheckpoint(e, file) => UsableCheckpoint(d, file)
  BY <1>1 DEF UsableCheckpoint
<1>5. {e.rows[n] : n \in 1..e.checkpoint.through} = {d.rows[n] : n \in 1..d.checkpoint.through}
  BY <1>3
<1>6. e.checkpoint.through <= Len(e.rows)
  BY <1>1
<1> QED
  BY <1>2, <1>4, <1>5, <1>6 DEF Truthful

(* The lines of the file are those up to an offset and those after it.     *)
LEMMA FileSplits ==
    ASSUME NEW file \in Seq(Lines), NEW end \in Nat
    PROVE  /\ Verified(file, 0) \subseteq VerifiedUpTo(file, end) \cup Verified(file, end)
           /\ Verified(file, end) \subseteq Verified(file, 0)
           /\ end <= Len(file) => VerifiedUpTo(file, end) \subseteq Verified(file, 0)
BY LenProperties DEF Verified, VerifiedUpTo

(* A checkpoint is recorded where the copies agree and the handle knows    *)
(* the last line, and is true then.                                        *)
LEMMA RecordedIsTrue ==
    ASSUME Agreed, NEW p \in Processes,
           pc[p] = "checkpoint" \/ (p = Service /\ pc[p] \in {"tail", "idle", "retry"})
    PROVE  LET d == WithCheckpoint(p)
           IN  Truthful(sidecar, damaged, d) /\ CheckpointIsSettled(d)
<1>0. /\ sidecar \in Seq(Lines) /\ db \in Databases /\ tip \in [Processes -> Tips]
      /\ synced \in Nat /\ synced <= Len(sidecar) /\ Len(sidecar) \in Nat
      /\ Len(db.rows) \in Nat /\ DOMAIN db.rows = 1..Len(db.rows)
  BY LenProperties DEF Agreed, Landing, Kept, Typed, TypeOK, Databases
<1>1. CASE ~CheckpointDue(p)
  <2>1. WithCheckpoint(p) = db
    BY <1>1 DEF WithCheckpoint
  <2> QED
    BY <2>1
    DEF Agreed, CheckpointsAreSettled, CheckpointClaim, CheckpointIsTrue, Truthful
<1>2. CASE CheckpointDue(p)
  <2>1. WithCheckpoint(p) = [db EXCEPT !.checkpoint = [at |-> tip[p], through |-> Len(db.rows)]]
    BY <1>2 DEF WithCheckpoint
  <2>2. WithCheckpoint(p).checkpoint = [at |-> tip[p], through |-> Len(db.rows)]
        /\ WithCheckpoint(p).rows = db.rows
    BY <1>0, <2>1 DEF Databases
  <2>3. Stored(WithCheckpoint(p)) = Stored(db)
    BY <2>2 DEF Stored
  <2>4. Stored(db) \subseteq Lined \cup damaged /\ Lined \subseteq Stored(db) /\ AtTheEnd(p)
    <3>1. CASE pc[p] = "checkpoint"
      BY <3>1 DEF Agreed, RecoveriesAgree, RecoveryAgrees
    <3>2. CASE p = Service /\ pc[p] \in {"tail", "idle", "retry"}
      BY <1>2, <3>2 DEF Agreed, ServiceAgrees, CheckpointDue, Running, Appending
    <3> QED
      BY <3>1, <3>2
  <2>5. tip[p] # NoTip /\ tip[p].end \in Nat /\ tip[p].end <= synced
    BY <1>0, <1>2 DEF CheckpointDue, Tips, Agreed, TipsAreSettled
  <2>6. Verified(sidecar, tip[p].end) = {}
    BY <2>4, <2>5 DEF AtTheEnd
  <2>7. Lined = VerifiedUpTo(sidecar, tip[p].end)
    <3>1. tip[p].end <= Len(sidecar)
      BY <1>0, <2>5
    <3>2. /\ Lined \subseteq VerifiedUpTo(sidecar, tip[p].end) \cup Verified(sidecar, tip[p].end)
          /\ VerifiedUpTo(sidecar, tip[p].end) \subseteq Lined
      BY <1>0, <2>5, <3>1, FileSplits DEF Lined
    <3> QED
      BY <2>6, <3>2
  <2>8. {db.rows[n] : n \in 1..Len(db.rows)} = Stored(db)
    BY <1>0 DEF Stored, ToSet
  <2> QED
    BY <1>0, <2>2, <2>3, <2>4, <2>5, <2>7, <2>8 DEF Truthful, CheckpointIsSettled
<1> QED
  BY <1>1, <1>2

(* The database after a step: the same rows with perhaps some more, or a   *)
(* checkpoint recorded as above, or another database.                      *)
LEMMA DatabaseSteps ==
    ASSUME Kept, [Next]_vars
    PROVE  \/ /\ db'.checkpoint = db.checkpoint /\ Len(db.rows) <= Len(db'.rows)
              /\ \A n \in 1..Len(db.rows) : db'.rows[n] = db.rows[n]
           \/ /\ UNCHANGED <<sidecar, synced, damaged>>
              /\ \E p \in Processes :
                    /\ pc[p] = "checkpoint" \/ (p = Service /\ pc[p] \in {"tail", "idle", "retry"})
                    /\ db' = WithCheckpoint(p)
           \/ /\ UNCHANGED <<sidecar, synced, damaged>>
              /\ db' \in {snapshot, EmptyDatabase}
<1>0. /\ Typed /\ db \in Databases /\ db.rows \in Seq(Reads) /\ Len(db.rows) \in Nat
      /\ Service \in Processes
  BY LenProperties DEF Kept, Typed, TypeOK, Databases, Processes
<1> DEFINE Grown == /\ db'.checkpoint = db.checkpoint /\ Len(db.rows) <= Len(db'.rows)
                    /\ \A n \in 1..Len(db.rows) : db'.rows[n] = db.rows[n]
           Marked == /\ UNCHANGED <<sidecar, synced, damaged>>
                     /\ \E p \in Processes :
                           /\ pc[p] = "checkpoint"
                                \/ (p = Service /\ pc[p] \in {"tail", "idle", "retry"})
                           /\ db' = WithCheckpoint(p)
           Other == UNCHANGED <<sidecar, synced, damaged>> /\ db' \in {snapshot, EmptyDatabase}
<1>1. ASSUME db' = db
      PROVE  Grown
  BY <1>0, <1>1
<1>2. ASSUME NEW p \in Processes, CommitReplay(p)
      PROVE  Grown
  <2>1. PICK lines \in InFileOrder(pass[p].replay) :
          LET reads == [i \in DOMAIN lines |-> lines[i].read]
          IN  db' = [db EXCEPT !.rows = @ \o reads, !.replayed = @ \cup ToSet(reads)]
    BY Zenon, <1>2 DEF CommitReplay
  <2> DEFINE reads == [i \in DOMAIN lines |-> lines[i].read]
  <2>2. reads \in Seq(Reads)
    BY <1>0, ReplayFacts
  <2>3. db'.rows = db.rows \o reads /\ db'.checkpoint = db.checkpoint
    BY <1>0, <2>1 DEF Databases
  <2> HIDE DEF reads
  <2> QED
    BY SMTT(60), <1>0, <2>2, <2>3, ConcatProperties, LenProperties
<1>3. ASSUME InsertRow
      PROVE  Grown
  <2>1. hand \in Reads
    BY <1>0, <1>3 DEF InsertRow, Typed, HandIsARead, Appending
  <2>2. db'.rows = Append(db.rows, hand) /\ db'.checkpoint = db.checkpoint
    BY <1>0, <1>3 DEF InsertRow, Databases
  <2> QED
    BY <1>0, <2>1, <2>2, AppendProperties
<1>4. ASSUME SetAside
      PROVE  Grown
  <2>1. db'.rows = db.rows /\ db'.checkpoint = db.checkpoint
    BY <1>0, <1>4 DEF SetAside, Databases
  <2> QED
    BY <1>0, <2>1
<1>5. ASSUME NEW p \in Processes, FinishRecovery(p)
      PROVE  Marked
  BY <1>5 DEF FinishRecovery, files
<1>6. ASSUME Acknowledge \/ StopService
      PROVE  Grown \/ Marked
  <2>1. UNCHANGED <<sidecar, synced, damaged>> /\ pc[Service] \in {"tail", "idle", "retry"}
        /\ (db' = db \/ db' = WithCheckpoint(Service))
    BY <1>6 DEF Acknowledge, StopService, files
  <2> QED
    BY <1>0, <1>1, <2>1
<1>7. ASSUME ReplaceDatabase
      PROVE  Other
  BY <1>7 DEF ReplaceDatabase, files
<1>8. ASSUME NEW p \in Processes, Scan(p) \/ Backfill(p) \/ RecoveryFails(p) \/ ProcessDies(p)
      PROVE  Grown
  <2>1. db' = db
    BY <1>8 DEF Scan, Backfill, RecoveryFails, ProcessDies, stores
  <2> QED
    BY <1>1, <2>1
<1>9. ASSUME TakeRead \/ WriteLine \/ WriteFails \/ InsertFails \/ Retry \/ PowerCut
               \/ LineRots \/ TakeSnapshot \/ UNCHANGED vars
      PROVE  Grown
  <2>1. db' = db
    BY <1>9
    DEF TakeRead, WriteLine, WriteFails, InsertFails, Retry, PowerCut, LineRots, TakeSnapshot,
        stores, vars
  <2> QED
    BY <1>1, <2>1
<1>10. Grown \/ Marked \/ Other
  BY <1>2, <1>3, <1>4, <1>5, <1>6, <1>7, <1>8, <1>9 DEF Next, RecoveryStep, ReadPath
<1> QED
  BY <1>10

(* Every checkpoint that would be trusted goes on telling the truth.       *)
LEMMA ClaimStep ==
    ASSUME Agreed, Kept', [Next]_vars
    PROVE  CheckpointsAreSettled' /\ CheckpointClaim'
<1> DEFINE Fits(done, d) == d.checkpoint.at.end <= done /\ d.checkpoint.through <= Len(d.rows)
<1>0. /\ Kept /\ Typed /\ db \in Databases /\ snapshot \in Databases
      /\ db' \in Databases /\ snapshot' \in Databases
      /\ synced \in Nat /\ synced <= Len(sidecar) /\ Len(sidecar) \in Nat
  BY LenProperties DEF Agreed, Landing, Kept, Typed, TypeOK
<1>1. /\ Truthful(sidecar, damaged, db) /\ Truthful(sidecar, damaged, snapshot)
      /\ Fits(synced, db) /\ Fits(synced, snapshot)
  BY DEF Agreed, CheckpointsAreSettled, CheckpointIsSettled, CheckpointClaim, CheckpointIsTrue,
      Truthful
<1>2. Steady
  BY <1>0, SyncedLinesStay
<1>3. ASSUME NEW d \in Databases, Truthful(sidecar, damaged, d), Fits(synced, d)
      PROVE  Truthful(sidecar', damaged', d) /\ Fits(synced', d)
  <2>1. d.checkpoint.at.end \in Nat
    BY DEF Databases, Checkpoints, Tips
  <2>2. d.checkpoint.at.end <= Len(sidecar) /\ d.checkpoint.at.end <= synced'
    BY <1>0, <1>2, <1>3, <2>1 DEF Steady
  <2>3. \A i \in 1..d.checkpoint.at.end :
           sidecar'[i] = sidecar[i]
             \/ (sidecar[i] \in Reads \cap damaged' /\ sidecar'[i] = Rotted)
    BY <1>0, <1>2, <1>3, <2>1 DEF Steady
  <2>4. Truthful(sidecar', damaged', d)
    BY <1>0, <1>2, <1>3, <2>2, <2>3, ClaimStays DEF Steady
  <2> QED
    BY <1>3, <2>2, <2>4
<1> HIDE DEF Fits
<1>4. Truthful(sidecar', damaged', db') /\ Fits(synced', db')
  <2>1. CASE /\ db'.checkpoint = db.checkpoint /\ Len(db.rows) <= Len(db'.rows)
             /\ \A n \in 1..Len(db.rows) : db'.rows[n] = db.rows[n]
    <3>1. Truthful(sidecar', damaged', db) /\ Fits(synced', db)
      BY <1>0, <1>1, <1>3
    <3>2. Truthful(sidecar', damaged', db') /\ db'.checkpoint.through <= Len(db'.rows)
      <4>1. db.checkpoint.through <= Len(db.rows)
        BY <3>1 DEF Fits
      <4> QED
        BY <1>0, <2>1, <3>1, <4>1, MoreRows
    <3> QED
      BY <2>1, <3>1, <3>2 DEF Fits
  <2>2. CASE /\ UNCHANGED <<sidecar, synced, damaged>>
             /\ \E p \in Processes :
                   /\ pc[p] = "checkpoint" \/ (p = Service /\ pc[p] \in {"tail", "idle", "retry"})
                   /\ db' = WithCheckpoint(p)
    <3>1. PICK p \in Processes :
             /\ pc[p] = "checkpoint" \/ (p = Service /\ pc[p] \in {"tail", "idle", "retry"})
             /\ db' = WithCheckpoint(p)
      BY <2>2
    <3>2. Truthful(sidecar, damaged, WithCheckpoint(p)) /\ Fits(synced, WithCheckpoint(p))
      BY <3>1, RecordedIsTrue DEF CheckpointIsSettled, Fits
    <3> QED
      BY <2>2, <3>1, <3>2
  <2>3. CASE UNCHANGED <<sidecar, synced, damaged>> /\ db' \in {snapshot, EmptyDatabase}
    <3>1. Truthful(sidecar, damaged, EmptyDatabase) /\ Fits(synced, EmptyDatabase)
      <4>1. /\ EmptyDatabase.checkpoint.at.end = 0 /\ EmptyDatabase.checkpoint.through = 0
            /\ Len(EmptyDatabase.rows) = 0
        BY DEF EmptyDatabase, NoCheckpoint, NoTip
      <4> QED
        BY <1>0, <4>1 DEF Truthful, Fits, UsableCheckpoint, EndsWithLine
    <3> QED
      BY <1>1, <2>3, <3>1
  <2> QED
    BY <1>0, <2>1, <2>2, <2>3, DatabaseSteps
<1>5. Truthful(sidecar', damaged', snapshot') /\ Fits(synced', snapshot')
  <2>1. snapshot' = snapshot \/ snapshot' = db
    <3>1. ASSUME NEW p \in Processes, RecoveryStep(p) \/ RecoveryFails(p) \/ ProcessDies(p)
          PROVE  snapshot' = snapshot
      BY <3>1
      DEF RecoveryStep, Scan, CommitReplay, Backfill, FinishRecovery, RecoveryFails, ProcessDies,
          stores
    <3>2. ASSUME TakeRead \/ ReadPath \/ WriteFails \/ StopService \/ PowerCut \/ LineRots
                   \/ ReplaceDatabase \/ UNCHANGED vars
          PROVE  snapshot' = snapshot
      BY <3>2
      DEF TakeRead, ReadPath, SetAside, WriteLine, InsertRow, InsertFails, Retry, Acknowledge,
          WriteFails, StopService, PowerCut, LineRots, ReplaceDatabase, stores, vars
    <3> QED
      BY <3>1, <3>2 DEF Next, TakeSnapshot
  <2> QED
    BY <1>0, <1>1, <1>3, <2>1
<1>6. CheckpointsAreSettled'
  BY <1>4, <1>5 DEF CheckpointsAreSettled, CheckpointIsSettled, Fits
<1>7. CheckpointClaim'
  BY <1>4, <1>5 DEF CheckpointClaim, CheckpointIsTrue, Truthful
<1> QED
  BY <1>6, <1>7

(* A pass misses nothing: what it does not hand to the replay is stored,   *)
(* and after the line it calls the last there is none that verifies.       *)
LEMMA EveryReadHasAFirstCopy ==
    ASSUME NEW file \in Seq(Lines), NEW from \in Nat, NEW stored
    PROVE  Verified(file, from) \ stored \subseteq {t.read : t \in FirstCopies(file, from, stored)}
<1> SUFFICES ASSUME NEW r \in Verified(file, from) \ stored
             PROVE  \E t \in FirstCopies(file, from, stored) : t.read = r
  OBVIOUS
<1> DEFINE unstored == {i \in (from + 1)..Len(file) : file[i] \in Reads \ stored}
           copies == {i \in unstored : file[i] = r}
           n == Len(file)
           mirrored == {k \in 1..n : (n + 1) - k \in copies}
<1>1. n \in Nat /\ copies \in SUBSET (1..n) /\ copies # {}
  BY LenProperties DEF Verified
<1>2. mirrored \in SUBSET (1..n) /\ \A c \in copies : (n + 1) - c \in mirrored
  <2>1. \A c \in 1..n : (n + 1) - c \in 1..n /\ (n + 1) - ((n + 1) - c) = c
    BY <1>1
  <2> QED
    BY <1>1, <2>1
<1>3. PICK i \in copies : \A k \in copies : ~(k < i)
  <2>1. PICK m \in mirrored : \A k \in mirrored : k <= m
    BY ZenonT(60), <1>1, <1>2, LastOffset
  <2>2. (n + 1) - m \in copies /\ \A k \in copies : (n + 1) - k <= m
    BY <1>2, <2>1
  <2>3. \A k \in copies : ~(k < (n + 1) - m)
    BY <1>1, <1>2, <2>1, <2>2
  <2> QED
    BY <2>2, <2>3
<1>4. \A k \in unstored : k < i => file[k] # file[i]
  BY <1>3
<1>5. [end |-> i, read |-> file[i]] \in FirstCopies(file, from, stored)
  BY <1>3, <1>4 DEF FirstCopies
<1> QED
  BY <1>3, <1>5

LEMMA NothingAfterTheLast ==
    ASSUME NEW file \in Seq(Lines), NEW from \in Nat, from <= Len(file)
    PROVE  LET last == LastVerified(file, from)
               end == IF last # NoTip THEN last.end ELSE from
           IN  end <= Len(file) /\ Verified(file, end) = {}
<1> DEFINE good == {i \in (from + 1)..Len(file) : file[i] \in Reads}
           greatest == CHOOSE i \in good : \A j \in good : j <= i
<1>0. Len(file) \in Nat
  BY LenProperties
<1>1. CASE good = {}
  <2>1. LastVerified(file, from) = NoTip
    BY <1>1 DEF LastVerified
  <2>2. Verified(file, from) = {}
    BY <1>1 DEF Verified
  <2> QED
    BY <2>1, <2>2
<1>2. CASE good # {}
  <2>1. good \in SUBSET (1..Len(file))
    BY <1>0
  <2>2. \E i \in good : \A j \in good : j <= i
    BY <1>0, <1>2, <2>1, LastOffset
  <2>3. greatest \in good /\ \A j \in good : j <= greatest
    BY <2>2, Zenon
  <2>4. LastVerified(file, from) = [end |-> greatest, read |-> file[greatest]]
    BY <1>2, Zenon DEF LastVerified
  <2> HIDE DEF greatest
  <2>5. file[greatest] \in Reads /\ greatest \in 1..Len(file)
    BY <2>1, <2>3
  <2>6. LastVerified(file, from) # NoTip /\ LastVerified(file, from).end = greatest
    BY <2>4, <2>5 DEF NoTip
  <2>7. Verified(file, greatest) = {}
    BY <1>0, <2>3, <2>5 DEF Verified
  <2> QED
    BY <2>5, <2>6, <2>7
<1> QED
  BY <1>1, <1>2

(* What a pass finds tells all that keeps the copies apart, if the         *)
(* checkpoint it starts from tells the truth.                              *)
LEMMA FoundIsAll ==
    ASSUME TypeOK, NEW start \in Checkpoints,
           start = NoCheckpoint
             \/ (start = db.checkpoint /\ UsableCheckpoint(db, sidecar)
                   /\ Truthful(sidecar, damaged, db))
    PROVE  LET found == Found(start)
               replayed == {t.read : t \in found.replay}
           IN  /\ Lined \subseteq Stored(db) \cup replayed
               /\ replayed \subseteq Lined
               /\ Stored(db) \subseteq Lined \cup damaged \cup found.backfill
               /\ found.verified.end <= Len(sidecar)
               /\ Verified(sidecar, found.verified.end) = {}
<1> DEFINE last == LastVerified(sidecar, start.at.end)
           recent == {db.rows[n] : n \in (start.through + 1)..Len(db.rows)}
           early == {db.rows[n] : n \in 1..start.through}
           replay == FirstCopies(sidecar, start.at.end, Stored(db))
           verified == IF last # NoTip THEN last ELSE start.at
<1>1. /\ sidecar \in Seq(Lines) /\ db \in Databases /\ Len(sidecar) \in Nat
      /\ start.at.end \in Nat /\ start.through \in Nat
      /\ Len(db.rows) \in Nat /\ DOMAIN db.rows = 1..Len(db.rows)
  BY LenProperties DEF TypeOK, Checkpoints, Tips, Databases
<1>2. Found(start) = [replay |-> replay, verified |-> verified,
                      backfill |-> recent \ Verified(sidecar, start.at.end)]
  BY DEF Found
<1>3. /\ start.at.end <= Len(sidecar) /\ start.through <= Len(db.rows)
      /\ VerifiedUpTo(sidecar, start.at.end) \subseteq Stored(db)
      /\ early \subseteq VerifiedUpTo(sidecar, start.at.end) \cup damaged
  <2>1. CASE start = NoCheckpoint
    <3>1. start.at.end = 0 /\ start.through = 0
      BY <2>1 DEF NoCheckpoint, NoTip
    <3> QED
      BY <1>1, <3>1 DEF VerifiedUpTo
  <2>2. CASE start = db.checkpoint /\ UsableCheckpoint(db, sidecar)
               /\ Truthful(sidecar, damaged, db)
    BY <1>1, <2>2 DEF Truthful, UsableCheckpoint, EndsWithLine
  <2> QED
    BY <2>1, <2>2
<1>4. /\ Lined \subseteq VerifiedUpTo(sidecar, start.at.end) \cup Verified(sidecar, start.at.end)
      /\ Verified(sidecar, start.at.end) \subseteq Lined
      /\ VerifiedUpTo(sidecar, start.at.end) \subseteq Lined
  BY <1>1, <1>3, FileSplits DEF Lined
<1>5. Verified(sidecar, start.at.end) \ Stored(db) \subseteq {t.read : t \in replay}
  BY <1>1, EveryReadHasAFirstCopy
<1>6. \A t \in replay : t.read \in Verified(sidecar, start.at.end)
  BY <1>1, FirstCopiesFacts
<1>7. Stored(db) \subseteq early \cup recent
  BY <1>1, <1>3 DEF Stored, ToSet
<1>8. verified.end <= Len(sidecar) /\ Verified(sidecar, verified.end) = {}
  <2>1. LET end == IF last # NoTip THEN last.end ELSE start.at.end
        IN  end <= Len(sidecar) /\ Verified(sidecar, end) = {}
    BY <1>1, <1>3, NothingAfterTheLast
  <2> QED
    BY <2>1
<1> HIDE DEF recent, early, replay, verified
<1>9. Lined \subseteq Stored(db) \cup {t.read : t \in Found(start).replay}
  BY <1>2, <1>3, <1>4, <1>5
<1>10. {t.read : t \in Found(start).replay} \subseteq Lined
  BY <1>2, <1>4, <1>6
<1>11. Stored(db) \subseteq Lined \cup damaged \cup Found(start).backfill
  BY <1>2, <1>3, <1>4, <1>7
<1> QED
  BY <1>2, <1>8, <1>9, <1>10, <1>11

(* A scan starts from such a place.                                        *)
LEMMA ScanFindsAll ==
    ASSUME Agreed, NEW p \in Processes, Scan(p)
    PROVE  /\ pass' = [pass EXCEPT ![p] = Found(StartOf(p))]
           /\ LET found == Found(StartOf(p))
                  replayed == {t.read : t \in found.replay}
              IN  /\ Lined \subseteq Stored(db) \cup replayed
                  /\ replayed \subseteq Lined
                  /\ Stored(db) \subseteq Lined \cup damaged \cup found.backfill
                  /\ found.verified.end <= Len(sidecar)
                  /\ Verified(sidecar, found.verified.end) = {}
<1>1. TypeOK /\ StartOf(p) \in Checkpoints
  BY StartFacts DEF Agreed, Landing, Kept, Typed
<1>2. Truthful(sidecar, damaged, db)
  BY DEF Agreed, CheckpointClaim, CheckpointIsTrue, Truthful
<1>3. \/ StartOf(p) = NoCheckpoint
      \/ StartOf(p) = db.checkpoint /\ UsableCheckpoint(db, sidecar)
  BY DEF StartOf
<1>4. pass' = [pass EXCEPT ![p] = Found(StartOf(p))]
  BY DEF Scan
<1> QED
  BY <1>1, <1>2, <1>3, <1>4, FoundIsAll

(* What a handle or a pass knows of is on the disk.                        *)
LEMMA TipsStep ==
    ASSUME RecoverySettlesTheFile, Agreed, Kept', [Next]_vars
    PROVE  TipsAreSettled'
<1>0. /\ Kept /\ Typed /\ Service \in Processes /\ NoTip.end = 0 /\ NoPass.verified = NoTip
      /\ tip \in [Processes -> Tips] /\ pass \in [Processes -> Passes]
      /\ sidecar \in Seq(Lines) /\ sidecar' \in Seq(Lines)
      /\ synced \in Nat /\ synced <= Len(sidecar) /\ Len(sidecar) \in Nat /\ Len(sidecar') \in Nat
  BY LenProperties DEF Agreed, Landing, Kept, Typed, TypeOK, Processes, NoTip, NoPass
<1>1. synced' \in Nat /\ synced <= synced'
  BY <1>0, SyncedLinesStay DEF Steady
<1>2. \A p \in Processes : /\ tip[p].end \in Nat /\ tip[p].end <= synced
                            /\ pass[p].verified.end \in Nat /\ pass[p].verified.end <= synced
  BY <1>0 DEF Agreed, TipsAreSettled, Tips, Passes
<1>3. ASSUME \A p \in Processes : /\ tip'[p] \in {tip[p], NoTip}
                                  /\ pass'[p].verified \in {pass[p].verified, NoTip}
      PROVE  TipsAreSettled'
  BY SMTT(60), <1>0, <1>1, <1>2, <1>3 DEF TipsAreSettled
<1>4. ASSUME NEW p \in Processes, Scan(p)
      PROVE  TipsAreSettled'
  <2>1. synced' = Len(sidecar) /\ tip' = [tip EXCEPT ![p] = NoTip]
    BY <1>4 DEF Scan
  <2>2. pass' = [pass EXCEPT ![p] = Found(StartOf(p))]
        /\ Found(StartOf(p)).verified.end <= Len(sidecar)
    BY <1>4, ScanFindsAll
  <2> QED
    BY <1>0, <1>1, <1>2, <2>1, <2>2 DEF TipsAreSettled
<1>5. ASSUME NEW p \in Processes, Backfill(p)
      PROVE  TipsAreSettled'
  <2>1. pass' = pass
    BY <1>5 DEF Backfill
  <2>2. CASE pass[p].backfill = {}
    <3>1. tip' = tip \/ tip' = [tip EXCEPT ![p] = pass[p].verified]
      BY <1>5, <2>2 DEF Backfill
    <3>2. \A q \in Processes : tip'[q] \in {tip[q], pass[q].verified}
      BY <1>0, <3>1
    <3> QED
      BY SMTT(60), <1>0, <1>1, <1>2, <2>1, <3>2 DEF TipsAreSettled
  <2>3. CASE pass[p].backfill # {}
    <3>1. PICK lines : /\ synced' = Len(sidecar')
                       /\ tip' = [tip EXCEPT ![p] =
                                     [end |-> Len(sidecar'), read |-> lines[Len(lines)]]]
      BY <1>5, <2>3 DEF Backfill
    <3>2. tip'[p].end = Len(sidecar') /\ \A q \in Processes \ {p} : tip'[q] = tip[q]
      BY <1>0, <3>1
    <3> QED
      BY <1>0, <1>1, <1>2, <2>1, <3>1, <3>2 DEF TipsAreSettled
  <2> QED
    BY <2>2, <2>3
<1>6. ASSUME NEW p \in Processes, CommitReplay(p) \/ FinishRecovery(p)
      PROVE  TipsAreSettled'
  BY <1>0, <1>3, <1>6 DEF CommitReplay, FinishRecovery
<1>7. ASSUME NEW ps \in SUBSET Processes, Gone(ps)
      PROVE  TipsAreSettled'
  BY <1>0, <1>3, <1>7 DEF Gone
<1>8. ASSUME NEW p \in Processes, RecoveryFails(p) \/ ProcessDies(p)
      PROVE  TipsAreSettled'
  BY <1>7, <1>8 DEF RecoveryFails, ProcessDies
<1>9. ASSUME StopService \/ PowerCut
      PROVE  TipsAreSettled'
  BY <1>0, <1>7, <1>9 DEF StopService, PowerCut
<1>10. ASSUME WriteLine
       PROVE  TipsAreSettled'
  <2>1. /\ synced' = Len(sidecar') /\ pass' = pass
        /\ tip' = [tip EXCEPT ![Service] = [end |-> Len(sidecar'), read |-> hand]]
    BY <1>10 DEF WriteLine
  <2> QED
    BY <1>0, <1>1, <1>2, <2>1 DEF TipsAreSettled
<1>11. ASSUME TakeRead \/ SetAside \/ WriteFails \/ InsertRow \/ InsertFails \/ Retry
                \/ Acknowledge \/ LineRots \/ TakeSnapshot \/ ReplaceDatabase \/ UNCHANGED vars
       PROVE  TipsAreSettled'
  <2>1. tip' = tip /\ pass' = pass
    BY <1>11
    DEF TakeRead, SetAside, WriteFails, InsertRow, InsertFails, Retry, Acknowledge, LineRots,
        TakeSnapshot, ReplaceDatabase, vars
  <2> QED
    BY <1>3, <2>1
<1> QED
  BY <1>4, <1>5, <1>6, <1>8, <1>9, <1>10, <1>11 DEF Next, RecoveryStep, ReadPath

(* unconfirmed belongs to the place the store loop is at.                  *)
LEMMA UnconfirmedStep ==
    ASSUME Agreed, [Next]_vars
    PROVE  UnconfirmedIsInHand'
<1>0. /\ Service \in Processes /\ UnconfirmedIsInHand
      /\ pc \in [Processes -> {"down"} \cup Starting \cup Running]
  BY DEF Agreed, Landing, Kept, Typed, TypeOK, Processes
<1>1. ASSUME NEW p \in Processes, RecoveryStep(p)
      PROVE  UnconfirmedIsInHand'
  <2>1. unconfirmed' = unconfirmed /\ hand' = hand
    BY <1>1 DEF RecoveryStep, Scan, CommitReplay, Backfill, FinishRecovery, loop
  <2>2. \/ pc'[Service] = pc[Service]
        \/ /\ pc[Service] \in {"down"} \cup Starting
           /\ pc'[Service] \in {"idle"} \cup Starting
    BY <1>0, <1>1
    DEF RecoveryStep, Scan, CommitReplay, Backfill, FinishRecovery, Goto, Done, Starting
  <2> QED
    BY <1>0, <2>1, <2>2 DEF UnconfirmedIsInHand, Starting, Storable
<1>2. ASSUME NEW ps \in SUBSET Processes, Gone(ps)
      PROVE  UnconfirmedIsInHand'
  <2>1. IF Service \in ps THEN pc'[Service] = "down" /\ ~unconfirmed'
        ELSE pc'[Service] = pc[Service] /\ unconfirmed' = unconfirmed /\ hand' = hand
    BY <1>0, <1>2 DEF Gone
  <2> QED
    BY <1>0, <2>1 DEF UnconfirmedIsInHand, Starting, Storable
<1>3. ASSUME NEW p \in Processes, RecoveryFails(p) \/ ProcessDies(p)
      PROVE  UnconfirmedIsInHand'
  BY <1>2, <1>3 DEF RecoveryFails, ProcessDies
<1>4. ASSUME StopService \/ PowerCut
      PROVE  UnconfirmedIsInHand'
  BY <1>0, <1>2, <1>4 DEF StopService, PowerCut
<1>5. ASSUME TakeRead \/ SetAside \/ WriteLine \/ WriteFails \/ InsertRow \/ InsertFails \/ Retry
               \/ Acknowledge
      PROVE  UnconfirmedIsInHand'
  <2>1. CASE TakeRead
    BY <1>0, <2>1 DEF TakeRead, Goto, UnconfirmedIsInHand, Starting
  <2>2. CASE SetAside
    <3>1. /\ pc[Service] = "write" /\ pc'[Service] = "idle" /\ unconfirmed' = unconfirmed
          /\ ~Storable(hand)
      BY <1>0, <2>2 DEF SetAside, Goto
    <3> QED
      BY <1>0, <3>1 DEF UnconfirmedIsInHand, Starting
  <2>3. CASE WriteLine \/ WriteFails
    BY <1>0, <2>3 DEF WriteLine, WriteFails, Goto, UnconfirmedIsInHand, Starting, Storable, loop
  <2>4. CASE InsertRow
    BY <1>0, <2>4 DEF InsertRow, Goto, UnconfirmedIsInHand, Starting, loop
  <2>5. CASE InsertFails \/ Retry \/ Acknowledge
    BY <1>0, <2>5
    DEF InsertFails, Retry, Acknowledge, Goto, UnconfirmedIsInHand, Starting, Storable, loop
  <2> QED
    BY <1>5, <2>1, <2>2, <2>3, <2>4, <2>5
<1>6. ASSUME LineRots \/ TakeSnapshot \/ ReplaceDatabase \/ UNCHANGED vars
      PROVE  UnconfirmedIsInHand'
  BY <1>0, <1>6
  DEF LineRots, TakeSnapshot, ReplaceDatabase, vars, UnconfirmedIsInHand, Storable, loop
<1> QED
  BY <1>1, <1>3, <1>4, <1>5, <1>6 DEF Next, ReadPath

(* A read is acknowledged once: what the store loop takes up is new.       *)
LEMMA NewHandStep ==
    ASSUME Agreed, [Next]_vars
    PROVE  HandIsNew'
<1>0. /\ Service \in Processes /\ HandIsNew /\ HandHasArrived /\ acknowledged \subseteq Reads
      /\ NoRead \notin Reads /\ (pc[Service] = "tail" => hand \in Reads)
  BY MarksAreNotReads
  DEF Agreed, Landing, Kept, Typed, TypeOK, HandIsARead, Appending, Processes
<1>1. ASSUME acknowledged' = acknowledged, arrived' = arrived, hand' \in {hand, NoRead}
      PROVE  HandIsNew'
  BY <1>0, <1>1 DEF HandIsNew
<1>2. ASSUME NEW p \in Processes, RecoveryStep(p) \/ RecoveryFails(p) \/ ProcessDies(p)
      PROVE  HandIsNew'
  <2>1. acknowledged' = acknowledged /\ arrived' = arrived /\ hand' \in {hand, NoRead}
    BY Zenon, <1>2
    DEF RecoveryStep, Scan, CommitReplay, Backfill, FinishRecovery, RecoveryFails, ProcessDies,
        Gone, loop
  <2> QED
    BY SMTT(60), <1>1, <2>1
<1>3. ASSUME TakeRead
      PROVE  HandIsNew'
  <2>1. PICK r \in Reads \ arrived : hand' = r /\ arrived' = arrived \cup {r}
    BY <1>3 DEF TakeRead
  <2>2. acknowledged' = acknowledged
    BY <1>3 DEF TakeRead
  <2> QED
    BY <1>0, <2>1, <2>2 DEF HandIsNew
<1>4. ASSUME Acknowledge
      PROVE  HandIsNew'
  <2>1. /\ pc[Service] = "tail" /\ acknowledged' = acknowledged \cup {hand}
        /\ hand' = NoRead /\ arrived' = arrived
    BY <1>4 DEF Acknowledge
  <2> QED
    BY <1>0, <2>1 DEF HandIsNew, HandHasArrived
<1>5. ASSUME SetAside \/ WriteLine \/ WriteFails \/ InsertRow \/ InsertFails \/ Retry
               \/ StopService \/ PowerCut
               \/ LineRots \/ TakeSnapshot \/ ReplaceDatabase \/ UNCHANGED vars
      PROVE  HandIsNew'
  <2>1. acknowledged' = acknowledged /\ arrived' = arrived /\ hand' \in {hand, NoRead}
    BY <1>5
    DEF SetAside, WriteLine, WriteFails, InsertRow, InsertFails, Retry, StopService, PowerCut,
        LineRots, TakeSnapshot, ReplaceDatabase, Gone, loop, vars
  <2> QED
    BY <1>1, <2>1
<1> QED
  BY <1>2, <1>3, <1>4, <1>5 DEF Next, ReadPath

(* What the two files look like to a process, whoever took the step: the   *)
(* step is its own, or it took up nothing and only a line may have rotted. *)
Quiet ==
    /\ Stored(db)' = Stored(db) /\ Lined' \subseteq Lined /\ Lined \subseteq Lined' \cup damaged'
    /\ damaged \subseteq damaged'
    /\ \A end \in Nat : Verified(sidecar', end) \subseteq Verified(sidecar, end)
    /\ UNCHANGED <<pc, pass, tip, unconfirmed, hand>>

LEMMA QuietSteps ==
    ASSUME Agreed, LineRots \/ TakeSnapshot \/ UNCHANGED vars
    PROVE  Quiet
<1>1. CASE LineRots
  <2>0. sidecar \in Seq(Lines) /\ Len(sidecar) \in Nat /\ synced \in 0..Len(sidecar)
    BY LenProperties DEF Agreed, Landing, Kept, Typed, TypeOK
  <2>1. PICK n \in 1..synced :
          /\ sidecar[n] \in Reads
          /\ sidecar' = [sidecar EXCEPT ![n] = Rotted]
          /\ damaged' = damaged \cup {sidecar[n]}
    BY <1>1 DEF LineRots
  <2>2. n \in 1..Len(sidecar) /\ Rotted \notin Reads
    BY <2>0, <2>1, MarksAreNotReads
  <2>3. Len(sidecar') = Len(sidecar) /\ sidecar'[n] = Rotted
        /\ \A i \in 1..Len(sidecar) : i # n => sidecar'[i] = sidecar[i]
    BY <2>0, <2>1, <2>2
  <2>4. \A end \in Nat : /\ Verified(sidecar', end) \subseteq Verified(sidecar, end)
                         /\ Verified(sidecar, end) \subseteq Verified(sidecar', end) \cup {sidecar[n]}
    BY <2>0, <2>2, <2>3 DEF Verified
  <2>5. Lined' \subseteq Lined /\ Lined \subseteq Lined' \cup damaged'
    BY <2>1, <2>4 DEF Lined
  <2>6. db' = db /\ UNCHANGED <<pc, pass, tip, unconfirmed, hand>>
    BY <1>1 DEF LineRots, stores, loop
  <2> QED
    BY <2>1, <2>4, <2>5, <2>6 DEF Quiet, Stored
<1>2. CASE TakeSnapshot \/ UNCHANGED vars
  <2>1. /\ sidecar' = sidecar /\ damaged' = damaged /\ db' = db
        /\ UNCHANGED <<pc, pass, tip, unconfirmed, hand>>
    BY <1>2 DEF TakeSnapshot, vars, files, loop
  <2> QED
    BY <2>1 DEF Quiet, Stored, Lined
<1> QED
  BY <1>1, <1>2

(* What was all that kept the copies apart still is, and each step of a    *)
(* recovery leaves less of it.                                             *)
LEMMA RecoveriesStep ==
    ASSUME ~RecoverMayRunBesideService, Agreed, Landing', [Next]_vars,
           NEW p \in Processes
    PROVE  RecoveryAgrees(p)'
<1>0. /\ Kept /\ Typed /\ Service \in Processes
      /\ pc \in [Processes -> {"down"} \cup Starting \cup Running]
      /\ pass \in [Processes -> Passes] /\ tip \in [Processes -> Tips]
      /\ sidecar \in Seq(Lines) /\ db \in Databases
      /\ RecoveryAgrees(p) /\ pass[p].verified.end \in Nat
  BY DEF Agreed, Landing, Kept, Typed, TypeOK, Processes, RecoveriesAgree, Passes, Tips
<1> SUFFICES ASSUME pc'[p] \in Starting
             PROVE  RecoveryAgrees(p)'
  BY DEF RecoveryAgrees, Starting
<1>1. \A q \in Processes \ {p} : pc'[q] = "down"
  BY DEF Landing, OneAtATime, Starting
<1>2. CASE Quiet
  <2>1. /\ Stored(db)' = Stored(db) /\ Lined' \subseteq Lined /\ Lined \subseteq Lined' \cup damaged'
        /\ damaged \subseteq damaged' /\ pc'[p] = pc[p] /\ pass'[p] = pass[p] /\ tip'[p] = tip[p]
        /\ \A end \in Nat : Verified(sidecar', end) \subseteq Verified(sidecar, end)
    BY <1>2 DEF Quiet
  <2>2. Replayed(p)' = Replayed(p)
    BY <2>1 DEF Replayed
  <2>3. AtTheEnd(p) => AtTheEnd(p)'
    BY <1>0, <2>1 DEF AtTheEnd, Tips
  <2>4. pc[p] \in {"commit", "backfill"} =>
          /\ Stored(db)' \subseteq Lined' \cup damaged' \cup pass'[p].backfill
          /\ Verified(sidecar', pass'[p].verified.end) = {}
          /\ tip'[p] = NoTip
    BY <1>0, <2>1 DEF RecoveryAgrees
  <2> QED
    BY <1>0, <2>1, <2>2, <2>3, <2>4 DEF RecoveryAgrees
<1>3. ASSUME Scan(p)
      PROVE  RecoveryAgrees(p)'
  <2>1. /\ pc'[p] = "commit" /\ tip'[p] = NoTip
        /\ sidecar' = sidecar /\ damaged' = damaged /\ db' = db
    BY <1>0, <1>3 DEF Scan, Goto
  <2>2. pass'[p] = Found(StartOf(p))
    BY <1>0, <1>3, ScanFindsAll
  <2>3. LET found == pass'[p]
            replayed == {t.read : t \in found.replay}
        IN  /\ Lined \subseteq Stored(db) \cup replayed
            /\ replayed \subseteq Lined
            /\ Stored(db) \subseteq Lined \cup damaged \cup found.backfill
            /\ Verified(sidecar, found.verified.end) = {}
    BY <1>3, <2>2, ScanFindsAll
  <2>4. /\ Lined' = Lined /\ Stored(db)' = Stored(db)
        /\ Replayed(p)' = {t.read : t \in pass'[p].replay}
    BY <2>1 DEF Lined, Stored, Replayed
  <2> QED
    BY <2>1, <2>3, <2>4 DEF RecoveryAgrees
<1>4. ASSUME CommitReplay(p)
      PROVE  RecoveryAgrees(p)'
  <2>1. /\ pc[p] = "commit" /\ pc'[p] = "backfill" /\ pass' = pass /\ tip' = tip
        /\ sidecar' = sidecar /\ damaged' = damaged
    BY <1>0, <1>4 DEF CommitReplay, Goto, files
  <2>2. Stored(db)' = Stored(db) \cup Replayed(p) /\ Lined' = Lined
    BY <1>0, <1>4, <2>1, ReplayedRows DEF Replayed, Lined
  <2> QED
    BY <1>0, <2>1, <2>2 DEF RecoveryAgrees
<1>5. ASSUME Backfill(p)
      PROVE  RecoveryAgrees(p)'
  <2>1. /\ pc[p] = "backfill" /\ pc'[p] = "checkpoint" /\ damaged' = damaged /\ db' = db
    BY <1>0, <1>5 DEF Backfill, Goto, stores
  <2>2. Stored(db)' = Stored(db)
    BY <2>1 DEF Stored
  <2>3. CASE pass[p].backfill = {}
    <3>1. /\ sidecar' = sidecar /\ tip'[p] \in {tip[p], pass[p].verified}
      BY <1>0, <1>5, <2>3 DEF Backfill
    <3>2. AtTheEnd(p)'
      BY <1>0, <2>1, <3>1 DEF AtTheEnd, RecoveryAgrees
    <3> QED
      BY <1>0, <2>1, <2>2, <2>3, <3>1, <3>2 DEF RecoveryAgrees, Lined
  <2>4. CASE pass[p].backfill # {}
    <3>1. PICK lines \in InSeqOrder(pass[p].backfill) :
            /\ sidecar' = sidecar \o lines
            /\ tip' = [tip EXCEPT ![p] = [end |-> Len(sidecar'), read |-> lines[Len(lines)]]]
      BY <1>5, <2>4 DEF Backfill
    <3>2. lines \in Seq(Lines) /\ lines \in Seq(Reads) /\ ToSet(lines) = pass[p].backfill
      BY <1>0, BackfillFacts, SeqMonotonic DEF Typed, Lines
    <3>3. ToSet(sidecar') = ToSet(sidecar) \cup ToSet(lines) /\ sidecar' \in Seq(Lines)
      BY <1>0, <3>1, <3>2, MembersAfterConcat, ConcatProperties
    <3>4. \A file \in Seq(Lines) : Verified(file, 0) = ToSet(file) \cap Reads
      BY LenProperties DEF Verified, ToSet
    <3>5. pass[p].backfill \subseteq Reads /\ pass[p].backfill \subseteq Stored(db)
      BY <1>0 DEF Passes, Kept, BackfillIsStored
    <3>6. Lined' = Lined \cup pass[p].backfill
      BY <1>0, <3>2, <3>3, <3>4, <3>5 DEF Lined
    <3>7. tip'[p].end = Len(sidecar')
      BY <1>0, <3>1
    <3>8. AtTheEnd(p)'
      BY <3>3, <3>7, LenProperties DEF AtTheEnd, Verified
    <3> QED
      BY <1>0, <2>1, <2>2, <3>5, <3>6, <3>8 DEF RecoveryAgrees
  <2> QED
    BY <2>3, <2>4
<1>6. ASSUME FinishRecovery(p)
      PROVE  FALSE
  BY <1>0, <1>6 DEF FinishRecovery, Goto, Done, Starting
<1>7. ASSUME NEW q \in Processes \ {p}, RecoveryStep(q)
      PROVE  FALSE
  <2>1. ASSUME Scan(q)
        PROVE  FALSE
    BY <1>0, <1>1, <2>1 DEF Scan, Goto
  <2>2. ASSUME CommitReplay(q) \/ Backfill(q)
        PROVE  FALSE
    BY <1>0, <1>1, <2>2 DEF CommitReplay, Backfill, Goto
  <2>3. ASSUME FinishRecovery(q)
        PROVE  FALSE
    BY <1>0, <2>3 DEF FinishRecovery, Goto, Agreed, Landing, OneAtATime, Starting
  <2> QED
    BY <1>7, <2>1, <2>2, <2>3 DEF RecoveryStep
<1>g. ASSUME NEW ps \in SUBSET Processes, Gone(ps)
      PROVE  p \notin ps /\ pc'[p] = pc[p]
  BY <1>0, <1>g DEF Gone, Starting
<1>8. ASSUME NEW q \in Processes, RecoveryFails(q) \/ ProcessDies(q)
      PROVE  FALSE
  <2>1. Gone({q}) /\ pc[q] # "down"
    BY <1>8 DEF RecoveryFails, ProcessDies, Starting
  <2>2. q # p /\ pc[p] # "down"
    BY <1>g, <2>1 DEF Starting
  <2> QED
    BY <2>1, <2>2 DEF Agreed, Landing, OneAtATime
<1>9. ASSUME StopService \/ PowerCut
      PROVE  FALSE
  <2>1. CASE StopService
    <3>1. Gone({Service}) /\ pc[Service] # "down"
      BY <2>1 DEF StopService
    <3>2. Service # p /\ pc[p] # "down"
      BY <1>0, <1>g, <3>1 DEF Starting
    <3> QED
      BY <1>0, <3>1, <3>2 DEF Agreed, Landing, OneAtATime
  <2>2. CASE PowerCut
    BY <1>g, <2>2 DEF PowerCut
  <2> QED
    BY <1>9, <2>1, <2>2
<1>10. ASSUME TakeRead \/ ReadPath \/ WriteFails
       PROVE  FALSE
  <2>1. pc[Service] \in Running /\ pc'[Service] \in Running
    BY <1>0, <1>10
    DEF TakeRead, ReadPath, SetAside, WriteLine, WriteFails, InsertRow, InsertFails, Retry,
        Acknowledge, Goto, Running, Appending
  <2> QED
    BY <1>0, <1>1, <2>1 DEF Running, Appending, Starting
<1>11. ASSUME ReplaceDatabase
       PROVE  FALSE
  BY <1>0, <1>11 DEF ReplaceDatabase, Starting
<1>12. ASSUME LineRots \/ TakeSnapshot \/ UNCHANGED vars
       PROVE  RecoveryAgrees(p)'
  BY <1>2, <1>12, QuietSteps
<1> QED
  BY <1>3, <1>4, <1>5, <1>6, <1>7, <1>8, <1>9, <1>10, <1>11, <1>12 DEF Next, RecoveryStep

(* While the service runs, only the read in its hand is in one copy.       *)
LEMMA ServiceStep ==
    ASSUME ~RecoverMayRunBesideService, Agreed, Landing', [Next]_vars
    PROVE  ServiceAgrees'
<1>0. /\ Kept /\ Typed /\ Service \in Processes
      /\ pc \in [Processes -> {"down"} \cup Starting \cup Running]
      /\ tip \in [Processes -> Tips]
      /\ sidecar \in Seq(Lines) /\ sidecar' \in Seq(Lines) /\ db \in Databases
      /\ Reads \subseteq Lines /\ synced <= Len(sidecar) /\ synced \in Nat
      /\ Len(sidecar) \in Nat /\ Len(sidecar') \in Nat
      /\ Stored(db) \subseteq Reads
  BY LenProperties, StoredIsReads
  DEF Agreed, Landing, Kept, Typed, TypeOK, Processes, Lines
<1> SUFFICES ASSUME pc'[Service] \in Running
             PROVE  ServiceAgrees'
  BY DEF ServiceAgrees
<1>1. \A q \in Processes \ {Service} : pc'[q] = "down"
  BY <1>0 DEF Landing, OneAtATime, Running, Appending
<1>a. pc[Service] \in Running =>
        /\ Stored(db) \subseteq Lined \cup damaged
        /\ Lined \subseteq Stored(db) \cup {hand}
        /\ ~unconfirmed => Lined \subseteq Stored(db)
        /\ ~unconfirmed \/ pc[Service] = "insert" => AtTheEnd(Service)
  BY DEF Agreed, ServiceAgrees
<1>u. /\ pc[Service] \in {"insert", "retry"} => unconfirmed
      /\ pc[Service] \in {"down", "idle", "tail"} \cup Starting => ~unconfirmed
  BY DEF Agreed, UnconfirmedIsInHand
<1>2. ASSUME Quiet
      PROVE  ServiceAgrees'
  <2>1. /\ Stored(db)' = Stored(db) /\ Lined' \subseteq Lined /\ Lined \subseteq Lined' \cup damaged'
        /\ damaged \subseteq damaged' /\ pc' = pc /\ tip' = tip /\ hand' = hand
        /\ unconfirmed' = unconfirmed
        /\ \A end \in Nat : Verified(sidecar', end) \subseteq Verified(sidecar, end)
    BY <1>2 DEF Quiet
  <2>2. AtTheEnd(Service) => AtTheEnd(Service)'
    BY <1>0, <2>1 DEF AtTheEnd, Tips
  <2> QED
    BY <1>a, <2>1, <2>2 DEF ServiceAgrees
<1>3. ASSUME FinishRecovery(Service)
      PROVE  ServiceAgrees'
  <2>1. /\ pc[Service] = "checkpoint" /\ sidecar' = sidecar /\ damaged' = damaged
        /\ tip' = tip /\ hand' = hand /\ unconfirmed' = unconfirmed
        /\ db' = WithCheckpoint(Service)
    BY <1>3 DEF FinishRecovery, files, loop
  <2>2. Stored(db)' = Stored(db) /\ Lined' = Lined
    BY <1>0, <2>1, CheckpointFacts DEF Stored, Lined, Typed
  <2>3. /\ Stored(db) \subseteq Lined \cup damaged /\ Lined \subseteq Stored(db)
        /\ AtTheEnd(Service)
    BY <1>0, <2>1 DEF Agreed, RecoveriesAgree, RecoveryAgrees
  <2>4. AtTheEnd(Service)'
    BY <2>1, <2>3 DEF AtTheEnd
  <2> QED
    BY <2>1, <2>2, <2>3, <2>4 DEF ServiceAgrees
<1>4. ASSUME Scan(Service) \/ CommitReplay(Service) \/ Backfill(Service)
      PROVE  FALSE
  BY <1>0, <1>4 DEF Scan, CommitReplay, Backfill, Goto, Running, Appending
<1>5. ASSUME NEW q \in Processes \ {Service}, RecoveryStep(q)
      PROVE  FALSE
  <2>1. ASSUME Scan(q)
        PROVE  FALSE
    BY <1>0, <1>1, <2>1 DEF Scan, Goto
  <2>2. ASSUME CommitReplay(q) \/ Backfill(q)
        PROVE  FALSE
    BY <1>0, <1>1, <2>2 DEF CommitReplay, Backfill, Goto
  <2>3. ASSUME FinishRecovery(q)
        PROVE  FALSE
    BY <1>0, <2>3 DEF FinishRecovery, Goto, Agreed, Landing, OneAtATime, Running, Appending
  <2> QED
    BY <1>5, <2>1, <2>2, <2>3 DEF RecoveryStep
<1>g. ASSUME NEW ps \in SUBSET Processes, Gone(ps)
      PROVE  Service \notin ps /\ pc'[Service] = pc[Service]
  BY <1>0, <1>g DEF Gone, Running, Appending
<1>6. ASSUME NEW q \in Processes, RecoveryFails(q) \/ ProcessDies(q)
      PROVE  FALSE
  <2>1. Gone({q}) /\ pc[q] # "down"
    BY <1>6 DEF RecoveryFails, ProcessDies, Starting
  <2>2. q # Service /\ pc[Service] # "down"
    BY <1>g, <2>1 DEF Running, Appending
  <2> QED
    BY <1>0, <2>1, <2>2 DEF Agreed, Landing, OneAtATime
<1>7. ASSUME StopService \/ PowerCut
      PROVE  FALSE
  BY <1>0, <1>g, <1>7 DEF StopService, PowerCut
<1>8. ASSUME ReplaceDatabase
      PROVE  FALSE
  BY <1>0, <1>8 DEF ReplaceDatabase, Running, Appending
<1>9. ASSUME LineRots \/ TakeSnapshot \/ UNCHANGED vars
      PROVE  ServiceAgrees'
  BY <1>2, <1>9, QuietSteps
<1>10. ASSUME NEW r \in Reads, <<r>> \in Seq(Reads), sidecar' \in Interrupted(sidecar, <<r>>)
       PROVE  Lined \subseteq Lined' /\ Lined' \subseteq Lined \cup {r}
  <2>1. /\ \A i \in 1..Len(sidecar) : sidecar'[i] = sidecar[i]
        /\ Len(sidecar) <= Len(sidecar')
        /\ Verified(sidecar', 0) \subseteq Verified(sidecar, 0) \cup ToSet(<<r>>)
    BY <1>0, <1>10, InterruptedFacts
  <2>2. ToSet(<<r>>) = {r}
    BY DEF ToSet
  <2> QED
    BY <1>0, <2>1, <2>2 DEF Lined, Verified
<1>11. ASSUME TakeRead
       PROVE  ServiceAgrees'
  <2>1. /\ pc[Service] = "idle" /\ pc'[Service] = "write"
        /\ sidecar' = sidecar /\ damaged' = damaged /\ db' = db /\ tip' = tip
        /\ unconfirmed' = unconfirmed
    BY <1>0, <1>11 DEF TakeRead, Goto, files, stores
  <2>2. Stored(db)' = Stored(db) /\ Lined' = Lined /\ (AtTheEnd(Service) => AtTheEnd(Service)')
    BY <2>1 DEF Stored, Lined, AtTheEnd
  <2> QED
    BY <1>a, <1>u, <2>1, <2>2 DEF ServiceAgrees, Running
<1>12. ASSUME SetAside
       PROVE  ServiceAgrees'
  <2>1. /\ pc[Service] = "write" /\ pc'[Service] = "idle" /\ ~Storable(hand)
        /\ sidecar' = sidecar /\ damaged' = damaged /\ tip' = tip /\ unconfirmed' = unconfirmed
        /\ db'.rows = db.rows
    BY <1>0, <1>12 DEF SetAside, Goto, files, Databases
  <2>2. Stored(db)' = Stored(db) /\ Lined' = Lined /\ (AtTheEnd(Service) => AtTheEnd(Service)')
    BY <2>1 DEF Stored, Lined, AtTheEnd
  <2>3. ~unconfirmed
    BY <2>1 DEF Agreed, UnconfirmedIsInHand
  <2> QED
    BY <1>a, <2>1, <2>2, <2>3 DEF ServiceAgrees, Running, Appending
<1>13. ASSUME WriteLine
       PROVE  ServiceAgrees'
  <2>1. /\ pc[Service] = "write" /\ pc'[Service] = "insert" /\ hand' = hand
        /\ sidecar' = Append(sidecar, hand) /\ damaged' = damaged /\ db' = db /\ unconfirmed'
        /\ tip'[Service].end = Len(sidecar')
    BY <1>0, <1>13 DEF WriteLine, Goto, stores, loop
  <2>2. hand \in Reads
    BY <1>0, <2>1 DEF Typed, HandIsARead, Appending
  <2>3. /\ Len(sidecar') = Len(sidecar) + 1 /\ sidecar'[Len(sidecar) + 1] = hand
        /\ \A i \in 1..Len(sidecar) : sidecar'[i] = sidecar[i]
    BY <1>0, <2>1, <2>2, AppendProperties
  <2>4. Lined' = Lined \cup {hand}
    BY <1>0, <2>2, <2>3 DEF Lined, Verified
  <2>5. AtTheEnd(Service)'
    BY <1>0, <2>1 DEF AtTheEnd, Verified
  <2> QED
    BY <1>a, <2>1, <2>4, <2>5 DEF ServiceAgrees, Running, Appending, Stored
<1>14. ASSUME WriteFails
       PROVE  ServiceAgrees'
  <2>1. /\ pc[Service] = "write" /\ pc'[Service] = "retry" /\ hand' = hand
        /\ sidecar' \in Interrupted(sidecar, <<hand>>) /\ damaged' = damaged /\ db' = db
        /\ unconfirmed'
    BY <1>0, <1>14 DEF WriteFails, Goto, stores, loop
  <2>2. hand \in Reads /\ <<hand>> \in Seq(Reads)
    BY <1>0, <2>1 DEF Typed, HandIsARead, Appending
  <2>3. Lined \subseteq Lined' /\ Lined' \subseteq Lined \cup {hand}
    BY <1>10, <2>1, <2>2
  <2> QED
    BY <1>a, <2>1, <2>3 DEF ServiceAgrees, Running, Appending, Stored
<1>15. ASSUME InsertRow
       PROVE  ServiceAgrees'
  <2>1. /\ pc[Service] = "insert" /\ pc'[Service] = "tail" /\ hand' = hand
        /\ sidecar' = sidecar /\ damaged' = damaged /\ tip' = tip
        /\ db'.rows = Append(db.rows, hand)
    BY <1>0, <1>15 DEF InsertRow, Goto, files, loop, Databases
  <2>2. hand \in Reads /\ db.rows \in Seq(Reads)
    BY <1>0, <2>1 DEF Typed, HandIsARead, Appending, Databases
  <2>3. Stored(db)' = Stored(db) \cup {hand}
    BY <2>1, <2>2, MembersAfterAppend DEF Stored
  <2>4. hand \in Lined \cup damaged
    <3>1. hand \in VerifiedUpTo(sidecar, synced) \cup damaged
      BY <1>0, <2>1 DEF Kept, HandIsSafe, Safe
    <3> QED
      BY <1>0, <3>1, FileSplits DEF Lined
  <2>5. Lined' = Lined /\ (AtTheEnd(Service) => AtTheEnd(Service)')
    BY <2>1 DEF Lined, AtTheEnd
  <2> QED
    BY <1>a, <2>1, <2>3, <2>4, <2>5 DEF ServiceAgrees, Running, Appending
<1>16. ASSUME InsertFails \/ Retry
       PROVE  ServiceAgrees'
  <2>1. /\ pc[Service] \in {"insert", "retry"} /\ pc'[Service] \in {"retry", "write"}
        /\ hand' = hand /\ unconfirmed' = unconfirmed
        /\ sidecar' = sidecar /\ damaged' = damaged /\ tip' = tip /\ db' = db
    BY <1>0, <1>16 DEF InsertFails, Retry, Goto, files, stores, loop
  <2>2. Lined' = Lined /\ Stored(db)' = Stored(db)
    BY <2>1 DEF Lined, Stored
  <2> QED
    BY <1>a, <1>u, <2>1, <2>2 DEF ServiceAgrees, Running, Appending
<1>17. ASSUME Acknowledge
       PROVE  ServiceAgrees'
  <2>1. /\ pc[Service] = "tail" /\ pc'[Service] = "idle" /\ unconfirmed' = unconfirmed
        /\ sidecar' = sidecar /\ damaged' = damaged /\ tip' = tip
        /\ db' = db \/ db' = WithCheckpoint(Service)
    BY <1>0, <1>17 DEF Acknowledge, Goto, files
  <2>2. /\ Lined' = Lined /\ Stored(db)' = Stored(db)
        /\ AtTheEnd(Service) => AtTheEnd(Service)'
    BY <1>0, <2>1, CheckpointFacts DEF Lined, Stored, AtTheEnd, Typed
  <2> QED
    BY <1>a, <1>u, <2>1, <2>2 DEF ServiceAgrees, Running, Appending
<1> QED
  BY <1>3, <1>4, <1>5, <1>6, <1>7, <1>8, <1>9, <1>11, <1>12, <1>13, <1>14, <1>15, <1>16, <1>17
  DEF Next, RecoveryStep, ReadPath

(* Every step keeps all of it.                                             *)
LEMMA AgreedStep ==
    ASSUME ~RecoverMayRunBesideService, RecoverySettlesTheFile, Agreed, [Next]_vars
    PROVE  Agreed'
<1>1. Landing' /\ Kept'
  BY LandingStep DEF Agreed, Landing
<1>2. CheckpointsAreSettled' /\ CheckpointClaim'
  BY <1>1, ClaimStep
<1>3. TipsAreSettled'
  BY <1>1, TipsStep
<1>4. UnconfirmedIsInHand' /\ HandIsNew'
  BY UnconfirmedStep, NewHandStep
<1>5. RecoveriesAgree'
  BY <1>1, RecoveriesStep DEF RecoveriesAgree
<1>6. ServiceAgrees'
  BY <1>1, ServiceStep
<1> QED
  BY <1>1, <1>2, <1>3, <1>4, <1>5, <1>6 DEF Agreed

(* After a start that trusted a checkpoint, or any other, each row has its *)
(* line and each line its row, but for the read in hand.                   *)
THEOREM CopiesStayTogether ==
    ASSUME ~RecoverMayRunBesideService, RecoverySettlesTheFile
    PROVE  Spec => []CopiesAgree
<1>1. Init => Agreed
  BY AgreedInit
<1>2. Agreed /\ [Next]_vars => Agreed'
  BY AgreedStep
<1>3. Agreed => CopiesAgree
  BY DEF Agreed, ServiceAgrees, CopiesAgree, Lined
<1> QED
  BY <1>1, <1>2, <1>3, PTL DEF Spec

(* A checkpoint that would be trusted tells the truth, in the database and *)
(* in the snapshot.                                                        *)
THEOREM CheckpointsAreTrue ==
    ASSUME ~RecoverMayRunBesideService, RecoverySettlesTheFile
    PROVE  Spec => []CheckpointClaim
<1>1. Init => Agreed
  BY AgreedInit
<1>2. Agreed /\ [Next]_vars => Agreed'
  BY AgreedStep
<1>3. Agreed => CheckpointClaim
  BY DEF Agreed
<1> QED
  BY <1>1, <1>2, <1>3, PTL DEF Spec

(* A running service has every read it ever counted as persisted, whatever *)
(* it was restored from.                                                   *)
THEOREM NothingAcknowledgedIsMissing ==
    ASSUME ~RecoverMayRunBesideService, RecoverySettlesTheFile
    PROVE  Spec => []AcknowledgedComesBack
<1>1. Init => Agreed
  BY AgreedInit
<1>2. Agreed /\ [Next]_vars => Agreed'
  BY AgreedStep
<1>3. Agreed => AcknowledgedComesBack
  <2> SUFFICES ASSUME Agreed, pc[Service] \in Running
               PROVE  acknowledged \ damaged \subseteq Stored(db)
    BY DEF AcknowledgedComesBack
  <2>1. /\ sidecar \in Seq(Lines) /\ synced \in Nat /\ synced <= Len(sidecar)
        /\ acknowledged \subseteq VerifiedUpTo(sidecar, synced) \cup damaged
    BY LenProperties DEF Agreed, Landing, Kept, Typed, TypeOK, AcknowledgedIsSafe, Safe
  <2>2. VerifiedUpTo(sidecar, synced) \subseteq Lined
    BY <2>1, FileSplits DEF Lined
  <2>3. Lined \subseteq Stored(db) \cup {hand} /\ hand \notin acknowledged
    BY DEF Agreed, ServiceAgrees, HandIsNew
  <2> QED
    BY <2>1, <2>2, <2>3
<1> QED
  BY <1>1, <1>2, <1>3, PTL DEF Spec
=============================================================================
