---------------------------- MODULE SerialProofs ----------------------------
(***************************************************************************)
(* What TLAPS proves of the serial reader's provider, for every number of  *)
(* reports, every bound on the wire and the reads of the port, and         *)
(* whatever disturbs it: that its events keep what ReaderLink promises,    *)
(* that every tag report that arrives on an open port is sent on, in the   *)
(* order the module made them, once, and that a connection is announced    *)
(* only when the module streams because of it, with every setting          *)
(* accepted.                                                               *)
(***************************************************************************)
EXTENDS SerialReader, SequenceTheorems, WellFoundedInduction, TLAPS

(* The events of a turn come in one order: the connection, its power, the  *)
(* reads by number, the faults, the sign of life and the loss.             *)
Rank == [connected |-> 1, power |-> 2, read |-> 3, faults |-> 4, alive |-> 5,
         disconnected |-> 6]

Before(a, b) == Rank[a[1]] < Rank[b[1]] \/ (a[1] = "read" /\ b[1] = "read" /\ a[2] < b[2])

InOrder(events) == \A i, j \in 1..Len(events) : i < j => Before(events[i], events[j])

(* The frames on the wire carry their reports in the order made.           *)
InSequence(frames) == \A i, j \in 1..Len(frames) :
    i < j /\ frames[i].kind = "report" /\ frames[j].kind = "report"
        => frames[i].number < frames[j].number

Pending(name) == <<name, 0>> \in Range(out)

ReadsIn(events) == {event[2] : event \in {e \in Range(events) : e[1] = "read"}}

NewestOf(reads) == IF reads = <<>> THEN 0 ELSE Last(reads)

(* Every report made is in one place: told, among the events to be sent,   *)
(* on the wire or dropped; and in the order made, from the newest told on. *)
Accounted(reads, events, frames, lost, made) ==
    /\ Range(reads) \cup ReadsIn(events) = (1..made) \ (lost \cup Reports(frames))
    /\ InOrder(events)
    /\ InSequence(frames)
    /\ Reports(frames) \subseteq 1..made
    /\ Reports(frames) \cap lost = {}
    /\ lost \subseteq 1..made
    /\ \A p \in ReadsIn(events) : NewestOf(reads) < p
    /\ \A r \in Reports(frames) : NewestOf(reads) < r /\ \A p \in ReadsIn(events) : p < r

ReportsInv == Accounted(told.reads, out, toHost, dropped, reader.reports)

(* What the consumer believes of the link, and what is still to be told,   *)
(* is what the thread knows of the connection.                             *)
LinkInv ==
    /\ port = "closed" => out = <<>>
    /\ port = "ending" => out = <<>> \/ Pending("disconnected")
    /\ port = "open" => ~Pending("disconnected")
    /\ port = "closed" \/ (port = "ending" /\ out = <<>>) => told.link = "down" /\ ~told.power
    /\ Pending("connected") => told.link = "down" /\ start.announced
    /\ told.link = "up" => start.announced
    /\ start.announced =>
          told.link = "up" \/ Pending("connected") \/ (port = "ending" /\ out = <<>>)
    /\ Pending("power") => ~told.power
    /\ told.power \/ Pending("power") => start.step > 6

(* A step awaited is one of the sequence.                                  *)
StartInv == start.progress = "waiting" => start.step <= 8

IInv == TypeOK /\ StartInv /\ ReportsInv /\ (port # "left" => LinkInv)
-----------------------------------------------------------------------------
(***************************************************************************)
(* Commands, frames and events.                                            *)
(***************************************************************************)
Requests == [command : Commands, own : BOOLEAN]

Answers == [kind : {"answer"}, to : Commands, own : BOOLEAN, ok : BOOLEAN, echoes : BOOLEAN]

LEMMA StepsFacts ==
    /\ Len(Steps) = 8
    /\ \A i \in 1..8 : Steps[i] \in Commands
    /\ Steps[1] \in Commands
    /\ \A i \in 1..8 : Steps[i] = "limits" => i = 6
<1>1. Len(Steps) = 8 /\ DOMAIN Steps = 1..8
  BY DEF Steps
<1>2. \A i \in 1..8 : Steps[i] \in Commands
  BY <1>1 DEF Commands, Range
<1>3. \A i \in 1..8 : Steps[i] = "limits" => i = 6
  BY DEF Steps
<1> QED
  BY <1>1, <1>2, <1>3

(* A frame is an answer, a report, or one of neither.                      *)
LEMMA FrameFacts ==
    ASSUME NEW f \in Frames
    PROVE  /\ f.kind \in {"answer", "report", "cycle", "odd"}
           /\ f.kind = "report" => f.number \in 1..MaxReports
           /\ f.kind = "answer" => f \in Answers
BY DEF Frames, Answers

LEMMA FrameTypes ==
    /\ Answers \subseteq Frames
    /\ \A n \in 1..MaxReports : [kind |-> "report", number |-> n] \in Frames
    /\ \A k \in {"cycle", "odd"} : [kind |-> k] \in Frames
    /\ \A c \in Commands, own, ok, echoes \in BOOLEAN :
          [kind |-> "answer", to |-> c, own |-> own, ok |-> ok, echoes |-> echoes] \in Answers
<1>1. \A c \in Commands, own, ok, echoes \in BOOLEAN :
          [kind |-> "answer", to |-> c, own |-> own, ok |-> ok, echoes |-> echoes] \in Answers
  BY Zenon DEF Answers
<1> QED
  BY <1>1 DEF Frames, Answers

LEMMA RequestTypes ==
    /\ \A c \in Commands, own \in BOOLEAN : [command |-> c, own |-> own] \in Requests
    /\ \A r \in Requests : r.command \in Commands /\ r.own \in BOOLEAN
<1>1. \A c \in Commands, own \in BOOLEAN : [command |-> c, own |-> own] \in Requests
  BY Zenon DEF Requests
<1>2. \A r \in Requests : r.command \in Commands /\ r.own \in BOOLEAN
  BY Zenon DEF Requests
<1> QED
  BY <1>1, <1>2

Names == {"connected", "power", "faults", "alive", "disconnected"}

LEMMA EventFacts ==
    /\ \A name \in Names : <<name, 0>> \in Events
    /\ \A n \in 1..MaxReports : <<"read", n>> \in Events
    /\ \A e \in Events : \/ e[1] = "read" /\ e[2] \in 1..MaxReports /\ e = <<"read", e[2]>>
                         \/ e[1] \in Names /\ e = <<e[1], 0>>
    /\ \A e \in Events : Rank[e[1]] \in 1..6
<1>1. \A e \in Events : \/ e[1] = "read" /\ e[2] \in 1..MaxReports /\ e = <<"read", e[2]>>
                        \/ e[1] \in Names /\ e = <<e[1], 0>>
  BY DEF Events, Names
<1>2. \A e \in Events : Rank[e[1]] \in 1..6
  BY <1>1 DEF Rank, Names
<1> QED
  BY <1>1, <1>2 DEF Events, Names
-----------------------------------------------------------------------------
(***************************************************************************)
(* A turn.                                                                 *)
(***************************************************************************)
TurnTypes ==
    [step : 1..9, progress : {"waiting", "started", "refused"}, sent : Seq(Requests),
     power : BOOLEAN, reads : Seq(1..MaxReports), heard : BOOLEAN, faults : BOOLEAN]

LEMMA TurnUpdates ==
    ASSUME NEW t \in TurnTypes
    PROVE  /\ [t EXCEPT !.progress = "refused"] \in TurnTypes
           /\ \A b \in BOOLEAN : [t EXCEPT !.power = b] \in TurnTypes
           /\ \A s \in 1..9 : [t EXCEPT !.step = s, !.progress = "started"] \in TurnTypes
           /\ \A s \in 1..9, q \in Seq(Requests) :
                 [t EXCEPT !.step = s, !.progress = "waiting", !.sent = q] \in TurnTypes
           /\ \A r \in Seq(1..MaxReports) : [t EXCEPT !.reads = r] \in TurnTypes
           /\ [t EXCEPT !.heard = TRUE] \in TurnTypes /\ [t EXCEPT !.faults = TRUE] \in TurnTypes
BY Zenon DEF TurnTypes

LEMMA TurnValues ==
    ASSUME NEW t \in TurnTypes
    PROVE  /\ LET u == [t EXCEPT !.progress = "refused"] IN
                u.progress = "refused" /\ u.step = t.step
                /\ u.power = t.power /\ u.reads = t.reads
           /\ \A b : LET u == [t EXCEPT !.power = b] IN
                u.step = t.step /\ u.power = b /\ u.reads = t.reads /\ u.sent = t.sent
           /\ \A s : LET u == [t EXCEPT !.step = s, !.progress = "started"] IN
                u.progress = "started" /\ u.step = s /\ u.power = t.power /\ u.reads = t.reads
           /\ \A s, q : LET u == [t EXCEPT !.step = s, !.progress = "waiting", !.sent = q] IN
                u.progress = "waiting" /\ u.step = s /\ u.power = t.power /\ u.reads = t.reads
           /\ \A r : LET u == [t EXCEPT !.reads = r] IN
                u.progress = t.progress /\ u.step = t.step
                /\ u.power = t.power /\ u.reads = r
           /\ LET u == [t EXCEPT !.heard = TRUE] IN
                u.progress = t.progress /\ u.step = t.step
                /\ u.power = t.power /\ u.reads = t.reads
           /\ LET u == [t EXCEPT !.faults = TRUE] IN
                u.progress = t.progress /\ u.step = t.step
                /\ u.power = t.power /\ u.reads = t.reads
BY DEF TurnTypes

LEMMA TurnFields ==
    ASSUME NEW t \in TurnTypes
    PROVE  /\ t.step \in 1..9 /\ t.progress \in {"waiting", "started", "refused"}
           /\ t.sent \in Seq(Requests) /\ t.power \in BOOLEAN /\ t.reads \in Seq(1..MaxReports)
           /\ t.heard \in BOOLEAN /\ t.faults \in BOOLEAN
BY Zenon DEF TurnTypes

(* A step behind is one step on, and changes nothing of the events but     *)
(* whether the start has been accepted.                                    *)
LEMMA AdvanceFacts ==
    ASSUME NEW t \in TurnTypes, t.step <= 8
    PROVE  /\ Advance(t) \in TurnTypes
           /\ Advance(t).step = t.step + 1
           /\ Advance(t).power = t.power /\ Advance(t).reads = t.reads
           /\ Advance(t).progress = "waiting" => t.step < 8
<1>1. CASE t.step = 8
  <2>1. Advance(t) = [t EXCEPT !.step = 9, !.progress = "started"]
    BY <1>1, StepsFacts, TurnFields DEF Advance, TurnTypes
  <2> DEFINE u == [t EXCEPT !.step = 9, !.progress = "started"]
  <2>2. u \in TurnTypes
    <3>1. 9 \in 1..9
      OBVIOUS
    <3> QED
      BY <3>1, TurnUpdates, Zenon
  <2>3. u.progress = "started" /\ u.step = 9 /\ u.power = t.power /\ u.reads = t.reads
    BY TurnValues
  <2> HIDE DEF u
  <2> QED
    BY <1>1, <2>1, <2>2, <2>3 DEF u
<1>2. CASE t.step # 8
  <2>1. Steps[t.step + 1] \in Commands
    BY <1>2, StepsFacts, TurnFields
  <2> DEFINE q == Append(t.sent, [command |-> Steps[t.step + 1], own |-> TRUE])
  <2>2. q \in Seq(Requests)
    BY ZenonT(60), <2>1, RequestTypes, TurnFields, AppendProperties
  <2>3. Advance(t) = [t EXCEPT !.step = t.step + 1, !.progress = "waiting", !.sent = q]
    BY <1>2, StepsFacts, TurnFields DEF Advance, TurnTypes
  <2> DEFINE u == [t EXCEPT !.step = t.step + 1, !.progress = "waiting", !.sent = q]
  <2>4. t.step + 1 \in 1..9
    BY SMTT(60), TurnFields
  <2>5. u \in TurnTypes
    BY <2>2, <2>4, TurnUpdates, Zenon
  <2>6. u.progress = "waiting" /\ u.step = t.step + 1 /\ u.power = t.power
          /\ u.reads = t.reads
    <3> HIDE DEF q
    <3> QED
      BY TurnValues
  <2>7. Advance(t) = u
    BY <2>3
  <2> HIDE DEF u, q
  <2> QED
    BY <1>2, <2>4, <2>5, <2>6, <2>7, TurnFields
<1> QED
  BY <1>1, <1>2

(* What one frame does to a turn: a step at most, whose power is told only *)
(* with the sixth behind, and a read exactly if it is a report.            *)
LEMMA HandleFacts ==
    ASSUME NEW t \in TurnTypes, NEW f \in Frames
    PROVE  /\ Handle(t, f) \in TurnTypes
           /\ Handle(t, f).step \in {t.step, t.step + 1}
           /\ Handle(t, f).power => t.power \/ (t.step = 6 /\ Handle(t, f).step = 7)
           /\ Handle(t, f).reads =
                 IF f.kind = "report" THEN Append(t.reads, f.number) ELSE t.reads
           /\ Handle(t, f).progress = "waiting" =>
                 Handle(t, f).step <= 8 \/ (t.progress = "waiting" /\ Handle(t, f).step = t.step)
<1>1. CASE Claims(t, f)
  <2>1. f.kind = "answer" /\ f.ok \in BOOLEAN /\ t.step <= 8
    BY <1>1, FrameFacts, StepsFacts DEF Claims, Answers
  <2>2. Handle(t, f) = Answer(t, f)
    BY <1>1 DEF Handle
  <2>3. CASE MustSucceed(Steps[t.step]) /\ ~f.ok
    <3> DEFINE u == [t EXCEPT !.progress = "refused"]
    <3>1. Handle(t, f) = u
      BY <2>2, <2>3 DEF Answer
    <3>2. u \in TurnTypes
      BY TurnUpdates, Zenon
    <3>3. u.progress = "refused" /\ u.step = t.step /\ u.power = t.power /\ u.reads = t.reads
      BY TurnValues, Zenon
    <3> HIDE DEF u
    <3> QED
      BY <2>1, <3>1, <3>2, <3>3
  <2>4. CASE ~(MustSucceed(Steps[t.step]) /\ ~f.ok)
    <3> DEFINE b == t.power \/ (Steps[t.step] = "limits" /\ f.ok)
               u == [t EXCEPT !.power = b]
    <3>1. b \in BOOLEAN
      BY <2>1, TurnFields
    <3>2. u \in TurnTypes
      BY Zenon, <3>1, TurnUpdates
    <3>3. u.step = t.step /\ u.reads = t.reads /\ u.power = b
      BY TurnValues
    <3>4. Handle(t, f) = Advance(u)
      <4>1. [t EXCEPT !.power = @ \/ (Steps[t.step] = "limits" /\ f.ok)] = u
        BY DEF TurnTypes
      <4> QED
        BY <2>2, <2>4, <4>1 DEF Answer
    <3>5. b => t.power \/ t.step = 6
      BY <2>1, StepsFacts, TurnFields
    <3> HIDE DEF u, b
    <3> QED
      BY SMTT(60), <2>1, <3>2, <3>3, <3>4, <3>5, AdvanceFacts, TurnFields
  <2> QED
    BY <2>3, <2>4
<1>2. CASE ~Claims(t, f)
  <2>1. Handle(t, f) = Decode(t, f)
    BY <1>2 DEF Handle
  <2>2. CASE f.kind = "report"
    <3>1. Append(t.reads, f.number) \in Seq(1..MaxReports)
      BY <2>2, FrameFacts, TurnFields, AppendProperties
    <3> DEFINE u == [t EXCEPT !.reads = Append(t.reads, f.number)]
    <3>2. Handle(t, f) = u
      BY <2>1, <2>2 DEF Decode
    <3>3. u \in TurnTypes
      BY <3>1, TurnUpdates, Zenon
    <3>4. u.progress = t.progress /\ u.step = t.step /\ u.power = t.power
            /\ u.reads = Append(t.reads, f.number)
      BY TurnValues
    <3> HIDE DEF u
    <3> QED
      BY <2>2, <3>2, <3>3, <3>4
  <2>3. CASE f.kind # "report"
    <3> DEFINE u == [t EXCEPT !.heard = TRUE]
               w == [t EXCEPT !.faults = TRUE]
    <3>1. Handle(t, f) \in {u, w}
      BY <2>1, <2>3 DEF Decode
    <3>2. u \in TurnTypes /\ w \in TurnTypes
      BY TurnUpdates, Zenon
    <3>3. /\ u.progress = t.progress /\ u.step = t.step /\ u.power = t.power
          /\ u.reads = t.reads
          /\ w.progress = t.progress /\ w.step = t.step /\ w.power = t.power
          /\ w.reads = t.reads
      BY TurnValues, Zenon
    <3> HIDE DEF u, w
    <3> QED
      BY <2>3, <3>1, <3>2, <3>3
  <2> QED
    BY <2>2, <2>3
<1> QED
  BY <1>1, <1>2

(* Counting up to n from 0 reaches every number on the way.                *)
LEMMA Counting ==
    ASSUME NEW n \in Nat, NEW S, 0 \in S, \A k \in 0..n : k < n /\ k \in S => k + 1 \in S
    PROVE  \A k \in 0..n : k \in S
<1> DEFINE Missed == {k \in 0..n : k \notin S}
<1>1. SUFFICES ASSUME Missed # {}
               PROVE  FALSE
  OBVIOUS
<1>2. Missed \in SUBSET Nat
  OBVIOUS
<1>3. PICK m \in Missed : \A u \in Missed : ~(<<u, m>> \in OpToRel(<, Nat))
  BY <1>1, <1>2, WFMin, NatLessThanWellFounded
<1>4. \A u \in Missed : ~(u < m)
  BY <1>2, <1>3 DEF OpToRel
<1>5. m \in 1..n
  <2>1. m \in 0..n /\ m # 0
    OBVIOUS
  <2> QED
    BY <2>1
<1>6. m - 1 \in 0..n /\ m - 1 < n /\ (m - 1) + 1 = m
  BY <1>5
<1>7. m - 1 \in S
  BY <1>4, <1>6
<1>8. m \in S
  BY <1>6, <1>7
<1> QED
  BY <1>3, <1>8

(* The turns after each of the first n frames.                             *)
TurnsOf(turn, n) ==
    turn = [i \in 0..n |-> IF i = 0 THEN NewTurn ELSE Handle(turn[i - 1], toHost[i])]

LEMMA TurnsExist ==
    ASSUME NEW n \in Nat
    PROVE  \E turn : TurnsOf(turn, n) /\ Turns(n) = turn[n]
<1> DEFINE S == {k \in 0..n : \E turn : TurnsOf(turn, k)}
<1>1. 0 \in S
  <2> DEFINE f == [i \in 0..0 |-> NewTurn]
  <2>1. f = [i \in 0..0 |-> IF i = 0 THEN NewTurn ELSE Handle(f[i - 1], toHost[i])]
    OBVIOUS
  <2>2. TurnsOf(f, 0)
    BY <2>1 DEF TurnsOf
  <2> HIDE DEF f
  <2> QED
    BY <2>2
<1>2. ASSUME NEW k \in 0..n, k < n, k \in S
      PROVE  k + 1 \in S
  <2>1. PICK f : TurnsOf(f, k)
    BY <1>2
  <2> DEFINE g == [i \in 0..(k + 1) |->
                      IF i <= k THEN f[i] ELSE Handle(f[k], toHost[k + 1])]
             h == [i \in 0..(k + 1) |->
                      IF i = 0 THEN NewTurn ELSE Handle(g[i - 1], toHost[i])]
  <2>2. ASSUME NEW i \in 0..(k + 1)
        PROVE  g[i] = h[i]
    <3>1. CASE i = 0
      BY <2>1, <3>1 DEF TurnsOf
    <3>2. CASE i \in 1..k
      <4>1. i - 1 \in 0..(k + 1) /\ i - 1 <= k
        BY <3>2
      <4>2. g[i - 1] = f[i - 1]
        BY <4>1
      <4>3. f[i] = Handle(f[i - 1], toHost[i])
        BY <2>1, <3>2 DEF TurnsOf
      <4> QED
        BY <3>2, <4>2, <4>3
    <3>3. CASE i = k + 1
      <4>1. k \in 0..(k + 1) /\ (k + 1) - 1 = k /\ ~(k + 1 <= k)
        OBVIOUS
      <4>2. g[k] = f[k]
        BY <4>1
      <4> QED
        BY <3>3, <4>1, <4>2
    <3> QED
      BY <3>1, <3>2, <3>3
  <2>3. g = h
    BY <2>2
  <2>4. TurnsOf(g, k + 1)
    BY <2>3 DEF TurnsOf
  <2> QED
    BY <1>2, <2>4
<1>3. n \in S
  <2> HIDE DEF S
  <2>1. \A k \in 0..n : k < n /\ k \in S => k + 1 \in S
    BY <1>2
  <2> QED
    BY <1>1, <2>1, Counting
<1> DEFINE g == CHOOSE turn : TurnsOf(turn, n)
<1>4. TurnsOf(g, n)
  BY <1>3
<1>5. Turns(n) = g[n]
  BY DEF Turns, TurnsOf
<1> QED
  BY <1>4, <1>5

(* The numbers of the reports of frames.                                   *)
LEMMA ReportsFacts ==
    ASSUME NEW frames \in Seq(Frames), NEW r
    PROVE  r \in Reports(frames) <=>
              \E i \in 1..Len(frames) : frames[i].kind = "report" /\ frames[i].number = r
BY DEF Reports, Range

(* Reads that are the reports of the first n frames, in their order.       *)
Brings(reads, n) ==
    /\ \A i \in 1..Len(reads) :
          \E j \in 1..n : toHost[j].kind = "report" /\ toHost[j].number = reads[i]
    /\ \A j \in 1..n : toHost[j].kind = "report" =>
          \E i \in 1..Len(reads) : reads[i] = toHost[j].number
    /\ \A i, j \in 1..Len(reads) : i < j => reads[i] < reads[j]

LEMMA BringsNext ==
    ASSUME TypeOK, InSequence(toHost), NEW n \in Nat, n < Len(toHost),
           NEW reads \in Seq(1..MaxReports), Brings(reads, n)
    PROVE  Brings(IF toHost[n + 1].kind = "report" THEN Append(reads, toHost[n + 1].number)
                  ELSE reads, n + 1)
<1>1. toHost \in Seq(Frames) /\ Len(toHost) \in Nat
  BY DEF TypeOK
<1>2. n + 1 \in 1..Len(toHost) /\ toHost[n + 1] \in Frames
  BY <1>1
<1>3. CASE toHost[n + 1].kind # "report"
  <2>1. \A j \in 1..(n + 1) : j \in 1..n \/ j = n + 1
    OBVIOUS
  <2> QED
    BY <1>3, <2>1 DEF Brings
<1>4. CASE toHost[n + 1].kind = "report"
  <2> DEFINE r == toHost[n + 1].number
             all == Append(reads, r)
  <2>1. r \in 1..MaxReports
    BY <1>2, <1>4, FrameFacts
  <2>2. /\ Len(all) = Len(reads) + 1 /\ Len(reads) \in Nat
        /\ \A i \in 1..Len(reads) : all[i] = reads[i]
        /\ all[Len(reads) + 1] = r
    BY <2>1, AppendProperties
  <2>3. ASSUME NEW i \in 1..Len(all)
        PROVE  \E j \in 1..(n + 1) : toHost[j].kind = "report" /\ toHost[j].number = all[i]
    BY <1>4, <2>2 DEF Brings
  <2>4. ASSUME NEW j \in 1..(n + 1), toHost[j].kind = "report"
        PROVE  \E i \in 1..Len(all) : all[i] = toHost[j].number
    <3>1. CASE j = n + 1
      BY <2>2, <3>1
    <3>2. CASE j # n + 1
      <4>1. PICK i \in 1..Len(reads) : reads[i] = toHost[j].number
        BY <2>4, <3>2 DEF Brings
      <4> QED
        BY <2>2, <4>1
    <3> QED
      BY <3>1, <3>2
  <2>5. ASSUME NEW i \in 1..Len(all), NEW j \in 1..Len(all), i < j
        PROVE  all[i] < all[j]
    <3>1. i \in 1..Len(reads) /\ all[i] = reads[i]
      BY <2>2, <2>5
    <3>2. CASE j = Len(reads) + 1
      <4>1. PICK k \in 1..n : toHost[k].kind = "report" /\ toHost[k].number = reads[i]
        BY <3>1 DEF Brings
      <4> QED
        BY <1>1, <1>2, <1>4, <2>2, <3>1, <3>2, <4>1 DEF InSequence
    <3>3. CASE j # Len(reads) + 1
      <4>1. j \in 1..Len(reads) /\ all[j] = reads[j]
        BY <2>2, <3>3
      <4> QED
        BY <2>5, <3>1, <4>1 DEF Brings
    <3> QED
      BY <3>2, <3>3
  <2> HIDE DEF all
  <2>6. Brings(all, n + 1)
    BY <2>3, <2>4, <2>5 DEF Brings
  <2> QED
    BY <1>4, <2>6 DEF all
<1> QED
  BY <1>3, <1>4

(* What the first n frames make of a turn: it goes on from where the start *)
(* stands, tells the power only where the sixth step falls in it, and its  *)
(* reads are the reports of those frames.                                  *)
TurnGood(t, n) ==
    /\ t \in TurnTypes
    /\ start.step <= t.step
    /\ t.power => start.step <= 6 /\ t.step > 6
    /\ t.progress = "waiting" => t.step <= 8
    /\ Brings(t.reads, n)

LEMMA TurnFacts ==
    ASSUME TypeOK, StartInv, InSequence(toHost), NEW n \in 0..Len(toHost)
    PROVE  TurnGood(Turns(n), n)
<1>1. toHost \in Seq(Frames) /\ Len(toHost) \in Nat /\ n \in Nat
  BY DEF TypeOK
<1>2. PICK turn : TurnsOf(turn, n) /\ Turns(n) = turn[n]
  BY <1>1, TurnsExist
<1> DEFINE S == {k \in 0..n : TurnGood(turn[k], k)}
<1>3. 0 \in S
  <2>1. turn[0] = NewTurn
    BY <1>1, <1>2 DEF TurnsOf
  <2>2. start.step \in 1..9 /\ start.progress \in {"waiting", "started", "refused"}
    BY StepsFacts DEF TypeOK
  <2>3. NewTurn \in TurnTypes
    <3>1. <<>> \in Seq(Requests) /\ <<>> \in Seq(1..MaxReports)
      OBVIOUS
    <3> QED
      BY <2>2, <3>1, Zenon DEF NewTurn, TurnTypes
  <2>4. NewTurn.progress = start.progress /\ NewTurn.step = start.step
          /\ NewTurn.power = FALSE /\ NewTurn.reads = <<>>
    BY DEF NewTurn
  <2>5. Brings(<<>>, 0)
    BY DEF Brings
  <2>6. TurnGood(NewTurn, 0)
    BY <2>2, <2>3, <2>4, <2>5 DEF TurnGood, StartInv
  <2> QED
    BY <1>1, <2>1, <2>6
<1>4. ASSUME NEW k \in 0..n, k < n, k \in S
      PROVE  k + 1 \in S
  <2> DEFINE t == turn[k]
             f == toHost[k + 1]
             u == Handle(t, f)
  <2>1. turn[k + 1] = u
    BY <1>1, <1>2, <1>4 DEF TurnsOf
  <2>2. f \in Frames /\ k \in Nat /\ k < Len(toHost)
    BY <1>1, <1>4
  <2>3. TurnGood(t, k)
    BY <1>4
  <2>4. t \in TurnTypes /\ t.step \in 1..9 /\ t.reads \in Seq(1..MaxReports)
    BY <2>3, TurnFields DEF TurnGood
  <2> HIDE DEF t, f
  <2>5. /\ u \in TurnTypes /\ u.step \in {t.step, t.step + 1}
        /\ u.power => t.power \/ (t.step = 6 /\ u.step = 7)
        /\ u.reads = IF f.kind = "report" THEN Append(t.reads, f.number) ELSE t.reads
        /\ u.progress = "waiting" => u.step <= 8 \/ (t.progress = "waiting" /\ u.step = t.step)
    BY <2>2, <2>4, HandleFacts
  <2>6. Brings(u.reads, k + 1)
    BY <2>2, <2>3, <2>4, <2>5, BringsNext DEF TurnGood, f
  <2> HIDE DEF u
  <2>7. start.step \in 1..9
    BY StepsFacts DEF TypeOK
  <2>8. TurnGood(u, k + 1)
    BY SMTT(60), <2>3, <2>4, <2>5, <2>6, <2>7 DEF TurnGood
  <2>9. TurnGood(turn[k + 1], k + 1)
    BY <2>1, <2>8
  <2> QED
    BY <1>4, <2>9
<1>5. n \in S
  <2> HIDE DEF S
  <2>1. \A k \in 0..n : k < n /\ k \in S => k + 1 \in S
    BY <1>4
  <2>2. \A k \in 0..n : k \in S
    BY <1>1, <1>3, <2>1, Counting, Zenon
  <2> QED
    BY <1>1, <2>2
<1> QED
  BY <1>2, <1>5
-----------------------------------------------------------------------------
(***************************************************************************)
(* The events of a turn, and sending them.                                 *)
(***************************************************************************)
LEMMA InRange ==
    ASSUME NEW S, NEW s \in Seq(S), NEW x
    PROVE  x \in Range(s) <=> \E i \in 1..Len(s) : s[i] = x
BY DEF Range

Only(events, rank) == \A i \in 1..Len(events) : Rank[events[i][1]] = rank

Upto(events, rank) == \A i \in 1..Len(events) : Rank[events[i][1]] <= rank

(* Events of one rank after events of lower ones.                          *)
LEMMA JoinFacts ==
    ASSUME NEW s \in Seq(Events), NEW t \in Seq(Events), NEW k \in 1..6, NEW l \in 1..6, k < l,
           InOrder(s), Upto(s, k), InOrder(t), Only(t, l)
    PROVE  /\ s \o t \in Seq(Events) /\ InOrder(s \o t) /\ Upto(s \o t, l)
           /\ Range(s \o t) = Range(s) \cup Range(t)
<1>1. /\ s \o t \in Seq(Events) /\ Len(s) \in Nat /\ Len(t) \in Nat
      /\ Len(s \o t) = Len(s) + Len(t)
      /\ \A i \in 1..(Len(s) + Len(t)) : (s \o t)[i] = IF i <= Len(s) THEN s[i] ELSE t[i - Len(s)]
  BY ConcatProperties
<1>2. Range(s \o t) = Range(s) \cup Range(t)
  BY RangeConcatenation
<1> DEFINE u == s \o t
<1>3. ASSUME NEW i \in 1..Len(u)
      PROVE  \/ i \in 1..Len(s) /\ u[i] = s[i] /\ Rank[u[i][1]] <= k
             \/ i - Len(s) \in 1..Len(t) /\ u[i] = t[i - Len(s)] /\ Rank[u[i][1]] = l
  <2>1. CASE i <= Len(s)
    BY <1>1, <2>1 DEF Upto
  <2>2. CASE ~(i <= Len(s))
    <3>1. i - Len(s) \in 1..Len(t)
      BY <1>1, <2>2
    <3> QED
      BY <1>1, <2>2, <3>1 DEF Only
  <2> QED
    BY <2>1, <2>2
<1>4. \A i \in 1..Len(u) : u[i] \in Events /\ Rank[u[i][1]] \in 1..6
  BY <1>1, ElementOfSeq, EventFacts
<1> HIDE DEF u
<1>5. Upto(u, l)
  <2> SUFFICES ASSUME NEW i \in 1..Len(u)
               PROVE  Rank[u[i][1]] <= l
    BY DEF Upto
  <2> DEFINE x == Rank[u[i][1]]
  <2>1. x \in 1..6 /\ (x <= k \/ x = l)
    BY <1>3, <1>4
  <2> HIDE DEF x
  <2>2. x <= l
    BY <2>1
  <2> QED
    BY <2>2 DEF x
<1>6. ASSUME NEW i \in 1..Len(u), NEW j \in 1..Len(u), i < j
      PROVE  Before(u[i], u[j])
  <2>1. CASE j \in 1..Len(s) /\ u[j] = s[j]
    <3>1. i \in 1..Len(s) /\ u[i] = s[i]
      BY <1>1, <1>3, <1>6, <2>1
    <3> QED
      BY <1>6, <2>1, <3>1 DEF InOrder
  <2>2. CASE j - Len(s) \in 1..Len(t) /\ u[j] = t[j - Len(s)] /\ Rank[u[j][1]] = l
    <3>1. CASE i \in 1..Len(s) /\ u[i] = s[i] /\ Rank[u[i][1]] <= k
      <4> DEFINE x == Rank[u[i][1]]
                 y == Rank[u[j][1]]
      <4>1. x \in 1..6 /\ x <= k /\ y = l
        BY <1>4, <2>2, <3>1
      <4> HIDE DEF x, y
      <4>2. x < y
        BY <4>1
      <4> QED
        BY <4>2 DEF Before, x, y
    <3>2. CASE i - Len(s) \in 1..Len(t) /\ u[i] = t[i - Len(s)]
      <4>1. i - Len(s) < j - Len(s)
        BY <1>1, <1>6
      <4> QED
        BY <2>2, <3>2, <4>1 DEF InOrder
    <3> QED
      BY <1>3, <3>1, <3>2
  <2> QED
    BY <1>3, <2>1, <2>2
<1>7. InOrder(u)
  BY <1>6 DEF InOrder
<1> QED
  BY <1>1, <1>2, <1>5, <1>7 DEF u

LEMMA IfFacts ==
    ASSUME NEW name \in Names, NEW c \in BOOLEAN
    PROVE  /\ If(c, name) \in Seq(Events) /\ InOrder(If(c, name))
           /\ Only(If(c, name), Rank[name])
           /\ \A e : e \in Range(If(c, name)) <=> c /\ e = <<name, 0>>
<1>1. <<name, 0>> \in Events
  BY EventFacts
<1>2. CASE c
  <2>1. If(c, name) = << <<name, 0>> >>
    BY <1>2 DEF If
  <2> DEFINE s == << <<name, 0>> >>
  <2>2. s \in Seq(Events) /\ Len(s) = 1 /\ s[1] = <<name, 0>>
    BY <1>1
  <2> HIDE DEF s
  <2>3. InOrder(s) /\ Only(s, Rank[name])
    BY <2>2 DEF InOrder, Only
  <2>4. \A e : e \in Range(s) <=> e = <<name, 0>>
    <3> TAKE e
    <3>1. e \in Range(s) <=> \E i \in 1..Len(s) : s[i] = e
      BY <2>2, InRange, Zenon
    <3>2. 1 \in 1..Len(s) /\ \A i \in 1..Len(s) : i = 1
      BY <2>2
    <3> QED
      BY <2>2, <3>1, <3>2
  <2> QED
    BY <1>2, <2>1, <2>2, <2>3, <2>4 DEF s
<1>3. CASE ~c
  <2>1. If(c, name) = <<>>
    BY <1>3 DEF If
  <2>2. <<>> \in Seq(Events) /\ InOrder(<<>>) /\ Only(<<>>, Rank[name])
    BY DEF InOrder, Only
  <2>3. \A e : ~(e \in Range(<<>>))
    BY DEF Range
  <2> QED
    BY <1>3, <2>1, <2>2, <2>3
<1> QED
  BY <1>2, <1>3

LEMMA ReadsFacts ==
    ASSUME NEW t \in TurnTypes, NEW n, Brings(t.reads, n)
    PROVE  /\ ReadsOf(t) \in Seq(Events) /\ InOrder(ReadsOf(t)) /\ Only(ReadsOf(t), 3)
           /\ \A e : e \in Range(ReadsOf(t)) <=>
                 \E i \in 1..Len(t.reads) : e = <<"read", t.reads[i]>>
<1> DEFINE r == t.reads
           s == ReadsOf(t)
<1>1. r \in Seq(1..MaxReports) /\ Len(r) \in Nat /\ DOMAIN r = 1..Len(r)
  BY TurnFields
<1>2. s = [i \in 1..Len(r) |-> <<"read", r[i]>>]
  BY <1>1 DEF ReadsOf
<1>3. \A i \in 1..Len(r) : r[i] \in 1..MaxReports /\ <<"read", r[i]>> \in Events
  <2>1. \A i \in 1..Len(r) : r[i] \in 1..MaxReports
    BY <1>1, ElementOfSeq
  <2> QED
    BY <2>1, EventFacts, Zenon
<1> HIDE DEF r, s
<1>4. s \in Seq(Events) /\ Len(s) = Len(r) /\ \A i \in 1..Len(r) : s[i] = <<"read", r[i]>>
  BY <1>1, <1>2, <1>3
<1>5. InOrder(s) /\ Only(s, 3)
  <2>1. \A i, j \in 1..Len(r) : i < j => r[i] < r[j]
    BY DEF Brings, r
  <2>2. Rank["read"] = 3
    BY DEF Rank
  <2>3. \A i \in 1..Len(s) : s[i][1] = "read" /\ s[i][2] = r[i]
    BY <1>4
  <2> QED
    BY <1>4, <2>1, <2>2, <2>3 DEF InOrder, Only, Before
<1>6. \A e : e \in Range(s) <=> \E i \in 1..Len(r) : e = <<"read", r[i]>>
  <2> TAKE e
  <2>1. e \in Range(s) <=> \E i \in 1..Len(s) : s[i] = e
    BY <1>4, InRange, Zenon
  <2> QED
    BY <1>4, <2>1
<1> QED
  BY <1>4, <1>5, <1>6 DEF r, s

(* What a turn sends, and that it comes in order.                          *)
LEMMA EventsFacts ==
    ASSUME TypeOK, NEW t \in TurnTypes, NEW n, Brings(t.reads, n), NEW lost \in BOOLEAN
    PROVE  /\ EventsOf(t, lost) \in Seq(Events) /\ InOrder(EventsOf(t, lost))
           /\ \A e : e \in Range(EventsOf(t, lost)) <=>
                 \/ Announces(t) /\ e = <<"connected", 0>>
                 \/ t.power /\ e = <<"power", 0>>
                 \/ \E i \in 1..Len(t.reads) : e = <<"read", t.reads[i]>>
                 \/ t.faults /\ e = <<"faults", 0>>
                 \/ t.heard /\ e = <<"alive", 0>>
                 \/ lost /\ e = <<"disconnected", 0>>
<1> DEFINE a == If(Announces(t), "connected")
           b == If(t.power, "power")
           c == ReadsOf(t)
           d == If(t.faults, "faults")
           e == If(t.heard, "alive")
           f == If(lost, "disconnected")
<1>1. Announces(t) \in BOOLEAN /\ t.power \in BOOLEAN /\ t.faults \in BOOLEAN
        /\ t.heard \in BOOLEAN
  BY TurnFields DEF Announces
<1>2. /\ Rank["connected"] = 1 /\ Rank["power"] = 2 /\ Rank["faults"] = 4
      /\ Rank["alive"] = 5 /\ Rank["disconnected"] = 6
  BY DEF Rank
<1>3. {"connected", "power", "faults", "alive", "disconnected"} \subseteq Names
  BY DEF Names
<1>4. /\ a \in Seq(Events) /\ InOrder(a) /\ Only(a, 1)
      /\ \A x : x \in Range(a) <=> Announces(t) /\ x = <<"connected", 0>>
  BY <1>1, <1>2, <1>3, IfFacts
<1>5. /\ b \in Seq(Events) /\ InOrder(b) /\ Only(b, 2)
      /\ \A x : x \in Range(b) <=> t.power /\ x = <<"power", 0>>
  BY <1>1, <1>2, <1>3, IfFacts
<1>6. /\ c \in Seq(Events) /\ InOrder(c) /\ Only(c, 3)
      /\ \A x : x \in Range(c) <=> \E i \in 1..Len(t.reads) : x = <<"read", t.reads[i]>>
  BY ReadsFacts
<1>7. /\ d \in Seq(Events) /\ InOrder(d) /\ Only(d, 4)
      /\ \A x : x \in Range(d) <=> t.faults /\ x = <<"faults", 0>>
  BY <1>1, <1>2, <1>3, IfFacts
<1>8. /\ e \in Seq(Events) /\ InOrder(e) /\ Only(e, 5)
      /\ \A x : x \in Range(e) <=> t.heard /\ x = <<"alive", 0>>
  BY <1>1, <1>2, <1>3, IfFacts
<1>9. /\ f \in Seq(Events) /\ InOrder(f) /\ Only(f, 6)
      /\ \A x : x \in Range(f) <=> lost /\ x = <<"disconnected", 0>>
  BY <1>1, <1>2, <1>3, IfFacts
<1>10. EventsOf(t, lost) = a \o b \o c \o d \o e \o f
  BY DEF EventsOf
<1> HIDE DEF a, b, c, d, e, f
<1> DEFINE ab == a \o b
           abc == ab \o c
           abcd == abc \o d
           abcde == abcd \o e
           all == abcde \o f
<1>11. Upto(a, 1)
  BY <1>4 DEF Only, Upto
<1>12. ab \in Seq(Events) /\ InOrder(ab) /\ Upto(ab, 2) /\ Range(ab) = Range(a) \cup Range(b)
  BY <1>4, <1>5, <1>11, JoinFacts
<1> HIDE DEF ab
<1>13. /\ abc \in Seq(Events) /\ InOrder(abc) /\ Upto(abc, 3)
       /\ Range(abc) = Range(ab) \cup Range(c)
  BY <1>6, <1>12, JoinFacts
<1> HIDE DEF abc
<1>14. /\ abcd \in Seq(Events) /\ InOrder(abcd) /\ Upto(abcd, 4)
       /\ Range(abcd) = Range(abc) \cup Range(d)
  BY <1>7, <1>13, JoinFacts
<1> HIDE DEF abcd
<1>15. /\ abcde \in Seq(Events) /\ InOrder(abcde) /\ Upto(abcde, 5)
       /\ Range(abcde) = Range(abcd) \cup Range(e)
  BY <1>8, <1>14, JoinFacts
<1> HIDE DEF abcde
<1>16. /\ all \in Seq(Events) /\ InOrder(all)
       /\ Range(all) = Range(abcde) \cup Range(f)
  BY <1>9, <1>15, JoinFacts
<1>17. EventsOf(t, lost) = all
  BY <1>10 DEF ab, abc, abcd, abcde
<1> HIDE DEF all
<1>18. \A x : x \in Range(all) <=>
          \/ x \in Range(a) \/ x \in Range(b) \/ x \in Range(c)
          \/ x \in Range(d) \/ x \in Range(e) \/ x \in Range(f)
  BY <1>12, <1>13, <1>14, <1>15, <1>16
<1> QED
  BY <1>4, <1>5, <1>6, <1>7, <1>8, <1>9, <1>16, <1>17, <1>18

(* Sending the first event of some leaves those that come after it.        *)
LEMMA TailFacts ==
    ASSUME NEW s \in Seq(Events), s # <<>>, InOrder(s)
    PROVE  /\ Head(s) \in Events /\ Tail(s) \in Seq(Events) /\ InOrder(Tail(s))
           /\ \A e : e \in Range(s) <=> e = Head(s) \/ e \in Range(Tail(s))
           /\ \A e \in Range(Tail(s)) : e \in Events /\ Before(Head(s), e)
           /\ Tail(s) = <<>> \/ \E e : e \in Range(Tail(s))
<1>1. /\ Head(s) \in Events /\ Head(s) = s[1]
      /\ Tail(s) \in Seq(Events) /\ Len(Tail(s)) = Len(s) - 1 /\ Len(s) \in Nat \ {0}
      /\ \A i \in 1..Len(Tail(s)) : Tail(s)[i] = s[i + 1]
  BY HeadTailProperties, EmptySeq
<1> DEFINE u == Tail(s)
<1> HIDE DEF u
<1>2. InOrder(u)
  <2> SUFFICES ASSUME NEW i \in 1..Len(u), NEW j \in 1..Len(u), i < j
               PROVE  Before(u[i], u[j])
    BY DEF InOrder
  <2>1. i + 1 \in 1..Len(s) /\ j + 1 \in 1..Len(s) /\ i + 1 < j + 1
    BY <1>1 DEF u
  <2> QED
    BY <1>1, <2>1 DEF InOrder, u
<1>3. ASSUME NEW e \in Range(u)
      PROVE  e \in Range(s) /\ e \in Events /\ Before(s[1], e)
  <2>1. PICK i \in 1..Len(u) : u[i] = e
    BY ZenonT(60), <1>1, InRange DEF u
  <2>2. 1 \in 1..Len(s) /\ i + 1 \in 1..Len(s) /\ 1 < i + 1 /\ s[i + 1] = e
    BY <1>1, <2>1 DEF u
  <2> QED
    BY <2>2, InRange, ElementOfSeq DEF InOrder
<1>4. ASSUME NEW e \in Range(s), e # s[1]
      PROVE  e \in Range(u)
  <2>1. PICK i \in 1..Len(s) : s[i] = e
    BY InRange
  <2>2. i - 1 \in 1..Len(u) /\ u[i - 1] = s[i]
    BY <1>1, <1>4, <2>1 DEF u
  <2> QED
    BY <1>1, <2>1, <2>2, InRange DEF u
<1>5. s[1] \in Range(s)
  BY <1>1, InRange
<1>6. u = <<>> \/ \E e : e \in Range(u)
  <2>1. u # <<>> => 1 \in 1..Len(u)
    BY <1>1, EmptySeq DEF u
  <2> QED
    BY <1>1, <2>1, InRange DEF u
<1> QED
  BY <1>1, <1>2, <1>3, <1>4, <1>5, <1>6 DEF u
-----------------------------------------------------------------------------
(***************************************************************************)
(* The wire: what taking frames from it, and adding them, does to reports. *)
(***************************************************************************)

(* The first frames are taken.                                             *)
LEMMA SplitFacts ==
    ASSUME NEW frames \in Seq(Frames), NEW n \in 0..Len(frames)
    PROVE  LET first == SubSeq(frames, 1, n)
               rest == SubSeq(frames, n + 1, Len(frames)) IN
           /\ rest \in Seq(Frames) /\ Len(rest) <= Len(frames)
           /\ first \in Seq(Frames) /\ Len(first) = n
           /\ \A i \in 1..n : first[i] = frames[i]
           /\ Reports(frames) = Reports(first) \cup Reports(rest)
           /\ InSequence(frames) => /\ InSequence(rest)
                                    /\ \A a \in Reports(first), b \in Reports(rest) : a < b
<1> DEFINE first == SubSeq(frames, 1, n)
           rest == SubSeq(frames, n + 1, Len(frames))
           len == Len(frames)
<1>1. len \in Nat /\ n \in 0..len /\ \A i \in 1..len : frames[i] \in Frames
  BY ElementOfSeq
<1>2. first \in Seq(Frames) /\ Len(first) = n /\ \A i \in 1..n : first[i] = frames[i]
  <2>1. \A i \in 1..n : frames[i] \in Frames
    BY <1>1
  <2>2. /\ first \in Seq(Frames) /\ Len(first) = IF 1 <= n THEN n - 1 + 1 ELSE 0
        /\ \A i \in 1..(n - 1 + 1) : first[i] = frames[1 + i - 1]
    BY <2>1, SubSeqProperties, 1 \in Int, n \in Int
  <2> QED
    BY <1>1, <2>2
<1>3. rest \in Seq(Frames) /\ Len(rest) = len - n /\ \A i \in 1..(len - n) : rest[i] = frames[n + i]
  <2>1. \A i \in (n + 1)..len : frames[i] \in Frames
    BY <1>1
  <2>2. /\ rest \in Seq(Frames)
        /\ Len(rest) = IF n + 1 <= len THEN len - (n + 1) + 1 ELSE 0
        /\ \A i \in 1..(len - (n + 1) + 1) : rest[i] = frames[(n + 1) + i - 1]
    BY <1>1, <2>1, SubSeqProperties, n + 1 \in Int, len \in Int
  <2> QED
    BY <1>1, <2>2
<1> HIDE DEF first, rest
<1>4. ASSUME NEW r
      PROVE  /\ r \in Reports(first) <=>
                   \E i \in 1..n : frames[i].kind = "report" /\ frames[i].number = r
             /\ r \in Reports(rest) <=>
                   \E i \in (n + 1)..len : frames[i].kind = "report" /\ frames[i].number = r
  <2>1. r \in Reports(first) <=>
                   \E i \in 1..n : frames[i].kind = "report" /\ frames[i].number = r
    BY <1>2, ReportsFacts
  <2>2. ASSUME r \in Reports(rest)
        PROVE  \E i \in (n + 1)..len : frames[i].kind = "report" /\ frames[i].number = r
    <3>1. PICK i \in 1..(len - n) : rest[i].kind = "report" /\ rest[i].number = r
      BY <1>3, <2>2, ReportsFacts
    <3>2. n + i \in (n + 1)..len
      BY <1>1
    <3> QED
      BY <1>3, <3>1, <3>2
  <2>3. ASSUME NEW i \in (n + 1)..len, frames[i].kind = "report" /\ frames[i].number = r
        PROVE  r \in Reports(rest)
    <3>1. i - n \in 1..(len - n) /\ n + (i - n) = i
      BY <1>1
    <3>2. rest[i - n] = frames[i]
      BY <1>3, <3>1
    <3> QED
      BY <1>3, <2>3, <3>1, <3>2, ReportsFacts
  <2> QED
    BY <2>1, <2>2, <2>3
<1>5. Reports(frames) = Reports(first) \cup Reports(rest)
  <2>1. ASSUME NEW r
        PROVE  r \in Reports(frames) <=> r \in Reports(first) \/ r \in Reports(rest)
    BY <1>1, <1>4, ReportsFacts
  <2> QED
    BY <2>1
<1>6. ASSUME InSequence(frames)
      PROVE  InSequence(rest) /\ \A a \in Reports(first), b \in Reports(rest) : a < b
  <2>1. InSequence(rest)
    <3> SUFFICES ASSUME NEW i \in 1..Len(rest), NEW j \in 1..Len(rest), i < j,
                        rest[i].kind = "report", rest[j].kind = "report"
                 PROVE  rest[i].number < rest[j].number
      BY DEF InSequence
    <3>1. n + i \in 1..len /\ n + j \in 1..len /\ n + i < n + j
      BY <1>1, <1>3
    <3> QED
      BY <1>3, <1>6, <3>1 DEF InSequence
  <2>2. ASSUME NEW a \in Reports(first), NEW b \in Reports(rest)
        PROVE  a < b
    <3>1. PICK i \in 1..n : frames[i].kind = "report" /\ frames[i].number = a
      BY <1>4
    <3>2. PICK j \in (n + 1)..len : frames[j].kind = "report" /\ frames[j].number = b
      BY <1>4
    <3>3. i \in 1..len /\ j \in 1..len /\ i < j
      BY <1>1
    <3> QED
      BY <1>6, <3>1, <3>2, <3>3 DEF InSequence
  <2> QED
    BY <2>1, <2>2
<1> QED
  BY <1>1, <1>2, <1>3, <1>5, <1>6 DEF first, rest

(* A frame is added.                                                       *)
LEMMA AddedFacts ==
    ASSUME NEW frames \in Seq(Frames), NEW f \in Frames
    PROVE  /\ Append(frames, f) \in Seq(Frames) /\ Len(Append(frames, f)) = Len(frames) + 1
           /\ Reports(Append(frames, f)) =
                 Reports(frames) \cup (IF f.kind = "report" THEN {f.number} ELSE {})
           /\ InSequence(frames) /\ (f.kind = "report" => \A r \in Reports(frames) : r < f.number)
                 => InSequence(Append(frames, f))
<1> DEFINE u == Append(frames, f)
           len == Len(frames)
<1>1. /\ len \in Nat /\ u \in Seq(Frames) /\ Len(u) = len + 1
      /\ \A i \in 1..len : u[i] = frames[i]
      /\ u[len + 1] = f
  BY AppendProperties
<1> HIDE DEF u
<1>2. \A i \in 1..(len + 1) : i \in 1..len \/ i = len + 1
  BY <1>1
<1>3. Reports(u) = Reports(frames) \cup (IF f.kind = "report" THEN {f.number} ELSE {})
  <2>1. ASSUME NEW r
        PROVE  r \in Reports(u) <=> r \in Reports(frames) \/ (f.kind = "report" /\ r = f.number)
    <3>1. r \in Reports(u) <=> \E i \in 1..(len + 1) : u[i].kind = "report" /\ u[i].number = r
      BY <1>1, ReportsFacts
    <3>2. r \in Reports(frames) <=>
             \E i \in 1..len : frames[i].kind = "report" /\ frames[i].number = r
      BY ReportsFacts
    <3>3. len + 1 \in 1..(len + 1) /\ \A i \in 1..len : i \in 1..(len + 1)
      BY <1>1
    <3>4. r \in Reports(u) => r \in Reports(frames) \/ (f.kind = "report" /\ r = f.number)
      BY <1>1, <1>2, <3>1, <3>2
    <3>5. r \in Reports(frames) => r \in Reports(u)
      BY <1>1, <3>1, <3>2, <3>3
    <3>6. f.kind = "report" /\ r = f.number => r \in Reports(u)
      BY <1>1, <3>1, <3>3
    <3> QED
      BY <3>4, <3>5, <3>6
  <2> QED
    BY <2>1
<1>4. ASSUME InSequence(frames), f.kind = "report" => \A r \in Reports(frames) : r < f.number
      PROVE  InSequence(u)
  <2> SUFFICES ASSUME NEW i \in 1..Len(u), NEW j \in 1..Len(u), i < j,
                      u[i].kind = "report", u[j].kind = "report"
               PROVE  u[i].number < u[j].number
    BY DEF InSequence
  <2>1. i \in 1..len /\ u[i] = frames[i]
    BY <1>1
  <2>2. CASE j = len + 1
    BY <1>1, <1>4, <2>1, <2>2, ReportsFacts
  <2>3. CASE j # len + 1
    <3>1. j \in 1..len /\ u[j] = frames[j]
      BY <1>1, <2>3
    <3> QED
      BY <1>4, <2>1, <3>1 DEF InSequence
  <2> QED
    BY <2>2, <2>3
<1> QED
  BY <1>1, <1>3, <1>4 DEF u

(* A frame is lost.                                                        *)
LEMMA RemovedFacts ==
    ASSUME NEW frames \in Seq(Frames), NEW i \in 1..Len(frames), InSequence(frames)
    PROVE  LET u == RemoveAt(frames, i)
               gone == Reports(<<frames[i]>>) IN
           /\ u \in Seq(Frames) /\ Len(u) <= Len(frames) /\ InSequence(u)
           /\ Reports(frames) = Reports(u) \cup gone
           /\ Reports(u) \cap gone = {}
<1> DEFINE u == RemoveAt(frames, i)
           gone == Reports(<<frames[i]>>)
           len == Len(frames)
<1>1. len \in Nat /\ \A k \in 1..len : frames[k] \in Frames
  BY ElementOfSeq
<1>2. /\ u \in Seq(Frames) /\ Len(u) = len - 1
      /\ \A k \in 1..(len - 1) : u[k] = IF k < i THEN frames[k] ELSE frames[k + 1]
  <2> DEFINE a == SubSeq(frames, 1, i - 1)
             b == SubSeq(frames, i + 1, len)
  <2>1. u = a \o b
    BY DEF RemoveAt
  <2>2. a \in Seq(Frames) /\ Len(a) = i - 1 /\ \A k \in 1..(i - 1) : a[k] = frames[k]
    <3>1. i - 1 \in 0..len
      BY <1>1
    <3> QED
      BY <3>1, SplitFacts
  <2>3. b \in Seq(Frames) /\ Len(b) = len - i /\ \A k \in 1..(len - i) : b[k] = frames[i + k]
    <3>1. \A k \in (i + 1)..len : frames[k] \in Frames
      BY <1>1
    <3>2. /\ b \in Seq(Frames)
          /\ Len(b) = IF i + 1 <= len THEN len - (i + 1) + 1 ELSE 0
          /\ \A k \in 1..(len - (i + 1) + 1) : b[k] = frames[(i + 1) + k - 1]
      BY <1>1, <3>1, SubSeqProperties, i + 1 \in Int, len \in Int
    <3> QED
      BY <1>1, <3>2
  <2> HIDE DEF a, b
  <2>4. /\ a \o b \in Seq(Frames) /\ Len(a \o b) = len - 1
        /\ \A k \in 1..(len - 1) : (a \o b)[k] = IF k <= i - 1 THEN a[k] ELSE b[k - (i - 1)]
    <3>1. /\ a \o b \in Seq(Frames) /\ Len(a \o b) = Len(a) + Len(b)
          /\ \A k \in 1..(Len(a) + Len(b)) :
                (a \o b)[k] = IF k <= Len(a) THEN a[k] ELSE b[k - Len(a)]
      BY <2>2, <2>3, ConcatProperties
    <3>2. Len(a) + Len(b) = len - 1
      BY <1>1, <2>2, <2>3
    <3> QED
      BY <2>2, <3>1, <3>2
  <2>5. ASSUME NEW k \in 1..(len - 1)
        PROVE  (a \o b)[k] = IF k < i THEN frames[k] ELSE frames[k + 1]
    <3>1. CASE k < i
      <4>1. k \in 1..(i - 1) /\ k <= i - 1
        BY <3>1
      <4> QED
        BY <2>2, <2>4, <3>1, <4>1
    <3>2. CASE ~(k < i)
      <4>1. k - (i - 1) \in 1..(len - i) /\ ~(k <= i - 1) /\ i + (k - (i - 1)) = k + 1
        BY <1>1, <3>2
      <4> QED
        BY <2>3, <2>4, <3>2, <4>1
    <3> QED
      BY <3>1, <3>2
  <2> QED
    BY <2>1, <2>4, <2>5
<1>3. \A r : r \in gone <=> frames[i].kind = "report" /\ r = frames[i].number
  <2> DEFINE one == <<frames[i]>>
  <2>1. one \in Seq(Frames) /\ Len(one) = 1 /\ one[1] = frames[i]
    BY <1>1
  <2> HIDE DEF one
  <2>2. \A r : r \in Reports(one) <=> frames[i].kind = "report" /\ r = frames[i].number
    <3> TAKE r
    <3>1. r \in Reports(one) <=> \E k \in 1..Len(one) : one[k].kind = "report" /\ one[k].number = r
      BY <2>1, ReportsFacts
    <3>2. 1 \in 1..Len(one) /\ \A k \in 1..Len(one) : k = 1
      BY <2>1
    <3> QED
      BY <2>1, <3>1, <3>2
  <2> QED
    BY <2>2 DEF one
<1> HIDE DEF u, gone
<1>4. ASSUME NEW r
      PROVE  r \in Reports(u) <=>
                \E k \in 1..len : k # i /\ frames[k].kind = "report" /\ frames[k].number = r
  <2>1. ASSUME r \in Reports(u)
        PROVE  \E k \in 1..len : k # i /\ frames[k].kind = "report" /\ frames[k].number = r
    <3>1. PICK k \in 1..(len - 1) : u[k].kind = "report" /\ u[k].number = r
      BY <1>2, <2>1, ReportsFacts
    <3>2. CASE k < i
      BY <1>1, <1>2, <3>1, <3>2
    <3>3. CASE ~(k < i)
      <4>1. k + 1 \in 1..len /\ k + 1 # i
        BY <1>1, <3>3
      <4> QED
        BY <1>2, <3>1, <3>3, <4>1
    <3> QED
      BY <3>2, <3>3
  <2>2. ASSUME NEW k \in 1..len, k # i, frames[k].kind = "report", frames[k].number = r
        PROVE  r \in Reports(u)
    <3>1. CASE k < i
      <4>1. k \in 1..(len - 1) /\ u[k] = frames[k]
        BY <1>1, <1>2, <3>1
      <4> QED
        BY <1>2, <2>2, <4>1, ReportsFacts
    <3>2. CASE ~(k < i)
      <4>1. k - 1 \in 1..(len - 1) /\ ~(k - 1 < i) /\ (k - 1) + 1 = k
        BY <1>1, <2>2, <3>2
      <4>2. u[k - 1] = frames[k]
        BY <1>2, <4>1
      <4> QED
        BY <1>2, <2>2, <4>1, <4>2, ReportsFacts
    <3> QED
      BY <3>1, <3>2
  <2> QED
    BY <2>1, <2>2
<1>5. Reports(frames) = Reports(u) \cup gone
  <2>1. ASSUME NEW r
        PROVE  r \in Reports(frames) <=> r \in Reports(u) \/ r \in gone
    <3>1. r \in Reports(frames) <=>
             \E k \in 1..len : frames[k].kind = "report" /\ frames[k].number = r
      BY ReportsFacts
    <3> QED
      BY <1>3, <1>4, <3>1
  <2> QED
    BY <2>1
<1>6. Reports(u) \cap gone = {}
  <2> SUFFICES ASSUME NEW r \in Reports(u), r \in gone
               PROVE  FALSE
    OBVIOUS
  <2>1. PICK k \in 1..len : k # i /\ frames[k].kind = "report" /\ frames[k].number = r
    BY <1>4
  <2>2. frames[i].kind = "report" /\ frames[i].number = r
    BY <1>3
  <2>3. r < r
    BY <1>1, <2>1, <2>2 DEF InSequence
  <2>4. r \in 1..MaxReports
    BY <1>1, <2>2, FrameFacts
  <2> QED
    BY <2>3, <2>4, Bounds
<1>7. InSequence(u)
  <2> SUFFICES ASSUME NEW j \in 1..Len(u), NEW k \in 1..Len(u), j < k,
                      u[j].kind = "report", u[k].kind = "report"
               PROVE  u[j].number < u[k].number
    BY DEF InSequence
  <2> DEFINE old(l) == IF l < i THEN l ELSE l + 1
  <2>1. /\ old(j) \in 1..len /\ old(k) \in 1..len /\ old(j) < old(k)
        /\ u[j] = frames[old(j)] /\ u[k] = frames[old(k)]
    BY <1>1, <1>2
  <2> HIDE DEF old
  <2> QED
    BY <2>1 DEF InSequence
<1> QED
  BY <1>1, <1>2, <1>5, <1>6, <1>7 DEF u, gone

(* A connection ends: answers are disowned, and nothing else changes.      *)
LEMMA DisownedFacts ==
    ASSUME NEW frames \in Seq(Frames)
    PROVE  /\ Disowned(frames) \in Seq(Frames) /\ Len(Disowned(frames)) = Len(frames)
           /\ Reports(Disowned(frames)) = Reports(frames)
           /\ InSequence(frames) => InSequence(Disowned(frames))
<1> DEFINE after(f) == IF "own" \in DOMAIN f THEN [f EXCEPT !.own = FALSE] ELSE f
           u == Disowned(frames)
<1>1. ASSUME NEW f \in Frames
      PROVE  /\ after(f) \in Frames /\ after(f).kind = f.kind
             /\ f.kind = "report" => after(f).number = f.number
  <2>1. CASE f.kind = "answer"
    <3>1. f \in Answers
      BY <2>1, FrameFacts
    <3> DEFINE g == [f EXCEPT !.own = FALSE]
    <3>2. g \in Answers
      BY <3>1, Zenon DEF Answers
    <3>3. g.kind = f.kind /\ after(f) = g
      BY <3>1 DEF Answers
    <3> QED
      BY <2>1, <3>2, <3>3, FrameTypes
  <2>2. CASE f.kind # "answer"
    <3>1. "own" \notin DOMAIN f
      BY <2>2 DEF Frames
    <3> QED
      BY <3>1
  <2> QED
    BY <2>1, <2>2
<1>2. \A i \in 1..Len(frames) : frames[i] \in Frames
  BY ElementOfSeq
<1>3. u = [i \in 1..Len(frames) |-> after(frames[i])]
  BY DEF Disowned
<1> HIDE DEF after, u
<1>4. u \in Seq(Frames) /\ Len(u) = Len(frames) /\ \A i \in 1..Len(frames) : u[i] = after(frames[i])
  BY <1>1, <1>2, <1>3
<1>5. \A i \in 1..Len(frames) :
        u[i].kind = frames[i].kind /\ (frames[i].kind = "report" => u[i].number = frames[i].number)
  BY <1>1, <1>2, <1>4
<1>6. Reports(u) = Reports(frames)
  <2>1. ASSUME NEW r
        PROVE  r \in Reports(u) <=> r \in Reports(frames)
    BY <1>4, <1>5, ReportsFacts
  <2> QED
    BY <2>1
<1>7. InSequence(frames) => InSequence(u)
  BY <1>4, <1>5 DEF InSequence
<1> QED
  BY <1>4, <1>6, <1>7 DEF u

LEMMA DisownedRequests ==
    ASSUME NEW commands \in Seq(Requests)
    PROVE  Disowned(commands) \in Seq(Requests)
<1>1. \A r \in Requests : [r EXCEPT !.own = FALSE] \in Requests
  BY Zenon DEF Requests
<1>2. \A r \in Requests : "own" \in DOMAIN r
  BY DEF Requests
<1>3. \A i \in 1..Len(commands) : commands[i] \in Requests
  BY ElementOfSeq
<1>4. Disowned(commands) = [i \in 1..Len(commands) |-> [commands[i] EXCEPT !.own = FALSE]]
  BY <1>2, <1>3 DEF Disowned
<1> QED
  BY <1>1, <1>3, <1>4
-----------------------------------------------------------------------------
(***************************************************************************)
(* What the actions do to the variables.                                   *)
(***************************************************************************)
Starts == [step : 1..9, progress : {"waiting", "started", "refused"}, announced : BOOLEAN]

Tolds == [link : {"up", "down"}, power : BOOLEAN, reads : Seq(1..MaxReports),
          failures : 0..MostFailures]

LEMMA StartsFacts ==
    /\ \A t \in TurnTypes, b \in BOOLEAN :
          [step |-> t.step, progress |-> t.progress, announced |-> b] \in Starts
    /\ NotStarted \in Starts
    /\ \A s \in Starts : s.announced \in BOOLEAN /\ s.step \in 1..9
<1>1. \A t \in TurnTypes, b \in BOOLEAN :
          [step |-> t.step, progress |-> t.progress, announced |-> b] \in Starts
  BY TurnFields, Zenon DEF Starts
<1>2. NotStarted \in Starts
  <2>1. 1 \in 1..9
    OBVIOUS
  <2> QED
    BY <2>1, Zenon DEF Starts, NotStarted
<1>3. \A s \in Starts : s.announced \in BOOLEAN /\ s.step \in 1..9
  BY Zenon DEF Starts
<1> QED
  BY <1>1, <1>2, <1>3

LEMMA ToldFacts ==
    ASSUME NEW t \in Tolds
    PROVE  /\ t.link \in {"up", "down"} /\ t.power \in BOOLEAN /\ t.reads \in Seq(1..MaxReports)
           /\ t.failures \in 0..MostFailures
           /\ [t EXCEPT !.link = "up"] \in Tolds
           /\ [t EXCEPT !.power = TRUE] \in Tolds
           /\ \A r \in Seq(1..MaxReports) : [t EXCEPT !.reads = r] \in Tolds
           /\ \A f \in 0..MostFailures :
                 [t EXCEPT !.link = "down", !.power = FALSE, !.failures = f] \in Tolds
BY Zenon DEF Tolds

(* A turn is taken in: what the read brought, and past the deadline what   *)
(* becomes of the step awaited.                                            *)
LEMMA TakenIn ==
    ASSUME TypeOK, StartInv, InSequence(toHost), Read \/ TimeOut \/ PortEnds
    PROVE  /\ Taking
           /\ disturbances' \in 0..MaxDisturbances
           /\ \E n \in 0..Len(toHost), t \in TurnTypes, ended, reached \in BOOLEAN :
                 TurnGood(t, n) /\ Conclude(t, n, ended, reached)
<1>1. disturbances' \in 0..MaxDisturbances
  <2>1. Calm \/ Disturb("late") \/ Disturb("ended")
    BY Zenon DEF Read, TimeOut, PortEnds
  <2> QED
    BY SMTT(60), <2>1, Bounds DEF TypeOK, Calm, Disturb
<1>2. Chunks \subseteq 0..Len(toHost)
  BY SMTT(60), Bounds DEF Chunks, TypeOK
<1>3. \A n \in Chunks : TurnGood(Turns(n), n)
  BY <1>2, TurnFacts
<1>4. CASE Read
  <2>1. PICK n \in Chunks : Conclude(Turns(n), n, FALSE, TRUE)
    BY <1>4 DEF Read
  <2> QED
    BY <1>1, <1>2, <1>3, <1>4, <2>1 DEF TurnGood, Read
<1>5. CASE PortEnds
  <2>1. PICK n \in Chunks, reached \in BOOLEAN : Conclude(Turns(n), n, TRUE, reached)
    BY <1>5 DEF PortEnds
  <2> QED
    BY <1>1, <1>2, <1>3, <1>5, <2>1 DEF TurnGood, PortEnds
<1>6. CASE TimeOut
  <2>1. PICK n \in Chunks : LET t == Turns(n) IN
                              /\ t.step = start.step /\ t.progress = "waiting"
                              /\ Conclude(PastDeadline(t), n, FALSE, TRUE)
    BY <1>6 DEF TimeOut
  <2> DEFINE t == Turns(n)
             u == PastDeadline(t)
  <2>2. TurnGood(t, n) /\ t \in TurnTypes /\ t.step \in 1..8
    BY <1>2, <1>3, <2>1, TurnFields DEF TurnGood
  <2>3. t.progress = "waiting" /\ Conclude(u, n, FALSE, TRUE)
    BY <2>1
  <2> HIDE DEF t
  <2>4. /\ u \in TurnTypes /\ u.step \in {t.step, t.step + 1}
        /\ u.power = t.power /\ u.reads = t.reads
        /\ u.progress = "waiting" => u.step <= 8
    <3>1. CASE MustSucceed(Steps[t.step])
      <4> DEFINE w == [t EXCEPT !.progress = "refused"]
      <4>1. u = w
        BY <3>1 DEF PastDeadline
      <4>2. w \in TurnTypes
        BY <2>2, TurnUpdates, Zenon
      <4>3. w.progress = "refused" /\ w.step = t.step /\ w.power = t.power /\ w.reads = t.reads
        BY <2>2, TurnValues, Zenon
      <4> HIDE DEF w
      <4> QED
        BY <2>2, <4>1, <4>2, <4>3
    <3>2. CASE ~MustSucceed(Steps[t.step])
      <4>1. u = Advance(t)
        BY <3>2 DEF PastDeadline
      <4>2. t.step <= 8
        BY <2>2
      <4> QED
        BY <2>2, <4>1, <4>2, AdvanceFacts
    <3> QED
      BY <3>1, <3>2
  <2> HIDE DEF u
  <2>5. start.step \in 1..9
    BY StepsFacts DEF TypeOK
  <2>6. TurnGood(u, n)
    BY <2>2, <2>4, <2>5 DEF TurnGood
  <2>7. n \in 0..Len(toHost) /\ FALSE \in BOOLEAN /\ TRUE \in BOOLEAN
    BY <1>2
  <2> QED
    BY <1>1, <1>6, <2>3, <2>4, <2>6, <2>7 DEF TimeOut
<1> QED
  BY <1>4, <1>5, <1>6

(* The module's answer to the first command on its way to it.              *)
LEMMA ReplyFacts ==
    ASSUME TypeOK, toReader # <<>>, NEW ok \in BOOLEAN, NEW echoes \in BOOLEAN
    PROVE  \E f \in Answers :
              f.kind = "answer" /\ Reply(Head(toReader), ok, echoes) = Append(toHost, f)
<1> DEFINE r == Head(toReader)
           f == [kind |-> "answer", to |-> r.command, own |-> r.own, ok |-> ok, echoes |-> echoes]
<1>1. r.command \in Commands /\ r.own \in BOOLEAN
  <2>1. toReader \in Seq(Requests)
    BY DEF TypeOK, Requests
  <2>2. r \in Requests
    BY <2>1, HeadTailProperties
  <2> QED
    BY <2>2, RequestTypes
<1> HIDE DEF r
<1>2. f \in Answers
  BY <1>1, FrameTypes
<1>3. f.kind = "answer" /\ Reply(r, ok, echoes) = Append(toHost, f)
  BY DEF Reply
<1> QED
  BY <1>2, <1>3 DEF r

(* The module and the line: they leave the host alone, and put on the wire *)
(* or take from it one frame at most, a report with the next number.       *)
LEMMA ModuleFacts ==
    ASSUME TypeOK, InSequence(toHost), Module
    PROVE  /\ UNCHANGED host
           /\ reader'.reports \in {reader.reports, reader.reports + 1}
           /\ reader'.reports \in 0..MaxReports
           /\ \/ UNCHANGED <<toHost, dropped>> /\ reader'.reports = reader.reports
              \/ /\ Len(toHost) < Wire
                 /\ \E f \in Frames :
                       /\ toHost' = Append(toHost, f)
                       /\ \/ f.kind = "answer" /\ dropped' = dropped
                             /\ reader'.reports = reader.reports
                          \/ f.kind = "report" /\ f.number = reader.reports + 1
                             /\ dropped' = dropped /\ reader'.reports = reader.reports + 1
                          \/ f.kind \in {"cycle", "odd"}
                             /\ dropped' = dropped \cup {reader.reports + 1}
                             /\ reader'.reports = reader.reports + 1
              \/ /\ reader'.reports = reader.reports
                 /\ \E i \in 1..Len(toHost) :
                       /\ toHost' = RemoveAt(toHost, i)
                       /\ dropped' = dropped \cup Reports(<<toHost[i]>>)
<1>1. /\ reader.reports \in 0..MaxReports
      /\ [reader EXCEPT !.stream = "off", !.settings = {}, !.cycled = TRUE].reports = reader.reports
      /\ [reader EXCEPT !.reports = @ + 1].reports = reader.reports + 1
      /\ \A r : Obeyed(r).reports = reader.reports
  BY DEF TypeOK, Obeyed
<1>2. CASE ReaderAnswers
  <2>1. CASE toHost' = Reply(Head(toReader), TRUE, TRUE)
    <3>1. PICK f \in Answers : f.kind = "answer" /\ toHost' = Append(toHost, f)
      BY <1>2, <2>1, ReplyFacts DEF ReaderAnswers
    <3>2. f \in Frames
      BY FrameTypes
    <3>3. Len(toHost) < Wire /\ dropped' = dropped /\ UNCHANGED host
            /\ reader'.reports = reader.reports
      BY <1>1, <1>2 DEF ReaderAnswers
    <3> QED
      BY <1>1, <3>1, <3>2, <3>3
  <2>2. CASE UNCHANGED toHost
    BY <1>1, <1>2, <2>2 DEF ReaderAnswers
  <2>3. CASE \E echoes \in BOOLEAN : toHost' = Reply(Head(toReader), FALSE, echoes)
    <3>1. PICK f \in Answers : f.kind = "answer" /\ toHost' = Append(toHost, f)
      BY <1>2, <2>3, ReplyFacts DEF ReaderAnswers
    <3>2. f \in Frames
      BY FrameTypes
    <3>3. Len(toHost) < Wire /\ dropped' = dropped /\ UNCHANGED host
            /\ reader'.reports = reader.reports
      BY <1>1, <1>2 DEF ReaderAnswers
    <3> QED
      BY <1>1, <3>1, <3>2, <3>3
  <2> QED
    BY <1>2, <2>1, <2>2, <2>3 DEF ReaderAnswers
<1>3. CASE ReaderDeclines
  <2>1. CASE UNCHANGED toHost
    BY <1>1, <1>3, <2>1 DEF ReaderDeclines
  <2>2. CASE \E echoes \in BOOLEAN : toHost' = Reply(Head(toReader), FALSE, echoes)
    <3>1. PICK f \in Answers : f.kind = "answer" /\ toHost' = Append(toHost, f)
      BY <1>3, <2>2, ReplyFacts DEF ReaderDeclines
    <3>2. f \in Frames
      BY FrameTypes
    <3>3. Len(toHost) < Wire /\ dropped' = dropped /\ UNCHANGED host
            /\ reader'.reports = reader.reports
      BY <1>1, <1>3 DEF ReaderDeclines
    <3> QED
      BY <1>1, <3>1, <3>2, <3>3
  <2> QED
    BY <1>3, <2>1, <2>2 DEF ReaderDeclines
<1>4. CASE ReaderReports
  <2>1. Len(toHost) < Wire /\ UNCHANGED host /\ reader'.reports = reader.reports + 1
          /\ reader.reports + 1 \in 1..MaxReports
    BY SMTT(60), <1>1, <1>4, Bounds DEF ReaderReports
  <2>2. CASE /\ dropped' = dropped
             /\ toHost' = Append(toHost, [kind |-> "report", number |-> reader.reports + 1])
    <3> DEFINE f == [kind |-> "report", number |-> reader.reports + 1]
    <3>1. f \in Frames /\ f.kind = "report" /\ f.number = reader.reports + 1
      BY <2>1, FrameTypes
    <3> HIDE DEF f
    <3> QED
      BY <2>1, <2>2, <3>1 DEF f
  <2>3. CASE /\ \E kind \in {"cycle", "odd"} : toHost' = Append(toHost, [kind |-> kind])
             /\ dropped' = dropped \cup {reader.reports + 1}
    <3>1. PICK kind \in {"cycle", "odd"} : toHost' = Append(toHost, [kind |-> kind])
      BY <2>3
    <3> DEFINE f == [kind |-> kind]
    <3>2. f \in Frames /\ f.kind \in {"cycle", "odd"}
      BY FrameTypes
    <3> HIDE DEF f
    <3> QED
      BY <2>1, <2>3, <3>1, <3>2 DEF f
  <2> QED
    BY <1>4, <2>2, <2>3 DEF ReaderReports
<1>5. CASE Garbled
  BY <1>1, <1>5 DEF Garbled
<1>6. CASE PowerCycled
  BY <1>1, <1>6 DEF PowerCycled
<1> QED
  BY <1>2, <1>3, <1>4, <1>5, <1>6 DEF Module
-----------------------------------------------------------------------------
(***************************************************************************)
(* Types.                                                                  *)
(***************************************************************************)
Readers == [stream : {"off", "own", "stale"}, settings : SUBSET Settings, cycled : BOOLEAN,
            reports : 0..MaxReports]

LEMMA ReadersFacts ==
    ASSUME NEW r \in Readers
    PROVE  /\ r.stream \in {"off", "own", "stale"} /\ r.settings \in SUBSET Settings
           /\ r.reports \in 0..MaxReports
           /\ [r EXCEPT !.cycled = FALSE] \in Readers
           /\ [r EXCEPT !.stream = "off", !.settings = {}, !.cycled = TRUE] \in Readers
           /\ \A s \in {"off", "own", "stale"}, c \in SUBSET Settings :
                 [r EXCEPT !.stream = s, !.settings = c] \in Readers
           /\ \A n \in 0..MaxReports : [r EXCEPT !.reports = n] \in Readers
<1>1. /\ r.stream \in {"off", "own", "stale"} /\ r.settings \in SUBSET Settings
      /\ r.reports \in 0..MaxReports
      /\ [r EXCEPT !.cycled = FALSE] \in Readers
      /\ \A s \in {"off", "own", "stale"}, c \in SUBSET Settings :
            [r EXCEPT !.stream = s, !.settings = c] \in Readers
      /\ \A n \in 0..MaxReports : [r EXCEPT !.reports = n] \in Readers
  BY Zenon DEF Readers
<1>2. [r EXCEPT !.stream = "off", !.settings = {}, !.cycled = TRUE] \in Readers
  <2>1. {} \in SUBSET Settings
    OBVIOUS
  <2> QED
    BY <2>1, Zenon DEF Readers
<1> QED
  BY <1>1, <1>2

(* TypeOK, with the sets of this module.                                   *)
LEMMA TypesAre ==
    TypeOK <=>
        /\ port \in {"closed", "open", "ending", "left"} /\ start \in Starts
        /\ out \in Seq(Events) /\ toReader \in Seq(Requests)
        /\ toHost \in Seq(Frames) /\ Len(toHost) <= Wire
        /\ reader \in Readers /\ backlog \in 0..2 /\ told \in Tolds
        /\ dropped \subseteq 1..MaxReports /\ disturbances \in 0..MaxDisturbances
<1>1. Len(Steps) + 1 = 9
  BY StepsFacts
<1> QED
  BY <1>1, Zenon DEF TypeOK, Starts, Requests, Readers, Tolds

(* The thread and the consumer change these as they may.                   *)
LEMMA TypeStep ==
    ASSUME TypeOK, StartInv, ReportsInv, [Next]_vars
    PROVE  TypeOK' /\ StartInv'
<1>1. /\ port \in {"closed", "open", "ending", "left"} /\ start \in Starts
      /\ out \in Seq(Events) /\ toReader \in Seq(Requests)
      /\ toHost \in Seq(Frames) /\ Len(toHost) <= Wire
      /\ reader \in Readers /\ backlog \in 0..2 /\ told \in Tolds
      /\ dropped \subseteq 1..MaxReports /\ disturbances \in 0..MaxDisturbances
  BY SMTT(60), TypesAre
<1>2. InSequence(toHost) /\ InOrder(out) /\ Reports(toHost) \subseteq 1..MaxReports
  <2>1. reader.reports \in 0..MaxReports
    BY Zenon, <1>1, ReadersFacts
  <2>2. Reports(toHost) \subseteq 1..reader.reports
    BY DEF ReportsInv, Accounted
  <2> QED
    BY SMTT(60), <2>1, <2>2, Bounds DEF ReportsInv, Accounted
<1> DEFINE Goal ==
        /\ port' \in {"closed", "open", "ending", "left"} /\ start' \in Starts
        /\ out' \in Seq(Events) /\ toReader' \in Seq(Requests)
        /\ toHost' \in Seq(Frames) /\ Len(toHost') <= Wire
        /\ reader' \in Readers /\ backlog' \in 0..2 /\ told' \in Tolds
        /\ dropped' \subseteq 1..MaxReports /\ disturbances' \in 0..MaxDisturbances
        /\ (start'.progress = "waiting" => start'.step <= 8)
<1>3. SUFFICES Goal
  <2>1. Len(Steps) + 1 = 9
    BY StepsFacts
  <2> QED
    BY <2>1, Zenon DEF TypeOK, Starts, Requests, Readers, Tolds, StartInv
<1>4. Calm => disturbances' \in 0..MaxDisturbances
  BY <1>1 DEF Calm
<1>5. \A kind : Disturb(kind) => disturbances' \in 0..MaxDisturbances
  BY <1>1, Bounds DEF Disturb
<1>6. [command |-> Steps[1], own |-> TRUE] \in Requests
  BY StepsFacts, RequestTypes, Zenon
<1>7. /\ NotStarted \in Starts
      /\ (NotStarted.progress = "waiting" => NotStarted.step <= 8)
  BY StartsFacts DEF NotStarted
<1>8. Len(toHost) \in Nat /\ Wire \in Nat
  BY <1>1, Bounds
<1>9. CASE Read \/ TimeOut \/ PortEnds
  <2>1. disturbances' \in 0..MaxDisturbances
    BY <1>2, <1>9, TakenIn
  <2>2. PICK n \in 0..Len(toHost), t \in TurnTypes, ended \in BOOLEAN, reached \in BOOLEAN :
           TurnGood(t, n) /\ Conclude(t, n, ended, reached)
    BY <1>2, <1>9, TakenIn
  <2> DEFINE b == start.announced \/ Announces(t)
             lost == ended \/ t.progress = "refused"
  <2>3. b \in BOOLEAN /\ lost \in BOOLEAN
    BY <1>1, StartsFacts DEF Announces
  <2>4. start' = [step |-> t.step, progress |-> t.progress, announced |-> b]
    BY <2>2 DEF Conclude
  <2>5. out' = EventsOf(t, lost)
    BY <2>2 DEF Conclude
  <2> HIDE DEF b, lost
  <2>6. start' \in Starts /\ (start'.progress = "waiting" => start'.step <= 8)
    BY <2>2, <2>3, <2>4, StartsFacts DEF TurnGood
  <2>7. out' \in Seq(Events)
    BY <2>2, <2>3, <2>5, EventsFacts DEF TurnGood
  <2>8. toHost' \in Seq(Frames) /\ Len(toHost') <= Wire
    <3>1. toHost' = SubSeq(toHost, n + 1, Len(toHost))
      BY <2>2 DEF Conclude
    <3>2. toHost' \in Seq(Frames) /\ Len(toHost') <= Len(toHost)
      BY <1>1, <3>1, SplitFacts
    <3>3. Len(toHost') \in Nat
      BY <3>2
    <3> QED
      BY <1>1, <1>8, <3>2, <3>3
  <2>9. toReader' \in Seq(Requests)
    <3>1. t.sent \in Seq(Requests)
      BY TurnFields
    <3>2. toReader \o t.sent \in Seq(Requests)
      BY <1>1, <3>1, ConcatProperties
    <3> QED
      BY <1>1, <2>2, <3>2 DEF Conclude
  <2>10. port' \in {"open", "ending"} /\ UNCHANGED <<reader, backlog, told, dropped>>
    BY <2>2 DEF Conclude
  <2> QED
    BY <1>1, <2>1, <2>6, <2>7, <2>8, <2>9, <2>10
<1>10. CASE Open
  <2>1. PICK n \in 0..Len(toHost) :
           /\ toHost' = SubSeq(toHost, n + 1, Len(toHost))
           /\ dropped' = dropped \cup Reports(SubSeq(toHost, 1, n))
    BY <1>10 DEF Open
  <2>2. toHost' \in Seq(Frames) /\ Len(toHost') <= Len(toHost)
          /\ Reports(SubSeq(toHost, 1, n)) \subseteq Reports(toHost)
    BY <1>1, <2>1, SplitFacts
  <2>3. Len(toHost') <= Wire /\ dropped' \subseteq 1..MaxReports
    <3>1. Len(toHost') \in Nat
      BY <2>2
    <3>2. Len(toHost') <= Wire
      BY <1>1, <1>8, <2>2, <3>1
    <3>3. dropped' \subseteq 1..MaxReports
      BY <1>1, <1>2, <2>1, <2>2, Zenon
    <3> QED
      BY <3>2, <3>3
  <2>4. toReader' \in Seq(Requests)
    BY SMTT(60), <1>1, <1>6, <1>10, AppendProperties DEF Open
  <2>5. backlog' \in 0..2
    BY SMTT(60), <1>1, <1>10 DEF Open
  <2>6. reader' \in Readers
    BY Zenon, <1>1, <1>10, ReadersFacts DEF Open
  <2>7. port' = "open" /\ start' = NotStarted /\ UNCHANGED <<out, told>> /\ Calm
    BY <1>10 DEF Open
  <2> QED
    BY <1>1, <1>4, <1>7, <2>2, <2>3, <2>4, <2>5, <2>6, <2>7
<1>11. CASE OpenFails
  <2>1. out' \in Seq(Events)
    BY <1>11, IfFacts DEF OpenFails, Names
  <2>2. /\ port' = "ending" /\ start' = NotStarted /\ Disturb("unopened")
        /\ UNCHANGED <<toReader, toHost, reader, backlog, told, dropped>>
    BY <1>11 DEF OpenFails
  <2> QED
    BY <1>1, <1>5, <1>7, <2>1, <2>2
<1>12. CASE Send
  <2>1. Head(out) \in Events /\ Tail(out) \in Seq(Events)
    BY <1>1, <1>12, HeadTailProperties DEF Send
  <2>2. told' \in Tolds
    <3>1. Failures \in 0..MostFailures
      <4>1. told.failures \in 0..MostFailures
        BY <1>1, ToldFacts
      <4> QED
        BY <4>1, Bounds DEF Failures
    <3>2. CASE Head(out)[1] = "read"
      <4>1. Head(out)[2] \in 1..MaxReports
        BY <2>1, <3>2, EventFacts DEF Names
      <4>2. Append(told.reads, Head(out)[2]) \in Seq(1..MaxReports)
        BY <1>1, <4>1, ToldFacts, AppendProperties
      <4>3. told' = [told EXCEPT !.reads = Append(told.reads, Head(out)[2])]
        BY <1>12, <3>2 DEF Send
      <4> QED
        BY <1>1, <4>2, <4>3, ToldFacts, Zenon
    <3>3. CASE Head(out)[1] = "disconnected"
      <4>1. told' = [told EXCEPT !.link = "down", !.power = FALSE, !.failures = Failures]
        BY <1>12, <3>3 DEF Send
      <4> QED
        BY <1>1, <3>1, <4>1, ToldFacts, Zenon
    <3>4. CASE Head(out)[1] \notin {"read", "disconnected"}
      <4>1. told' \in {[told EXCEPT !.link = "up"], [told EXCEPT !.power = TRUE], told}
        BY <1>12, <3>4 DEF Send
      <4> QED
        BY <1>1, <4>1, ToldFacts, Zenon
    <3> QED
      BY <3>2, <3>3, <3>4
  <2>3. /\ out' = Tail(out) /\ Calm
        /\ UNCHANGED <<port, start, toReader, toHost, reader, backlog, dropped>>
    BY <1>12 DEF Send
  <2> QED
    BY <1>1, <1>4, <2>1, <2>2, <2>3 DEF StartInv
<1>13. CASE BackOff
  <2>1. toReader' \in Seq(Requests) /\ toHost' \in Seq(Frames) /\ Len(toHost') = Len(toHost)
    BY SMTT(60), <1>1, <1>13, DisownedRequests, DisownedFacts DEF BackOff
  <2>2. reader' \in Readers
    <3> DEFINE s == IF reader.stream = "own" THEN "stale" ELSE reader.stream
    <3>1. s \in {"off", "own", "stale"} /\ {} \in SUBSET Settings
      BY Zenon, <1>1, ReadersFacts
    <3>2. reader' = [reader EXCEPT !.stream = s, !.settings = {}]
      BY <1>13 DEF BackOff
    <3> HIDE DEF s
    <3> QED
      BY ZenonT(60), <1>1, <3>1, <3>2, ReadersFacts
  <2>3. port' = "closed" /\ start' = NotStarted /\ Calm /\ UNCHANGED <<out, backlog, told, dropped>>
    BY <1>13 DEF BackOff
  <2> QED
    BY SMTT(60), <1>1, <1>4, <1>7, <2>1, <2>2, <2>3
<1>14. CASE ConsumerLeaves
  BY <1>1, <1>4, <1>14 DEF ConsumerLeaves, StartInv
<1>15. CASE Module
  <2>1. port' = port /\ start' = start /\ out' = out /\ backlog' = backlog /\ told' = told
    BY <1>2, <1>15, ModuleFacts DEF host
  <2>2. toHost' \in Seq(Frames) /\ Len(toHost') <= Wire /\ dropped' \subseteq 1..MaxReports
    <3>1. CASE UNCHANGED <<toHost, dropped>>
      BY <1>1, <3>1
    <3>2. CASE /\ Len(toHost) < Wire /\ \E f \in Frames : toHost' = Append(toHost, f)
               /\ dropped' = dropped \/ (/\ dropped' = dropped \cup {reader.reports + 1}
                                         /\ reader.reports + 1 \in 0..MaxReports)
      <4>1. toHost' \in Seq(Frames) /\ Len(toHost') = Len(toHost) + 1
        BY <1>1, <3>2, AddedFacts
      <4>2. Len(toHost') <= Wire
        BY <1>8, <3>2, <4>1
      <4>3. reader.reports \in 0..MaxReports
        BY <1>1, ReadersFacts
      <4> QED
        <5>1. dropped' \subseteq 1..MaxReports
          <6>1. CASE dropped' = dropped
            BY <1>1, <6>1
          <6>2. CASE dropped' # dropped
            <7>1. reader.reports + 1 \in 1..MaxReports
              BY <3>2, <4>3, <6>2
            <7> QED
              BY <1>1, <3>2, <6>2, <7>1, Zenon
          <6> QED
            BY <6>1, <6>2
        <5> QED
          BY <4>1, <4>2, <5>1
    <3>3. CASE \E i \in 1..Len(toHost) :
                 /\ toHost' = RemoveAt(toHost, i)
                 /\ dropped' = dropped \cup Reports(<<toHost[i]>>)
      <4>1. PICK i \in 1..Len(toHost) :
                 /\ toHost' = RemoveAt(toHost, i)
                 /\ dropped' = dropped \cup Reports(<<toHost[i]>>)
        BY <3>3
      <4>2. toHost' \in Seq(Frames) /\ Len(toHost') <= Len(toHost)
              /\ Reports(<<toHost[i]>>) \subseteq Reports(toHost)
        BY <1>1, <1>2, <4>1, RemovedFacts
      <4>3. Len(toHost') \in Nat
        BY <4>2
      <4> QED
        BY <1>1, <1>2, <1>8, <4>1, <4>2, <4>3
    <3> QED
      <4>1. /\ reader'.reports \in {reader.reports, reader.reports + 1}
            /\ reader'.reports \in 0..MaxReports
            /\ \/ UNCHANGED <<toHost, dropped>>
               \/ /\ Len(toHost) < Wire
                  /\ \E f \in Frames :
                        /\ toHost' = Append(toHost, f)
                        /\ dropped' = dropped \/ (/\ dropped' = dropped \cup {reader.reports + 1}
                                                  /\ reader'.reports = reader.reports + 1)
               \/ \E i \in 1..Len(toHost) :
                        /\ toHost' = RemoveAt(toHost, i)
                        /\ dropped' = dropped \cup Reports(<<toHost[i]>>)
        BY <1>2, <1>15, ModuleFacts, Zenon
      <4> QED
        BY <3>1, <3>2, <3>3, <4>1
  <2>3. disturbances' \in 0..MaxDisturbances
    <3>1. Calm \/ \E kind : Disturb(kind)
      BY <1>15, Zenon DEF Module, ReaderAnswers, ReaderDeclines, ReaderReports, Garbled,
         PowerCycled
    <3> QED
      BY <1>4, <1>5, <3>1
  <2>4. toReader # <<>> => Head(toReader) \in Requests /\ Tail(toReader) \in Seq(Requests)
    BY <1>1, HeadTailProperties
  <2>5. toReader' \in Seq(Requests)
    <3>1. \/ toReader' = toReader \/ toReader' = <<>>
          \/ toReader # <<>> /\ toReader' = Tail(toReader)
      BY <1>15, Zenon DEF Module, ReaderAnswers, ReaderDeclines, ReaderReports, Garbled,
         PowerCycled
    <3>2. <<>> \in Seq(Requests)
      OBVIOUS
    <3> QED
      BY <1>1, <2>4, <3>1, <3>2
  <2>6. ASSUME NEW r \in Requests
        PROVE  Obeyed(r) \in Readers
    <3> DEFINE s == CASE r.command = "stop" -> "off"
                      [] r.command = "start" -> (IF r.own THEN "own" ELSE "stale")
                      [] OTHER -> reader.stream
               c == IF r.own THEN reader.settings \cup ({r.command} \cap Settings)
                    ELSE reader.settings
    <3>1. s \in {"off", "own", "stale"} /\ c \in SUBSET Settings
      BY Zenon, <1>1, ReadersFacts
    <3>2. Obeyed(r) = [reader EXCEPT !.stream = s, !.settings = c]
      BY DEF Obeyed
    <3> HIDE DEF s, c
    <3> QED
      <4>1. [reader EXCEPT !.stream = s, !.settings = c] \in Readers
        BY <1>1, <3>1, ReadersFacts, ZenonT(60)
      <4> QED
        BY <3>2, <4>1
  <2>7. reader' \in Readers
    <3>1. CASE ReaderAnswers
      BY <1>1, <2>4, <2>6, <3>1 DEF ReaderAnswers
    <3>2. CASE ReaderReports
      <4>1. reader.reports + 1 \in 0..MaxReports
        <5>1. reader.reports \in 0..MaxReports
          BY <1>1, ReadersFacts
        <5> QED
          BY SMTT(60), <3>2, <5>1, Bounds DEF ReaderReports
      <4>2. reader' = [reader EXCEPT !.reports = reader.reports + 1]
        BY SMTT(60), <3>2 DEF ReaderReports
      <4> QED
        BY Zenon, <1>1, <4>1, <4>2, ReadersFacts
    <3>3. CASE PowerCycled
      BY Zenon, <1>1, <3>3, ReadersFacts DEF PowerCycled
    <3>4. CASE ReaderDeclines \/ Garbled
      BY <1>1, <3>4 DEF ReaderDeclines, Garbled
    <3> QED
      BY SMTT(60), <1>15, <3>1, <3>2, <3>3, <3>4 DEF Module
  <2> QED
    BY <1>1, <2>1, <2>2, <2>3, <2>5, <2>7 DEF StartInv
<1>16. CASE UNCHANGED vars
  BY <1>1, <1>16 DEF vars, StartInv
<1> QED
  BY <1>9, <1>10, <1>11, <1>12, <1>13, <1>14, <1>15, <1>16 DEF Next, Provider
-----------------------------------------------------------------------------
(***************************************************************************)
(* The reports.                                                            *)
(***************************************************************************)
LEMMA ReadsInFacts ==
    ASSUME NEW events \in Seq(Events)
    PROVE  /\ \A n : n \in ReadsIn(events) <=> <<"read", n>> \in Range(events)
           /\ ReadsIn(events) \subseteq 1..MaxReports
<1>1. \A e \in Range(events) : e \in Events
  BY RangeOfSeq
<1>2. ASSUME NEW n
      PROVE  n \in ReadsIn(events) <=> <<"read", n>> \in Range(events)
  <2>1. n \in ReadsIn(events) <=> \E e \in Range(events) : e[1] = "read" /\ e[2] = n
    BY DEF ReadsIn
  <2>2. \A e \in Range(events) : e[1] = "read" => e = <<"read", e[2]>>
    BY <1>1, EventFacts DEF Names
  <2> QED
    BY <2>1, <2>2
<1>3. ASSUME NEW n \in ReadsIn(events)
      PROVE  n \in 1..MaxReports
  <2>1. <<"read", n>> \in Events
    BY <1>1, <1>2, <1>3
  <2> QED
    BY <2>1, EventFacts DEF Names
<1> QED
  BY <1>2, <1>3

(* The reads a turn sends are the reports of the frames it took.           *)
LEMMA ReadsTaken ==
    ASSUME TypeOK, NEW t \in TurnTypes, NEW n \in 0..Len(toHost), Brings(t.reads, n),
           NEW lost \in BOOLEAN
    PROVE  ReadsIn(EventsOf(t, lost)) = Reports(SubSeq(toHost, 1, n))
<1>1. toHost \in Seq(Frames)
  BY DEF TypeOK
<1> DEFINE first == SubSeq(toHost, 1, n)
<1>2. first \in Seq(Frames) /\ Len(first) = n /\ \A i \in 1..n : first[i] = toHost[i]
  BY <1>1, SplitFacts
<1> HIDE DEF first
<1>3. ASSUME NEW r
      PROVE  r \in ReadsIn(EventsOf(t, lost)) <=> r \in Reports(first)
  <2>1. r \in ReadsIn(EventsOf(t, lost)) <=> <<"read", r>> \in Range(EventsOf(t, lost))
    BY EventsFacts, ReadsInFacts
  <2>2. <<"read", r>> \in Range(EventsOf(t, lost)) <=>
           \E i \in 1..Len(t.reads) : <<"read", r>> = <<"read", t.reads[i]>>
    <3>1. \A e : e \in Range(EventsOf(t, lost)) <=>
                 \/ Announces(t) /\ e = <<"connected", 0>>
                 \/ t.power /\ e = <<"power", 0>>
                 \/ \E i \in 1..Len(t.reads) : e = <<"read", t.reads[i]>>
                 \/ t.faults /\ e = <<"faults", 0>>
                 \/ t.heard /\ e = <<"alive", 0>>
                 \/ lost /\ e = <<"disconnected", 0>>
      BY EventsFacts
    <3>2. \A name \in Names : <<"read", r>> # <<name, 0>>
      BY DEF Names
    <3> QED
      BY <3>1, <3>2, Zenon DEF Names
  <2>3. r \in Reports(first) <=>
           \E i \in 1..n : toHost[i].kind = "report" /\ toHost[i].number = r
    BY <1>2, ReportsFacts
  <2>4. (\E i \in 1..Len(t.reads) : t.reads[i] = r) <=>
           \E i \in 1..n : toHost[i].kind = "report" /\ toHost[i].number = r
    BY DEF Brings
  <2> QED
    BY <2>1, <2>2, <2>3, <2>4
<1> QED
  BY <1>3 DEF first

(* One more read told.                                                     *)
LEMMA ToldReads ==
    ASSUME NEW reads \in Seq(1..MaxReports), NEW n \in 1..MaxReports
    PROVE  /\ Range(Append(reads, n)) = Range(reads) \cup {n}
           /\ NewestOf(Append(reads, n)) = n
<1> DEFINE u == Append(reads, n)
<1>1. /\ u \in Seq(1..MaxReports) /\ u # <<>> /\ Len(reads) \in Nat /\ Len(u) = Len(reads) + 1
      /\ \A i \in 1..Len(reads) : u[i] = reads[i]
      /\ u[Len(reads) + 1] = n
  BY AppendProperties
<1> HIDE DEF u
<1>2. ASSUME NEW x
      PROVE  x \in Range(u) <=> x \in Range(reads) \/ x = n
  <2>1. x \in Range(u) <=> \E i \in 1..Len(u) : u[i] = x
    BY <1>1, InRange
  <2>2. x \in Range(reads) <=> \E i \in 1..Len(reads) : reads[i] = x
    BY InRange
  <2>3. \A i \in 1..Len(u) : i \in 1..Len(reads) \/ i = Len(reads) + 1
    BY <1>1
  <2>4. Len(reads) + 1 \in 1..Len(u) /\ \A i \in 1..Len(reads) : i \in 1..Len(u)
    BY <1>1
  <2>5. x \in Range(u) => x \in Range(reads) \/ x = n
    BY <1>1, <2>1, <2>2, <2>3
  <2>6. x \in Range(reads) => x \in Range(u)
    BY <1>1, <2>1, <2>2, <2>4
  <2>7. x = n => x \in Range(u)
    BY <1>1, <2>1, <2>4
  <2> QED
    BY <2>5, <2>6, <2>7
<1>3. NewestOf(u) = n
  BY <1>1 DEF NewestOf, Last
<1> QED
  BY <1>2, <1>3 DEF u

LEMMA NewestFacts ==
    ASSUME NEW reads \in Seq(1..MaxReports)
    PROVE  NewestOf(reads) \in 0..MaxReports
<1>1. CASE reads = <<>>
  BY <1>1, Bounds DEF NewestOf
<1>2. CASE reads # <<>>
  <2>1. Len(reads) \in 1..Len(reads)
    BY <1>2, EmptySeq
  <2>2. reads[Len(reads)] \in 1..MaxReports
    BY ZenonT(60), <2>1, ElementOfSeq
  <2> QED
    BY <1>2, <2>2 DEF NewestOf, Last
<1> QED
  BY <1>1, <1>2

LEMMA ReportsStep ==
    ASSUME TypeOK, StartInv, ReportsInv, port # "left" => LinkInv, [Next]_vars
    PROVE  ReportsInv'
<1>1. /\ out \in Seq(Events) /\ toHost \in Seq(Frames) /\ reader \in Readers /\ told \in Tolds
  BY SMTT(60), TypesAre
<1>2. reader.reports \in 0..MaxReports /\ told.reads \in Seq(1..MaxReports)
  BY Zenon, <1>1, ReadersFacts, ToldFacts
<1>3. InSequence(toHost)
  BY DEF ReportsInv, Accounted
<1>4. ReadsIn(<<>>) = {} /\ InOrder(<<>>)
  BY DEF ReadsIn, Range, InOrder
<1> DEFINE made == reader.reports
           reads == told.reads
<1>5. Accounted(reads, out, toHost, dropped, made)
  BY DEF ReportsInv
<1>6. NewestOf(reads) \in 0..MaxReports
  BY <1>2, NewestFacts DEF reads
<1>7. SUFFICES Accounted(told'.reads, out', toHost', dropped', reader'.reports)
  BY DEF ReportsInv
<1> HIDE DEF made, reads
<1>8. CASE Read \/ TimeOut \/ PortEnds
  <2>1. out = <<>>
    BY <1>3, <1>8, TakenIn DEF Taking
  <2>2. PICK n \in 0..Len(toHost), t \in TurnTypes, ended \in BOOLEAN, reached \in BOOLEAN :
           TurnGood(t, n) /\ Conclude(t, n, ended, reached)
    BY <1>3, <1>8, TakenIn
  <2> DEFINE first == SubSeq(toHost, 1, n)
             rest == SubSeq(toHost, n + 1, Len(toHost))
             lost == ended \/ t.progress = "refused"
  <2>3. lost \in BOOLEAN /\ out' = EventsOf(t, lost) /\ toHost' = rest
    BY <2>2 DEF Conclude
  <2>4. UNCHANGED <<reader, told, dropped>>
    BY <2>2 DEF Conclude
  <2> HIDE DEF lost
  <2>5. InOrder(out') /\ ReadsIn(out') = Reports(first)
    BY <2>2, <2>3, EventsFacts, ReadsTaken DEF TurnGood
  <2>6. /\ Reports(toHost) = Reports(first) \cup Reports(rest)
        /\ InSequence(rest)
        /\ \A a \in Reports(first), b \in Reports(rest) : a < b
    BY <1>1, <1>3, SplitFacts
  <2> HIDE DEF first, rest
  <2>7. Reports(first) \cap Reports(rest) = {}
    <3>1. \A a \in Reports(first) : a \in Nat
      BY <1>2, <1>5, <2>6 DEF Accounted, made
    <3>2. \A a \in Nat : ~(a < a)
      OBVIOUS
    <3> QED
      BY <2>6, <3>1, <3>2
  <2>8. Accounted(reads, out', rest, dropped, made)
    BY <1>4, <1>5, <2>1, <2>5, <2>6, <2>7 DEF Accounted
  <2> QED
    BY <2>3, <2>4, <2>8 DEF made, reads
<1>9. CASE Open
  <2>1. PICK n \in 0..Len(toHost) :
           /\ toHost' = SubSeq(toHost, n + 1, Len(toHost))
           /\ dropped' = dropped \cup Reports(SubSeq(toHost, 1, n))
    BY <1>9 DEF Open
  <2> DEFINE first == SubSeq(toHost, 1, n)
             rest == SubSeq(toHost, n + 1, Len(toHost))
  <2>2. /\ Reports(toHost) = Reports(first) \cup Reports(rest)
        /\ InSequence(rest)
        /\ \A a \in Reports(first), b \in Reports(rest) : a < b
    BY <1>1, <1>3, SplitFacts
  <2>3. toHost' = rest /\ dropped' = dropped \cup Reports(first)
    BY <2>1
  <2>4. UNCHANGED <<out, told>> /\ reader'.reports = made
    BY <1>1, <1>9 DEF Open, Readers, made
  <2> HIDE DEF first, rest
  <2>5. Reports(first) \cap Reports(rest) = {}
    <3>1. \A a \in Reports(first) : a \in Nat
      BY <1>2, <1>5, <2>2 DEF Accounted, made
    <3>2. \A a \in Nat : ~(a < a)
      OBVIOUS
    <3> QED
      BY <2>2, <3>1, <3>2
  <2>6. Accounted(reads, out, rest, dropped \cup Reports(first), made)
    BY <1>5, <2>2, <2>5 DEF Accounted
  <2> QED
    BY <2>3, <2>4, <2>6 DEF reads
<1>10. CASE OpenFails /\ port # "left"
  <2>1. out = <<>>
    BY <1>10 DEF OpenFails, LinkInv
  <2>2. /\ out' \in Seq(Events) /\ InOrder(out')
        /\ \A e : e \in Range(out') => e = <<"disconnected", 0>>
    <3>1. out' = If(TRUE, "disconnected") /\ "disconnected" \in Names
      BY <1>10 DEF OpenFails, Names
    <3> QED
      BY <3>1, IfFacts
  <2>3. ReadsIn(out') = {}
    BY <2>2 DEF ReadsIn
  <2>4. Accounted(reads, out', toHost, dropped, made)
    BY <1>4, <1>5, <2>1, <2>2, <2>3 DEF Accounted
  <2>5. UNCHANGED <<toHost, reader, told, dropped>>
    BY <1>10 DEF OpenFails
  <2> QED
    BY <2>4, <2>5 DEF made, reads
<1>11. CASE Send
  <2>1. /\ Head(out) \in Events /\ Tail(out) \in Seq(Events) /\ InOrder(Tail(out))
        /\ \A e : e \in Range(out) <=> e = Head(out) \/ e \in Range(Tail(out))
        /\ \A e \in Range(Tail(out)) : e \in Events /\ Before(Head(out), e)
    BY <1>1, <1>5, <1>11, TailFacts DEF Accounted, Send
  <2>2. out' = Tail(out) /\ UNCHANGED <<toHost, reader, dropped>>
    BY <1>11 DEF Send
  <2> DEFINE h == Head(out)
             rest == Tail(out)
  <2> HIDE DEF h, rest
  <2>3. CASE h[1] = "read"
    <3> DEFINE n == h[2]
    <3>1. n \in 1..MaxReports /\ h = <<"read", n>>
      BY <2>1, <2>3, EventFacts DEF Names, h
    <3>2. told'.reads = Append(reads, n)
      BY <1>1, <1>11, <2>3 DEF Send, Tolds, h, reads
    <3> HIDE DEF n
    <3>3. ReadsIn(out) = ReadsIn(rest) \cup {n}
      <4>1. ASSUME NEW x
            PROVE  x \in ReadsIn(out) <=> x \in ReadsIn(rest) \/ x = n
        <5>1. x \in ReadsIn(out) <=> <<"read", x>> \in Range(out)
          BY <1>1, ReadsInFacts
        <5>2. x \in ReadsIn(rest) <=> <<"read", x>> \in Range(rest)
          BY <2>1, ReadsInFacts DEF rest
        <5> QED
          BY <2>1, <3>1, <5>1, <5>2 DEF h, rest
      <4> QED
        BY <4>1
    <3>4. \A x \in ReadsIn(rest) : n < x
      <4> TAKE x \in ReadsIn(rest)
      <4>1. <<"read", x>> \in Range(rest)
        BY <2>1, ReadsInFacts DEF rest
      <4>2. Before(<<"read", n>>, <<"read", x>>)
        BY <2>1, <3>1, <4>1 DEF h, rest
      <4> QED
        BY <4>2 DEF Before, Rank
    <3>5. /\ Range(Append(reads, n)) = Range(reads) \cup {n}
          /\ NewestOf(Append(reads, n)) = n
      BY <1>2, <3>1, ToldReads DEF reads
    <3>6. InOrder(rest)
      BY <2>1 DEF rest
    <3>7. Accounted(Append(reads, n), rest, toHost, dropped, made)
      BY <1>5, <3>3, <3>4, <3>5, <3>6 DEF Accounted
    <3> QED
      BY <2>2, <3>2, <3>7 DEF rest, made
  <2>4. CASE h[1] # "read"
    <3>1. told'.reads = reads
      BY <1>1, <1>11, <2>4 DEF Send, Tolds, h, reads
    <3>2. ReadsIn(out) = ReadsIn(rest)
      <4>1. ASSUME NEW x
            PROVE  x \in ReadsIn(out) <=> x \in ReadsIn(rest)
        <5>1. x \in ReadsIn(out) <=> <<"read", x>> \in Range(out)
          BY <1>1, ReadsInFacts
        <5>2. x \in ReadsIn(rest) <=> <<"read", x>> \in Range(rest)
          BY <2>1, ReadsInFacts DEF rest
        <5>3. <<"read", x>> # h
          BY <2>4
        <5> QED
          BY <2>1, <5>1, <5>2, <5>3 DEF h, rest
      <4> QED
        BY <4>1
    <3>3. InOrder(rest)
      BY <2>1 DEF rest
    <3>4. Accounted(reads, rest, toHost, dropped, made)
      BY <1>5, <3>2, <3>3 DEF Accounted
    <3> QED
      BY <2>2, <3>1, <3>4 DEF rest, made
  <2> QED
    BY <2>3, <2>4
<1>12. CASE BackOff
  <2>1. /\ Reports(Disowned(toHost)) = Reports(toHost)
        /\ InSequence(Disowned(toHost))
    BY <1>1, <1>3, DisownedFacts
  <2>2. Accounted(reads, out, Disowned(toHost), dropped, made)
    BY <1>5, <2>1 DEF Accounted
  <2>3. UNCHANGED <<out, told, dropped>> /\ toHost' = Disowned(toHost) /\ reader'.reports = made
    BY <1>1, <1>12 DEF BackOff, Readers, made
  <2> QED
    BY <2>2, <2>3 DEF reads
<1>13. CASE ConsumerLeaves \/ UNCHANGED vars
  BY <1>5, <1>13 DEF ConsumerLeaves, vars, made, reads
<1>14. CASE Module
  <2>1. out' = out /\ told' = told
    BY <1>3, <1>14, ModuleFacts DEF host
  <2>2. CASE UNCHANGED <<toHost, dropped>> /\ reader'.reports = made
    BY <1>5, <2>1, <2>2 DEF reads
  <2>3. ASSUME NEW f \in Frames, toHost' = Append(toHost, f), f.kind = "answer",
               dropped' = dropped, reader'.reports = made
        PROVE  Accounted(reads, out, toHost', dropped', reader'.reports)
    <3>1. Reports(toHost') = Reports(toHost) /\ InSequence(toHost')
      BY <1>1, <1>3, <2>3, AddedFacts
    <3> QED
      BY <1>5, <2>3, <3>1 DEF Accounted
  <2>4. ASSUME NEW f \in Frames, toHost' = Append(toHost, f), f.kind = "report",
               f.number = made + 1, dropped' = dropped, reader'.reports = made + 1
        PROVE  Accounted(reads, out, toHost', dropped', reader'.reports)
    <3>1. \A r \in Reports(toHost) : r < made + 1
      BY <1>2, <1>5 DEF Accounted, made
    <3>2. Reports(toHost') = Reports(toHost) \cup {made + 1} /\ InSequence(toHost')
      BY <1>1, <1>3, <2>4, <3>1, AddedFacts
    <3>3. made \in Nat /\ 1..(made + 1) = (1..made) \cup {made + 1} /\ made + 1 \notin 1..made
      BY <1>2 DEF made
    <3>4. NewestOf(reads) < made + 1 /\ \A p \in ReadsIn(out) : p < made + 1
      <4>1. \A p \in ReadsIn(out) : p \in 1..made
        BY <1>5 DEF Accounted
      <4>2. NewestOf(reads) \in Range(reads) \/ NewestOf(reads) = 0
        <5>1. CASE reads = <<>>
          BY <5>1 DEF NewestOf
        <5>2. CASE reads # <<>>
          <6>1. reads \in Seq(1..MaxReports)
            BY <1>2 DEF reads
          <6>2. Len(reads) \in 1..Len(reads)
            BY <5>2, <6>1, EmptySeq
          <6> QED
            BY <5>2, <6>1, <6>2, InRange DEF NewestOf, Last
        <5> QED
          BY <5>1, <5>2
      <4>3. NewestOf(reads) \in 1..made \/ NewestOf(reads) = 0
        BY <1>5, <4>2 DEF Accounted
      <4> QED
        BY <3>3, <4>1, <4>3
    <3> QED
      BY <1>5, <2>4, <3>2, <3>3, <3>4 DEF Accounted
  <2>5. ASSUME NEW f \in Frames, toHost' = Append(toHost, f), f.kind \in {"cycle", "odd"},
               dropped' = dropped \cup {made + 1}, reader'.reports = made + 1
        PROVE  Accounted(reads, out, toHost', dropped', reader'.reports)
    <3>1. Reports(toHost') = Reports(toHost) /\ InSequence(toHost')
      BY <1>1, <1>3, <2>5, AddedFacts
    <3>2. made \in Nat /\ 1..(made + 1) = (1..made) \cup {made + 1} /\ made + 1 \notin 1..made
      BY <1>2 DEF made
    <3> QED
      BY <1>5, <2>5, <3>1, <3>2 DEF Accounted
  <2>6. ASSUME NEW i \in 1..Len(toHost), toHost' = RemoveAt(toHost, i),
               dropped' = dropped \cup Reports(<<toHost[i]>>), reader'.reports = made
        PROVE  Accounted(reads, out, toHost', dropped', reader'.reports)
    <3> DEFINE gone == Reports(<<toHost[i]>>)
    <3>1. /\ InSequence(toHost') /\ Reports(toHost) = Reports(toHost') \cup gone
          /\ Reports(toHost') \cap gone = {}
      BY <1>1, <1>3, <2>6, RemovedFacts
    <3>2. dropped' = dropped \cup gone
      BY <2>6
    <3> HIDE DEF gone
    <3> QED
      BY <1>5, <2>6, <3>1, <3>2 DEF Accounted
  <2> QED
    BY <1>3, <1>14, <2>1, <2>2, <2>3, <2>4, <2>5, <2>6, ModuleFacts DEF made, reads
<1> QED
  BY <1>8, <1>9, <1>10, <1>11, <1>12, <1>13, <1>14 DEF Next, Provider
-----------------------------------------------------------------------------
(***************************************************************************)
(* The link.                                                               *)
(***************************************************************************)

(* An event that is not a read is known by its name.                       *)
LEMMA NamedEvents ==
    ASSUME NEW h \in Events
    PROVE  /\ \A name \in Names : h = <<name, 0>> <=> h[1] = name
           /\ \A name \in Names : <<name, 0>>[1] = name
           /\ \A name \in Names : Rank[<<name, 0>>[1]] = Rank[name]
           /\ {"connected", "power", "disconnected"} \subseteq Names
<1>1. "read" \notin Names
  BY DEF Names
<1> QED
  BY <1>1, EventFacts DEF Names

LEMMA LinkStep ==
    ASSUME TypeOK, StartInv, ReportsInv, port # "left" => LinkInv, [Next]_vars, port' # "left"
    PROVE  LinkInv'
<1>1. out \in Seq(Events) /\ start \in Starts /\ told \in Tolds
  BY TypesAre
<1>2. start.announced \in BOOLEAN /\ start.step \in 1..9
  BY <1>1, StartsFacts
<1>3. told.link \in {"up", "down"} /\ told.power \in BOOLEAN
  BY <1>1, ToldFacts
<1>4. InSequence(toHost) /\ InOrder(out)
  BY DEF ReportsInv, Accounted
<1>5. CASE Read \/ TimeOut \/ PortEnds
  <2>1. port = "open" /\ out = <<>>
    BY <1>4, <1>5, TakenIn DEF Taking
  <2>2. PICK n \in 0..Len(toHost), t \in TurnTypes, ended \in BOOLEAN, reached \in BOOLEAN :
           TurnGood(t, n) /\ Conclude(t, n, ended, reached)
    BY <1>4, <1>5, TakenIn
  <2> DEFINE lost == ended \/ t.progress = "refused"
  <2>3. /\ lost \in BOOLEAN /\ out' = EventsOf(t, lost)
        /\ port' = (IF lost THEN "ending" ELSE "open")
        /\ start'.step = t.step
        /\ start'.announced <=> start.announced \/ Announces(t)
        /\ told' = told
    BY <2>2 DEF Conclude
  <2> HIDE DEF lost
  <2>4. \A e : e \in Range(out') <=>
                 \/ Announces(t) /\ e = <<"connected", 0>>
                 \/ t.power /\ e = <<"power", 0>>
                 \/ \E i \in 1..Len(t.reads) : e = <<"read", t.reads[i]>>
                 \/ t.faults /\ e = <<"faults", 0>>
                 \/ t.heard /\ e = <<"alive", 0>>
                 \/ lost /\ e = <<"disconnected", 0>>
    BY <2>2, <2>3, EventsFacts DEF TurnGood
  <2>5. /\ <<"connected", 0>> \in Range(out') <=> Announces(t)
        /\ <<"power", 0>> \in Range(out') <=> t.power
        /\ <<"disconnected", 0>> \in Range(out') <=> lost
    BY <2>4
  <2>6. \A e : ~(e \in Range(<<>>))
    BY DEF Range
  <2>7. lost => out' # <<>>
    BY <2>4, <2>6
  <2>8. /\ start.step <= t.step /\ t.step \in 1..9
        /\ t.power => start.step <= 6 /\ t.step > 6
    BY <2>2, TurnFields DEF TurnGood
  <2>9. /\ told.link = "up" => start.announced
        /\ start.announced => told.link = "up"
        /\ told.power => start.step > 6
    BY <2>1, <2>6 DEF LinkInv, Pending
  <2>10. Announces(t) => ~start.announced
    BY DEF Announces
  <2> QED
    <3>1. /\ port' = "ending" <=> lost
          /\ port' = "open" <=> ~lost
          /\ port' # "closed"
          /\ start'.step = t.step /\ told' = told
          /\ start'.announced <=> start.announced \/ Announces(t)
      BY <2>3
    <3> QED
      BY <1>2, <1>3, <2>5, <2>7, <2>8, <2>9, <2>10, <3>1 DEF LinkInv, Pending
<1>6. CASE Open /\ port # "left"
  <2>1. out = <<>> /\ out' = <<>> /\ port' = "open" /\ start' = NotStarted /\ told' = told
          /\ told.link = "down" /\ ~told.power
    BY <1>6 DEF Open, LinkInv
  <2>2. \A e : ~(e \in Range(<<>>))
    BY DEF Range
  <2> QED
    BY <2>1, <2>2 DEF LinkInv, Pending, NotStarted
<1>7. CASE OpenFails /\ port # "left"
  <2>1. port' = "ending" /\ start' = NotStarted /\ told' = told
          /\ told.link = "down" /\ ~told.power
    BY <1>7 DEF OpenFails, LinkInv
  <2>2. \A e : e \in Range(out') <=> e = <<"disconnected", 0>>
    <3>1. out' = If(TRUE, "disconnected") /\ "disconnected" \in Names
      BY <1>7 DEF OpenFails, Names
    <3> QED
      BY <3>1, IfFacts
  <2>3. out' # <<>>
    <3>1. <<"disconnected", 0>> \in Range(out')
      BY <2>2
    <3>2. ~(<<"disconnected", 0>> \in Range(<<>>))
      BY DEF Range
    <3> QED
      BY <3>1, <3>2
  <2> QED
    BY <2>1, <2>2, <2>3 DEF LinkInv, Pending, NotStarted
<1>8. CASE Send /\ port # "left"
  <2> DEFINE h == Head(out)
             rest == Tail(out)
  <2>1. /\ h \in Events /\ rest \in Seq(Events)
        /\ \A e : e \in Range(out) <=> e = h \/ e \in Range(rest)
        /\ \A e \in Range(rest) : e \in Events /\ Before(h, e)
        /\ rest = <<>> \/ \E e : e \in Range(rest)
    BY <1>1, <1>4, <1>8, TailFacts DEF Send
  <2>2. out # <<>> /\ out' = rest /\ port' = port /\ start' = start
    BY <1>8 DEF Send
  <2>3. LinkInv
    BY <1>8
  <2>4. /\ h[1] = "connected" => told'.link = "up" /\ told'.power = told.power
        /\ h[1] = "power" => told'.link = told.link /\ told'.power = TRUE
        /\ h[1] = "disconnected" => told'.link = "down" /\ told'.power = FALSE
        /\ h[1] \notin {"connected", "power", "disconnected"} =>
              told'.link = told.link /\ told'.power = told.power
    BY <1>1, <1>8 DEF Send, Tolds, h
  <2> HIDE DEF h, rest
  <2>5. /\ \A name \in Names : h = <<name, 0>> <=> h[1] = name
        /\ {"connected", "power", "disconnected"} \subseteq Names
    BY <2>1, NamedEvents
  <2>6. \A name \in {"connected", "power", "disconnected"} :
           <<name, 0>> \in Range(out) <=> h[1] = name \/ <<name, 0>> \in Range(rest)
    BY <2>1, <2>5
  <2>7. /\ h[1] = "connected" => <<"connected", 0>> \notin Range(rest)
        /\ h[1] = "power" => <<"power", 0>> \notin Range(rest)
    <3>1. \A e \in Range(rest) : h[1] # "read" => Rank[h[1]] < Rank[e[1]]
      BY <2>1 DEF Before
    <3>2. Rank["connected"] = 1 /\ Rank["power"] = 2
      BY DEF Rank
    <3> QED
      BY <3>1, <3>2
  <2>8. h[1] = "disconnected" => rest = <<>>
    <3>1. \A e \in Range(rest) : Rank[h[1]] < Rank[e[1]] \/ h[1] = "read"
      BY <2>1 DEF Before
    <3>2. \A e \in Range(rest) : Rank[e[1]] \in 1..6
      BY <2>1, EventFacts
    <3>3. Rank["disconnected"] = 6
      BY DEF Rank
    <3> QED
      BY <2>1, <3>1, <3>2, <3>3
  <2>9. \A e : ~(e \in Range(<<>>))
    BY DEF Range
  <2>10. CASE h[1] = "connected"
    BY <1>2, <1>3, <2>2, <2>3, <2>4, <2>6, <2>7, <2>9, <2>10 DEF LinkInv, Pending
  <2>11. CASE h[1] = "power"
    BY <1>2, <1>3, <2>2, <2>3, <2>4, <2>6, <2>7, <2>9, <2>11 DEF LinkInv, Pending
  <2>12. CASE h[1] = "disconnected"
    <3>1. Pending("disconnected")
      BY <2>6, <2>12 DEF Pending
    <3>2. port = "ending"
      BY <1>8, <2>2, <2>3, <3>1, TypesAre DEF LinkInv
    <3>3. out' = <<>> /\ told'.link = "down" /\ told'.power = FALSE
      BY <2>2, <2>4, <2>8, <2>12
    <3> QED
      BY <2>2, <2>9, <3>2, <3>3 DEF LinkInv, Pending
  <2>13. CASE h[1] \notin {"connected", "power", "disconnected"}
    BY <1>2, <1>3, <2>2, <2>3, <2>4, <2>6, <2>9, <2>13 DEF LinkInv, Pending
  <2> QED
    BY <2>10, <2>11, <2>12, <2>13
<1>9. CASE BackOff /\ port # "left"
  <2>1. out = <<>> /\ out' = <<>> /\ port' = "closed" /\ start' = NotStarted /\ told' = told
          /\ told.link = "down" /\ ~told.power
    BY <1>9 DEF BackOff, LinkInv
  <2>2. \A e : ~(e \in Range(<<>>))
    BY DEF Range
  <2> QED
    BY <2>1, <2>2 DEF LinkInv, Pending, NotStarted
<1>10. CASE ConsumerLeaves
  BY <1>10 DEF ConsumerLeaves
<1>11. CASE Module \/ UNCHANGED vars
  <2>1. port' = port /\ start' = start /\ out' = out /\ told' = told
    BY <1>4, <1>11, ModuleFacts DEF host, vars
  <2>2. LinkInv
    BY <2>1
  <2> QED
    BY <2>1, <2>2 DEF LinkInv, Pending
<1> QED
  BY <1>5, <1>6, <1>7, <1>8, <1>9, <1>10, <1>11 DEF Next, Provider, Read, TimeOut, PortEnds,
     Taking
-----------------------------------------------------------------------------
(***************************************************************************)
(* The theorems.                                                           *)
(***************************************************************************)
LEMMA InitHolds == Init => IInv
<1> SUFFICES ASSUME Init
             PROVE  IInv
  OBVIOUS
<1>1. out = <<>> /\ toHost = <<>> /\ toReader = <<>> /\ dropped = {} /\ start = NotStarted
        /\ port = "closed" /\ backlog = 0 /\ disturbances = 0
  BY DEF Init
<1>2. reader \in Readers /\ reader.reports = 0
  <2>1. reader \in [stream : {"off", "stale"}, settings : {{}}, cycled : {FALSE}, reports : {0}]
    BY DEF Init
  <2>2. {} \in SUBSET Settings /\ 0 \in 0..MaxReports
    BY Bounds
  <2>3. reader.stream \in {"off", "stale"} /\ reader.settings = {} /\ reader.cycled = FALSE
          /\ reader.reports = 0
          /\ reader = [stream |-> reader.stream, settings |-> {}, cycled |-> FALSE, reports |-> 0]
    BY <2>1
  <2>4. reader.stream \in {"off", "own", "stale"} /\ FALSE \in BOOLEAN
    BY <2>3
  <2>5. [stream |-> reader.stream, settings |-> {}, cycled |-> FALSE, reports |-> 0] \in Readers
    BY <2>2, <2>4, Zenon DEF Readers
  <2> QED
    BY <2>3, <2>5
<1>3. told \in Tolds /\ told.link = "down" /\ told.power = FALSE /\ told.reads = <<>>
        /\ told.failures = 0
  <2>1. told = [link |-> "down", power |-> FALSE, reads |-> <<>>, failures |-> 0]
    BY DEF Init
  <2>2. <<>> \in Seq(1..MaxReports) /\ 0 \in 0..MostFailures /\ "down" \in {"up", "down"}
          /\ FALSE \in BOOLEAN
    BY Bounds
  <2>3. [link |-> "down", power |-> FALSE, reads |-> <<>>, failures |-> 0] \in Tolds
    BY <2>2, Zenon DEF Tolds
  <2> QED
    BY <2>1, <2>3
<1>4. TypeOK
  BY <1>1, <1>2, <1>3, TypesAre, StartsFacts, Bounds
<1>5. /\ \A e : ~(e \in Range(<<>>))
      /\ Reports(<<>>) = {} /\ ReadsIn(<<>>) = {} /\ InOrder(<<>>) /\ InSequence(<<>>)
  BY DEF Range, Reports, ReadsIn, InOrder, InSequence
<1>6. ReportsInv
  <2>1. Range(<<>>) = {} /\ 1..0 = {}
    BY <1>5
  <2> QED
    BY <1>1, <1>2, <1>3, <1>5, <2>1 DEF ReportsInv, Accounted
<1>7. LinkInv /\ StartInv
  BY <1>1, <1>3, <1>5 DEF LinkInv, StartInv, Pending, NotStarted
<1> QED
  BY <1>4, <1>6, <1>7 DEF IInv

LEMMA InvStep == IInv /\ [Next]_vars => IInv'
BY TypeStep, ReportsStep, LinkStep DEF IInv

(* The types of the variables, whatever arrives and is disturbed.          *)
THEOREM SerialTypeCorrect == Spec => []TypeOK
<1>1. IInv => TypeOK
  BY DEF IInv
<1> QED
  BY <1>1, InitHolds, InvStep, PTL DEF Spec

(* Every tag report that arrives on an open port is sent on, whichever     *)
(* connection's stream it is of and whatever the start sequence waits for. *)
THEOREM ReportsAreSentOn == Spec => []ReportsReachTheChannel
<1>1. IInv => ReportsReachTheChannel
  BY DEF IInv, ReportsInv, Accounted, ReportsReachTheChannel, ReadsIn
<1> QED
  BY <1>1, InitHolds, InvStep, PTL DEF Spec

(* The start of the provider is the start of a link.                       *)
LEMMA LinkStarts == Init => Link!Init
BY DEF Init, Link!Init, Latest

(* A step of the provider is a step of its link, or none.                  *)
LEMMA LinkSteps ==
    ASSUME IInv, [Next]_vars
    PROVE  [Link!Next]_(Link!vars)
<1>1. out \in Seq(Events) /\ told \in Tolds /\ TypeOK
  BY TypesAre DEF IInv
<1>2. told.reads \in Seq(1..MaxReports)
  BY <1>1, ToldFacts
<1>3. Latest = NewestOf(told.reads) /\ Latest' = NewestOf(told'.reads)
  BY DEF Latest, NewestOf
<1>4. ASSUME told' = told
      PROVE  UNCHANGED Link!vars
  BY <1>4 DEF Link!vars, Latest
<1>5. CASE Send /\ port # "left"
  <2> DEFINE h == Head(out)
  <2>1. h \in Events /\ out # <<>>
    BY <1>1, <1>5, HeadTailProperties DEF Send
  <2>2. h \in Range(out)
    <3>1. 1 \in 1..Len(out) /\ out[1] = h
      BY <1>1, <2>1, EmptySeq
    <3> QED
      BY <1>1, <3>1, InRange
  <2>3. LinkInv /\ Accounted(told.reads, out, toHost, dropped, reader.reports)
    BY <1>5 DEF IInv, ReportsInv
  <2>4. /\ h[1] = "read" => h = <<"read", h[2]>> /\ h[2] \in 1..MaxReports
        /\ \A name \in {"connected", "power", "disconnected"} :
              h[1] = name => <<name, 0>> \in Range(out)
    BY <2>1, <2>2, EventFacts DEF Names
  <2>5. CASE h[1] = "connected"
    <3>1. told' = [told EXCEPT !.link = "up"]
      BY <1>5, <2>5 DEF Send
    <3>2. told'.link = "up" /\ told'.power = told.power /\ told'.reads = told.reads
            /\ told'.failures = told.failures
      BY <1>1, <3>1 DEF Tolds
    <3>3. told.link = "down"
      BY <2>3, <2>4, <2>5 DEF LinkInv, Pending
    <3>4. Link!Announce
      BY <1>3, <3>2, <3>3 DEF Link!Announce
    <3> QED
      BY <3>4 DEF Link!Next
  <2>6. CASE h[1] = "power"
    <3>1. told' = [told EXCEPT !.power = TRUE]
      BY <1>5, <2>6 DEF Send
    <3>2. told'.link = told.link /\ told'.power = TRUE /\ told'.reads = told.reads
            /\ told'.failures = told.failures
      BY <1>1, <3>1 DEF Tolds
    <3>3. ~told.power
      BY <2>3, <2>4, <2>6 DEF LinkInv, Pending
    <3>4. Link!TellPower
      BY <1>3, <3>2, <3>3 DEF Link!TellPower
    <3> QED
      BY <3>4 DEF Link!Next
  <2>7. CASE h[1] = "disconnected"
    <3>1. told' = [told EXCEPT !.link = "down", !.power = FALSE, !.failures = Failures]
      BY <1>5, <2>7 DEF Send
    <3>2. told'.link = "down" /\ told'.power = FALSE /\ told'.reads = told.reads
            /\ told'.failures = Failures
      BY <1>1, <3>1 DEF Tolds
    <3>3. <<"connected", 0>> \in Range(out) => FALSE
      <4>1. InOrder(out)
        BY <2>3 DEF Accounted
      <4>2. /\ \A e : e \in Range(out) <=> e = h \/ e \in Range(Tail(out))
            /\ \A e \in Range(Tail(out)) : Before(h, e)
        BY <1>1, <2>1, <4>1, TailFacts
      <4>3. ~Before(h, <<"connected", 0>>)
        BY <2>7 DEF Before, Rank
      <4>4. h # <<"connected", 0>>
        BY <2>7
      <4> QED
        BY <4>2, <4>3, <4>4
    <3>4. start.announced <=> told.link = "up"
      BY <2>1, <2>3, <3>3 DEF LinkInv, Pending
    <3>5. Link!Lose
      BY <1>3, <3>2, <3>4 DEF Link!Lose, Failures
    <3> QED
      BY <3>5 DEF Link!Next
  <2>8. CASE h[1] = "read"
    <3>1. told' = [told EXCEPT !.reads = Append(told.reads, h[2])]
      BY <1>5, <2>8 DEF Send
    <3>2. told'.link = told.link /\ told'.power = told.power /\ told'.failures = told.failures
            /\ told'.reads = Append(told.reads, h[2])
      BY <1>1, <3>1 DEF Tolds
    <3>3. NewestOf(told'.reads) = h[2] /\ h[2] \in 1..MaxReports
      BY <1>2, <2>4, <2>8, <3>2, ToldReads
    <3>4. h[2] \in ReadsIn(out)
      BY <1>1, <2>2, <2>4, <2>8, ReadsInFacts
    <3>5. NewestOf(told.reads) < h[2]
      BY <2>3, <3>4 DEF Accounted
    <3>6. NewestOf(told.reads) \in Nat /\ h[2] \in Nat
      BY <1>2, <3>3, NewestFacts
    <3> HIDE DEF h
    <3>7. Link!TellRead
      BY <1>3, <3>2, <3>3, <3>5, <3>6 DEF Link!TellRead
    <3> QED
      BY <3>7 DEF Link!Next
  <2>9. CASE h[1] \notin {"connected", "power", "disconnected", "read"}
    BY <1>4, <1>5, <2>9 DEF Send
  <2> QED
    BY <2>5, <2>6, <2>7, <2>8, <2>9
<1>6. CASE Read \/ TimeOut \/ PortEnds \/ Open \/ OpenFails \/ BackOff \/ ConsumerLeaves
             \/ Module \/ UNCHANGED vars
  <2>1. told' = told
    BY <1>6, Zenon DEF Read, TimeOut, PortEnds, Conclude, Open, OpenFails, BackOff,
       ConsumerLeaves,
       Module, ReaderAnswers, ReaderDeclines, ReaderReports, Garbled, PowerCycled, host, vars
  <2> QED
    BY <1>4, <2>1
<1> QED
  BY <1>5, <1>6 DEF Next, Provider

(* The provider keeps what it promises whoever takes its events: a         *)
(* connection is announced once and lost once, its power told once at      *)
(* most, and reads come in the order the reader made them, none twice.     *)
THEOREM ImplementsTheLink == Spec => KeepsTheLink
<1>1. Init => Link!Init
  BY LinkStarts
<1>2. IInv /\ [Next]_vars => [Link!Next]_(Link!vars)
  BY LinkSteps
<1> QED
  BY <1>1, <1>2, InitHolds, InvStep, PTL DEF Spec, KeepsTheLink, Link!Spec

-----------------------------------------------------------------------------
(***************************************************************************)
(* What is between the thread and the module: first the answers from place *)
(* n on, then the commands still to be taken.  It is in the order sent.    *)
(***************************************************************************)
Nothing == [command |-> "none", own |-> FALSE]

Message(frame) ==
    IF frame.kind = "answer" THEN [command |-> frame.to, own |-> frame.own] ELSE Nothing

Line(frames, n, commands) ==
    [p \in (n + 1)..(Len(frames) + Len(commands)) |->
        IF p <= Len(frames) THEN Message(frames[p]) ELSE commands[p - Len(frames)]]

LastOn(l, p) == \A q \in DOMAIN l : p < q => l[q] = Nothing

(* Behind this connection's come only this connection's.                   *)
OwnBehind(l, p) == \A q \in DOMAIN l : p < q => l[q] = Nothing \/ l[q].own

SentBy(s) == {Steps[k] : k \in {m \in 1..8 : m <= s}}

(* The line with step s awaited.  With no answers outstanding when the     *)
(* connection began, what must succeed is outstanding only as the step     *)
(* awaited, and last.  One connection on, that is what is left of it: past *)
(* the second step nothing is, and a version behind which there is nothing *)
(* else left is the most that can be taken for this connection's.          *)
OpenLine(l, s, b) ==
    /\ \A p \in DOMAIN l : l[p].own =>
          /\ OwnBehind(l, p)
          /\ l[p].command \in SentBy(s)
          /\ s <= 8 /\ (l[p].command = Steps[s] => LastOn(l, p))
    /\ b = 0 => \A p \in DOMAIN l : l[p] # Nothing =>
          l[p].own /\ (MustSucceed(l[p].command) => s <= 8 /\ l[p].command = Steps[s])
    /\ b = 1 => \A p \in DOMAIN l : l[p] # Nothing /\ ~l[p].own =>
          s <= 2 /\ (l[p].command = "version" => OwnBehind(l, p))

VersionLast(l) == \A p \in DOMAIN l : l[p].command = "version" => LastOn(l, p)

NoneOwn(l) == \A p \in DOMAIN l : ~l[p].own

LEMMA StepNames ==
    /\ Commands = {"stop", "version", "gen2", "region", "power", "limits", "filter", "start"}
    /\ Steps[1] = "stop" /\ Steps[2] = "version" /\ Steps[6] = "limits" /\ Steps[8] = "start"
    /\ Steps[3] = "gen2" /\ Steps[4] = "region" /\ Steps[5] = "power" /\ Steps[7] = "filter"
    /\ \A i, j \in 1..8 : Steps[i] = Steps[j] => i = j
<1>1. DOMAIN Steps = 1..8
  BY DEF Steps
<1>2. /\ Steps[1] = "stop" /\ Steps[2] = "version" /\ Steps[6] = "limits" /\ Steps[8] = "start"
      /\ Steps[3] = "gen2" /\ Steps[4] = "region" /\ Steps[5] = "power" /\ Steps[7] = "filter"
  BY DEF Steps
<1>3. \A i \in 1..8 : i \in {1, 2, 3, 4, 5, 6, 7, 8}
  OBVIOUS
<1> HIDE DEF Steps
<1> QED
  BY <1>1, <1>2, <1>3 DEF Commands, Range

LEMMA MessageFacts ==
    /\ \A f \in Frames : /\ f.kind = "answer" => /\ Message(f).command = f.to /\ f.to \in Commands
                                                 /\ Message(f).own = f.own /\ f.own \in BOOLEAN
                                                 /\ f.ok \in BOOLEAN
                                                 /\ Message(f) # Nothing
                         /\ f.kind # "answer" => Message(f) = Nothing
    /\ \A r \in Requests : r # Nothing /\ r.command \in Commands /\ r.own \in BOOLEAN
    /\ Nothing.own = FALSE /\ Nothing.command = "none" /\ "none" \notin Commands
<1>1. Nothing.own = FALSE /\ Nothing.command = "none" /\ "none" \notin Commands
  BY StepNames DEF Nothing
<1>2. \A r \in Requests : r # Nothing /\ r.command \in Commands /\ r.own \in BOOLEAN
  BY <1>1, RequestTypes, Zenon
<1>3. ASSUME NEW f \in Frames, f.kind = "answer"
      PROVE  /\ Message(f).command = f.to /\ f.to \in Commands
             /\ Message(f).own = f.own /\ f.own \in BOOLEAN /\ f.ok \in BOOLEAN
             /\ Message(f) # Nothing
  <2>1. f \in Answers
    BY <1>3, FrameFacts
  <2>2. f.to \in Commands /\ f.own \in BOOLEAN /\ f.ok \in BOOLEAN
    BY <2>1, Zenon DEF Answers
  <2>3. Message(f) = [command |-> f.to, own |-> f.own]
    BY <1>3 DEF Message
  <2>4. Message(f) \in Requests
    BY <2>2, <2>3, RequestTypes
  <2>5. Message(f).command = f.to /\ Message(f).own = f.own
    BY <2>3
  <2> QED
    BY <1>2, <2>2, <2>4, <2>5
<1>4. \A f \in Frames : f.kind # "answer" => Message(f) = Nothing
  BY DEF Message
<1> QED
  BY <1>1, <1>2, <1>3, <1>4

LEMMA LineFacts ==
    ASSUME NEW frames \in Seq(Frames), NEW commands \in Seq(Requests), NEW n \in 0..Len(frames)
    PROVE  LET l == Line(frames, n, commands) IN
           /\ DOMAIN l = (n + 1)..(Len(frames) + Len(commands)) /\ DOMAIN l \subseteq Nat
           /\ \A p \in (n + 1)..Len(frames) : p \in DOMAIN l /\ l[p] = Message(frames[p])
           /\ \A j \in 1..Len(commands) :
                 Len(frames) + j \in DOMAIN l /\ l[Len(frames) + j] = commands[j]
           /\ \A p \in DOMAIN l : \/ p \in (n + 1)..Len(frames)
                                  \/ \E j \in 1..Len(commands) : p = Len(frames) + j
           /\ \A p \in DOMAIN l : l[p].own \in BOOLEAN /\ (l[p].own => l[p] # Nothing)
<1> DEFINE l == Line(frames, n, commands)
<1>1. Len(frames) \in Nat /\ Len(commands) \in Nat /\ n \in Nat /\ n <= Len(frames)
  OBVIOUS
<1>2. DOMAIN l = (n + 1)..(Len(frames) + Len(commands)) /\ DOMAIN l \subseteq Nat
  BY <1>1 DEF Line
<1>3. \A p \in (n + 1)..Len(frames) : p \in DOMAIN l /\ l[p] = Message(frames[p])
  BY <1>1 DEF Line
<1>4. ASSUME NEW j \in 1..Len(commands)
      PROVE  Len(frames) + j \in DOMAIN l /\ l[Len(frames) + j] = commands[j]
  <2>1. ~(Len(frames) + j <= Len(frames)) /\ Len(frames) + j - Len(frames) = j
          /\ Len(frames) + j \in (n + 1)..(Len(frames) + Len(commands))
    BY <1>1
  <2> QED
    BY <2>1 DEF Line
<1>5. ASSUME NEW p \in DOMAIN l
      PROVE  p \in (n + 1)..Len(frames) \/ \E j \in 1..Len(commands) : p = Len(frames) + j
  <2>1. CASE p <= Len(frames)
    BY <1>1, <1>2, <2>1
  <2>2. CASE p > Len(frames)
    <3>1. p - Len(frames) \in 1..Len(commands) /\ p = Len(frames) + (p - Len(frames))
      BY <1>1, <1>2, <2>2
    <3> QED
      BY <3>1
  <2> QED
    BY <1>1, <1>2, <2>1, <2>2
<1> HIDE DEF l
<1>6. ASSUME NEW p \in DOMAIN l
      PROVE  l[p].own \in BOOLEAN /\ (l[p].own => l[p] # Nothing)
  <2>1. CASE p \in (n + 1)..Len(frames)
    <3>1. frames[p] \in Frames
      BY <1>1, <2>1, ElementOfSeq
    <3> QED
      BY <1>3, <2>1, <3>1, MessageFacts
  <2>2. CASE \E j \in 1..Len(commands) : p = Len(frames) + j
    <3>1. PICK j \in 1..Len(commands) : p = Len(frames) + j
      BY <2>2
    <3>2. commands[j] \in Requests
      BY ElementOfSeq
    <3> QED
      BY <1>4, <3>1, <3>2, MessageFacts
  <2> QED
    BY <1>5, <2>1, <2>2
<1> QED
  BY <1>2, <1>3, <1>4, <1>5, <1>6 DEF l

(* Every message of k was one of l, in the same order.                     *)
Within(k, l, g) ==
    /\ \A p \in DOMAIN k : k[p] # Nothing => g[p] \in DOMAIN l /\ k[p] = l[g[p]]
    /\ \A p, q \in DOMAIN k : k[p] # Nothing /\ k[q] # Nothing /\ p < q => g[p] < g[q]

LEMMA WithinKeeps ==
    ASSUME NEW k, NEW l, NEW g, Within(k, l, g), NEW s, NEW b
    PROVE  /\ OpenLine(l, s, b) => OpenLine(k, s, b)
           /\ VersionLast(l) => VersionLast(k)
           /\ NoneOwn(l) => NoneOwn(k)
<1>1. Nothing.own = FALSE /\ Nothing.command = "none"
  BY MessageFacts
<1>2. \A p \in DOMAIN k : k[p].own \/ k[p].command = "version" => k[p] # Nothing
  BY <1>1
<1>3. \A p \in DOMAIN k : k[p] # Nothing => g[p] \in DOMAIN l /\ k[p] = l[g[p]]
  BY DEF Within
<1>4. ASSUME NEW p \in DOMAIN k, k[p] # Nothing
      PROVE  /\ LastOn(l, g[p]) => LastOn(k, p)
             /\ OwnBehind(l, g[p]) => OwnBehind(k, p)
  <2>1. \A q \in DOMAIN k : k[q] # Nothing /\ p < q => g[p] < g[q] /\ g[q] \in DOMAIN l /\ k[q] = l[g[q]]
    BY <1>4 DEF Within
  <2> QED
    BY <2>1 DEF LastOn, OwnBehind
<1>5. OpenLine(l, s, b) => OpenLine(k, s, b)
  BY <1>2, <1>3, <1>4 DEF OpenLine
<1>6. VersionLast(l) => VersionLast(k)
  BY <1>2, <1>3, <1>4 DEF VersionLast
<1>7. NoneOwn(l) => NoneOwn(k)
  BY <1>2, <1>3 DEF NoneOwn
<1> QED
  BY <1>5, <1>6, <1>7

LEMMA SentByFacts ==
    ASSUME NEW s \in 1..9
    PROVE  /\ \A k \in 1..8 : Steps[k] \in SentBy(s) <=> k <= s
           /\ SentBy(s) \subseteq SentBy(s + 1)
           /\ SentBy(1) = {"stop"}
<1>1. \A k \in 1..8 : Steps[k] \in SentBy(s) <=> k <= s
  BY StepNames DEF SentBy
<1>2. SentBy(s) \subseteq SentBy(s + 1)
  BY DEF SentBy
<1>3. SentBy(1) = {"stop"}
  <2>1. {m \in 1..8 : m <= 1} = {1}
    OBVIOUS
  <2> QED
    BY <2>1, StepNames DEF SentBy
<1> QED
  BY <1>1, <1>2, <1>3

(* What lets the next step be sent.                                        *)
Ready(l, s, b) ==
    /\ b = 0 => \A p \in DOMAIN l : l[p] # Nothing => ~MustSucceed(l[p].command)
    /\ b = 1 /\ s > 1 => \A p \in DOMAIN l : l[p] # Nothing => l[p].own

LEMMA NextSent ==
    ASSUME NEW l, NEW k, DOMAIN l \subseteq Nat, DOMAIN k \subseteq Nat,
           NEW m \in DOMAIN k, DOMAIN k = DOMAIN l \cup {m},
           \A p \in DOMAIN l : p < m /\ k[p] = l[p],
           \A p \in DOMAIN l : l[p].own => l[p] # Nothing,
           NEW s \in 1..7, k[m] = [command |-> Steps[s + 1], own |-> TRUE],
           NEW b \in {0, 1}, OpenLine(l, s, b), Ready(l, s, b)
    PROVE  OpenLine(k, s + 1, b)
<1>1. k[m].own = TRUE /\ k[m].command = Steps[s + 1]
  OBVIOUS
<1>2. s + 1 \in 1..8 /\ s \in 1..9 /\ s + 1 \in 1..9 /\ ~(s + 1 <= s) /\ s + 1 <= 8
  OBVIOUS
<1>3. Steps[s + 1] \notin SentBy(s) /\ Steps[s + 1] \in SentBy(s + 1)
  BY <1>2, SentByFacts
<1>4. SentBy(s) \subseteq SentBy(s + 1)
  BY <1>2, SentByFacts
<1>5. \A q \in DOMAIN k : ~(m < q)
  OBVIOUS
<1>6. OwnBehind(k, m) /\ LastOn(k, m)
  BY <1>5 DEF OwnBehind, LastOn
<1>7. ASSUME NEW p \in DOMAIN k, k[p].own
      PROVE  /\ OwnBehind(k, p) /\ k[p].command \in SentBy(s + 1)
             /\ k[p].command = Steps[s + 1] => LastOn(k, p)
  <2>1. CASE p = m
    BY <1>1, <1>3, <1>6, <2>1
  <2>2. CASE p # m
    <3>1. p \in DOMAIN l /\ k[p] = l[p] /\ OwnBehind(l, p) /\ l[p].command \in SentBy(s)
      BY <1>7, <2>2 DEF OpenLine
    <3>2. OwnBehind(k, p)
      BY <1>1, <3>1 DEF OwnBehind
    <3> QED
      BY <1>3, <1>4, <3>1, <3>2
  <2> QED
    BY <2>1, <2>2
<1>8. CASE b = 0
  <2>1. ASSUME NEW p \in DOMAIN k, k[p] # Nothing
        PROVE  k[p].own /\ (MustSucceed(k[p].command) => k[p].command = Steps[s + 1])
    <3>1. CASE p = m
      BY <1>1, <3>1
    <3>2. CASE p # m
      BY <1>8, <2>1, <3>2 DEF OpenLine, Ready
    <3> QED
      BY <3>1, <3>2
  <2> QED
    BY <1>2, <1>7, <1>8, <2>1 DEF OpenLine
<1>9. CASE b = 1
  <2>1. ASSUME NEW p \in DOMAIN k, k[p] # Nothing, ~k[p].own
        PROVE  s + 1 <= 2 /\ (k[p].command = "version" => OwnBehind(k, p))
    <3>1. p \in DOMAIN l /\ l[p] = k[p] /\ l[p] # Nothing /\ ~l[p].own
      BY <1>1, <2>1
    <3>2. s = 1
      BY <1>9, <3>1 DEF Ready
    <3>3. l[p].command = "version" => OwnBehind(l, p)
      BY <1>9, <3>1 DEF OpenLine
    <3>4. OwnBehind(l, p) => OwnBehind(k, p)
      BY <1>1 DEF OwnBehind
    <3> QED
      BY <3>1, <3>2, <3>3, <3>4
  <2> QED
    BY <1>2, <1>7, <1>9, <2>1 DEF OpenLine
<1> QED
  BY <1>8, <1>9

(* The answer to the step awaited comes off the line.                      *)
LEMMA StepAnswered ==
    ASSUME NEW l, NEW k, DOMAIN l \subseteq Nat, NEW m \in DOMAIN l,
           DOMAIN k = DOMAIN l \ {m}, \A p \in DOMAIN k : m < p /\ k[p] = l[p],
           \A p \in DOMAIN l : l[p].own \in BOOLEAN,
           NEW s \in 1..8, l[m].command = Steps[s], l[m] # Nothing,
           NEW b \in {0, 1}, OpenLine(l, s, b)
    PROVE  /\ Ready(k, s, b)
           /\ s > 2 => l[m].own
           /\ s = 8 => \A p \in DOMAIN k : k[p] = Nothing
<1>1. s > 2 => l[m].own
  BY DEF OpenLine
<1>2. l[m].own => LastOn(l, m) /\ OwnBehind(l, m)
  BY DEF OpenLine
<1>3. s = 8 => \A p \in DOMAIN k : k[p] = Nothing
  BY <1>1, <1>2 DEF LastOn
<1>4. CASE b = 0
  <2>1. l[m].own /\ LastOn(l, m)
    BY <1>2, <1>4 DEF OpenLine
  <2> QED
    BY <1>1, <1>3, <1>4, <2>1 DEF Ready, LastOn
<1>5. CASE b = 1
  <2>1. ASSUME s > 1, NEW p \in DOMAIN k, k[p] # Nothing
        PROVE  k[p].own
    <3>1. CASE l[m].own
      BY <1>2, <2>1, <3>1 DEF LastOn
    <3>2. CASE ~l[m].own
      <4>1. s = 2 /\ Steps[s] = "version"
        BY <1>5, <2>1, <3>2, StepNames DEF OpenLine
      <4>2. OwnBehind(l, m)
        BY <1>5, <3>2, <4>1 DEF OpenLine
      <4> QED
        BY <2>1, <4>2 DEF OwnBehind
    <3> QED
      BY <3>1, <3>2
  <2> QED
    BY <1>1, <1>3, <1>5, <2>1 DEF Ready
<1> QED
  BY <1>4, <1>5

(* A step that may be left unanswered is passed over.                      *)
LEMMA StepPassed ==
    ASSUME NEW l, \A p \in DOMAIN l : l[p].own \in BOOLEAN, NEW s \in 1..8,
           ~MustSucceed(Steps[s]), NEW b \in {0, 1}, OpenLine(l, s, b)
    PROVE  s < 8 /\ Ready(l, s, b)
<1>1. s \in {1, 6}
  <2>1. s \in {1, 2, 3, 4, 5, 6, 7, 8}
    OBVIOUS
  <2> QED
    BY <2>1, StepNames DEF MustSucceed
<1>2. b = 0 => Ready(l, s, b)
  BY DEF OpenLine, Ready
<1>3. b = 1 => Ready(l, s, b)
  BY <1>1 DEF OpenLine, Ready
<1> QED
  BY <1>1, <1>2, <1>3

(* With the start accepted nothing is on the line.                         *)
LEMMA StartedLine ==
    ASSUME NEW l, \A p \in DOMAIN l : l[p].own \in BOOLEAN, NEW b \in {0, 1}
    PROVE  OpenLine(l, 9, b) <=> \A p \in DOMAIN l : l[p] = Nothing
<1>1. Nothing.own = FALSE
  BY MessageFacts
<1> QED
  BY <1>1 DEF OpenLine

LEMMA VersionOf ==
    ASSUME NEW l, NEW s, OpenLine(l, s, 0)
    PROVE  VersionLast(l)
<1>1. \A p \in DOMAIN l : l[p].command = "version" => l[p] # Nothing
  BY MessageFacts
<1>2. MustSucceed("version")
  BY DEF MustSucceed
<1> QED
  BY <1>1, <1>2 DEF OpenLine, VersionLast

(* What the module has done for this connection: what it said it accepted, *)
(* and every step that is behind; it streams only past the last command.   *)
Done(r, frames, n, commands, s) ==
    /\ \A i \in (n + 1)..Len(frames) :
          frames[i].kind = "answer" /\ frames[i].own /\ frames[i].ok =>
             /\ frames[i].to \in Settings => frames[i].to \in r.settings
             /\ frames[i].to = "start" => r.stream = "own"
    /\ r.stream = "own" => commands = <<>> /\ s >= 8
    /\ \A k \in 1..8 : k < s /\ Steps[k] \in Settings => Steps[k] \in r.settings
    /\ s = 9 => r.stream = "own"

LEMMA SentUpdates ==
    ASSUME NEW t \in TurnTypes
    PROVE  /\ \A b : LET u == [t EXCEPT !.power = b] IN u.sent = t.sent /\ u.progress = t.progress
           /\ LET u == [t EXCEPT !.progress = "refused"] IN u.sent = t.sent
           /\ \A s : [t EXCEPT !.step = s, !.progress = "started"].sent = t.sent
           /\ \A s, q : [t EXCEPT !.step = s, !.progress = "waiting", !.sent = q].sent = q
           /\ \A r : [t EXCEPT !.reads = r].sent = t.sent
           /\ [t EXCEPT !.heard = TRUE].sent = t.sent /\ [t EXCEPT !.faults = TRUE].sent = t.sent
BY DEF TurnTypes

(* A turn one step on has sent the next, or the start is behind it.        *)
StepOn(t, u) ==
    /\ u.step = t.step + 1
    /\ \/ t.step = 8 /\ u.sent = t.sent /\ u.progress = "started"
       \/ /\ t.step \in 1..7 /\ u.progress = "waiting"
          /\ u.sent = Append(t.sent, [command |-> Steps[t.step + 1], own |-> TRUE])

LEMMA AdvanceSends ==
    ASSUME NEW t \in TurnTypes, t.step <= 8
    PROVE  StepOn(t, Advance(t))
<1>1. t.step \in 1..8
  BY TurnFields
<1>2. CASE t.step = 8
  <2> DEFINE u == [t EXCEPT !.step = 9, !.progress = "started"]
  <2>1. Advance(t) = u
    BY <1>2, StepsFacts, TurnFields DEF Advance, TurnTypes
  <2>2. u.progress = "started" /\ u.step = 9 /\ u.sent = t.sent
    BY TurnValues, SentUpdates
  <2> HIDE DEF u
  <2> QED
    BY <1>2, <2>1, <2>2 DEF StepOn
<1>3. CASE t.step # 8
  <2> DEFINE q == Append(t.sent, [command |-> Steps[t.step + 1], own |-> TRUE])
             u == [t EXCEPT !.step = t.step + 1, !.progress = "waiting", !.sent = q]
  <2>1. Advance(t) = u
    BY <1>3, StepsFacts, TurnFields DEF Advance, TurnTypes
  <2>2. u.progress = "waiting" /\ u.step = t.step + 1 /\ u.sent = q
    <3> HIDE DEF q
    <3> QED
      BY TurnValues, SentUpdates
  <2>3. t.step \in 1..7
    BY <1>1, <1>3
  <2> HIDE DEF u
  <2> QED
    BY <2>1, <2>2, <2>3 DEF StepOn
<1> QED
  BY <1>2, <1>3

(* What an answer has to be for the step awaited to be behind.             *)
LEMMA HandleSends ==
    ASSUME NEW t \in TurnTypes, NEW f \in Frames
    PROVE  LET u == Handle(t, f) IN
           \/ /\ u.step = t.step /\ u.sent = t.sent
              /\ u.progress \in {t.progress, "refused"}
           \/ /\ f.kind = "answer" /\ t.step \in 1..8 /\ f.to = Steps[t.step]
              /\ MustSucceed(Steps[t.step]) => f.ok
              /\ StepOn(t, u)
<1>1. CASE Claims(t, f)
  <2>1. f.kind = "answer" /\ f.ok \in BOOLEAN /\ f.to \in Commands
    BY <1>1, MessageFacts DEF Claims
  <2>2. t.step \in 1..8
    <3>1. t.step <= 8
      BY <1>1, StepsFacts DEF Claims
    <3> QED
      BY <3>1, TurnFields
  <2>3. f.to = Steps[t.step]
    <3>1. Steps[t.step] \in Commands /\ Opcode(f.to) = Opcode(Steps[t.step])
      BY <1>1, <2>2, StepsFacts DEF Claims
    <3>2. \A c \in Commands : c # "tag operation"
      BY StepNames
    <3>3. CASE Opcode(f.to) = "tag operation"
      BY <1>1, <3>3 DEF Claims
    <3>4. CASE Opcode(f.to) # "tag operation"
      BY <3>1, <3>2, <3>4 DEF Opcode
    <3> QED
      BY <3>3, <3>4
  <2>4. Handle(t, f) = Answer(t, f)
    BY <1>1 DEF Handle
  <2>5. CASE MustSucceed(Steps[t.step]) /\ ~f.ok
    <3> DEFINE u == [t EXCEPT !.progress = "refused"]
    <3>1. Handle(t, f) = u
      BY <2>4, <2>5 DEF Answer
    <3>2. u.progress = "refused" /\ u.step = t.step /\ u.sent = t.sent
      BY TurnValues, SentUpdates, Zenon
    <3> HIDE DEF u
    <3> QED
      BY <3>1, <3>2
  <2>6. CASE ~(MustSucceed(Steps[t.step]) /\ ~f.ok)
    <3> DEFINE b == t.power \/ (Steps[t.step] = "limits" /\ f.ok)
               u == [t EXCEPT !.power = b]
    <3>1. b \in BOOLEAN
      BY <2>1, TurnFields
    <3>2. u \in TurnTypes
      BY <3>1, TurnUpdates
    <3>3. u.step = t.step /\ u.sent = t.sent
      BY TurnValues
    <3>4. Handle(t, f) = Advance(u)
      <4>1. [t EXCEPT !.power = @ \/ (Steps[t.step] = "limits" /\ f.ok)] = u
        BY DEF TurnTypes
      <4> QED
        BY <2>4, <2>6, <4>1 DEF Answer
    <3> HIDE DEF u, b
    <3>5. StepOn(u, Advance(u))
      BY <2>2, <3>2, <3>3, AdvanceSends
    <3>6. StepOn(t, Advance(u))
      BY <3>3, <3>5 DEF StepOn
    <3> QED
      BY <2>1, <2>2, <2>3, <2>6, <3>4, <3>6
  <2> QED
    BY <2>5, <2>6
<1>2. CASE ~Claims(t, f)
  <2> DEFINE u == [t EXCEPT !.reads = Append(t.reads, f.number)]
             v == [t EXCEPT !.heard = TRUE]
             w == [t EXCEPT !.faults = TRUE]
  <2>1. Handle(t, f) \in {u, v, w}
    BY <1>2 DEF Handle, Decode
  <2>2. /\ u.step = t.step /\ u.sent = t.sent /\ u.progress = t.progress
        /\ v.step = t.step /\ v.sent = t.sent /\ v.progress = t.progress
        /\ w.step = t.step /\ w.sent = t.sent /\ w.progress = t.progress
    BY TurnValues, SentUpdates
  <2> HIDE DEF u, v, w
  <2> QED
    BY <2>1, <2>2
<1> QED
  BY <1>1, <1>2

LEMMA OneMore ==
    ASSUME NEW a \in Int, NEW b \in Int, a <= b + 1
    PROVE  a..(b + 1) = (a..b) \cup {b + 1} /\ b + 1 \in a..(b + 1)
OBVIOUS

LEMMA OneLess ==
    ASSUME NEW a \in Int, NEW b \in Int, a <= b
    PROVE  (a + 1)..b = (a..b) \ {a} /\ \A p \in (a + 1)..b : a < p
OBVIOUS

(* Append(commands, r), as provers can tell it.                            *)
Longer(all, commands, r) ==
    /\ all \in Seq(Requests) /\ Len(all) = Len(commands) + 1 /\ all[Len(commands) + 1] = r
    /\ \A j \in 1..Len(commands) : all[j] = commands[j]

Grown(k, l, m, r) ==
    /\ m \in DOMAIN k /\ DOMAIN k = DOMAIN l \cup {m} /\ k[m] = r
    /\ \A p \in DOMAIN l : p < m /\ k[p] = l[p]

LEMMA LineAppended ==
    ASSUME NEW frames \in Seq(Frames), NEW commands \in Seq(Requests), NEW n \in 0..Len(frames),
           NEW r \in Requests, NEW all, Longer(all, commands, r)
    PROVE  Grown(Line(frames, n, all), Line(frames, n, commands),
                 Len(frames) + Len(commands) + 1, r)
<1> DEFINE l == Line(frames, n, commands)
           k == Line(frames, n, all)
           m == Len(frames) + Len(commands) + 1
<1>1. all \in Seq(Requests) /\ Len(all) = Len(commands) + 1 /\ all[Len(commands) + 1] = r
        /\ \A j \in 1..Len(commands) : all[j] = commands[j]
  BY DEF Longer
<1>2. Len(frames) \in Nat /\ Len(commands) \in Nat /\ n \in Nat /\ n <= Len(frames)
  OBVIOUS
<1>3. /\ DOMAIN l = (n + 1)..(Len(frames) + Len(commands))
      /\ \A p \in (n + 1)..Len(frames) : l[p] = Message(frames[p])
      /\ \A j \in 1..Len(commands) : l[Len(frames) + j] = commands[j]
      /\ \A p \in DOMAIN l : \/ p \in (n + 1)..Len(frames)
                             \/ \E j \in 1..Len(commands) : p = Len(frames) + j
  BY LineFacts
<1>4. /\ DOMAIN k = (n + 1)..(Len(frames) + Len(all))
      /\ \A p \in (n + 1)..Len(frames) : k[p] = Message(frames[p])
      /\ \A j \in 1..Len(all) : k[Len(frames) + j] = all[j]
  BY <1>1, LineFacts
<1> HIDE DEF l, k
<1>5. DOMAIN k = DOMAIN l \cup {m} /\ m \in DOMAIN k
  <2>1. Len(frames) + Len(all) = Len(frames) + Len(commands) + 1
          /\ n + 1 <= Len(frames) + Len(commands) + 1
          /\ n + 1 \in Int /\ Len(frames) + Len(commands) \in Int
    BY <1>1, <1>2
  <2> QED
    BY <1>3, <1>4, <2>1, OneMore
<1>6. k[m] = r
  <2>1. m = Len(frames) + (Len(commands) + 1) /\ Len(commands) + 1 \in 1..Len(all)
    BY <1>1, <1>2
  <2> QED
    BY <1>1, <1>4, <2>1
<1>7. ASSUME NEW p \in DOMAIN l
      PROVE  p < m /\ k[p] = l[p]
  <2>1. p < m
    BY <1>2, <1>3
  <2>2. CASE p \in (n + 1)..Len(frames)
    BY <1>3, <1>4, <2>1, <2>2
  <2>3. CASE \E j \in 1..Len(commands) : p = Len(frames) + j
    <3>1. PICK j \in 1..Len(commands) : p = Len(frames) + j
      BY <2>3
    <3>2. j \in 1..Len(all)
      BY <1>1, <1>2
    <3> QED
      BY <1>1, <1>3, <1>4, <2>1, <3>1, <3>2
  <2> QED
    BY <1>3, <2>2, <2>3
<1>8. Grown(k, l, m, r)
  <2> HIDE DEF m
  <2> QED
    BY <1>5, <1>6, <1>7 DEF Grown
<1> QED
  BY <1>8 DEF l, k

LEMMA LineTaken ==
    ASSUME NEW frames \in Seq(Frames), NEW commands \in Seq(Requests), NEW n \in Nat,
           n < Len(frames)
    PROVE  LET l == Line(frames, n, commands)
               k == Line(frames, n + 1, commands) IN
           /\ n + 1 \in DOMAIN l /\ DOMAIN k = DOMAIN l \ {n + 1}
           /\ l[n + 1] = Message(frames[n + 1])
           /\ \A p \in DOMAIN k : n + 1 < p /\ k[p] = l[p]
<1> DEFINE l == Line(frames, n, commands)
           k == Line(frames, n + 1, commands)
<1>1. /\ n \in 0..Len(frames) /\ n + 1 \in 0..Len(frames) /\ n + 1 \in (n + 1)..Len(frames)
      /\ Len(frames) \in Nat /\ Len(commands) \in Nat
  OBVIOUS
<1>2. /\ DOMAIN l = (n + 1)..(Len(frames) + Len(commands))
      /\ \A p \in (n + 1)..Len(frames) : l[p] = Message(frames[p])
  BY <1>1, LineFacts
<1>3. DOMAIN k = (n + 1 + 1)..(Len(frames) + Len(commands))
  BY <1>1, LineFacts
<1>4. DOMAIN k = DOMAIN l \ {n + 1} /\ \A p \in DOMAIN k : n + 1 < p
  <2>1. n + 1 <= Len(frames) + Len(commands) /\ n + 1 \in Int
          /\ Len(frames) + Len(commands) \in Int
    BY <1>1
  <2> QED
    BY <1>2, <1>3, <2>1, OneLess
<1>5. \A p \in DOMAIN k : k[p] = l[p]
  BY <1>1, <1>2, <1>3 DEF Line
<1> HIDE DEF l, k
<1> QED
  BY <1>1, <1>2, <1>4, <1>5 DEF l, k

(* The turn that has taken in the first n frames, with what it will send.  *)
TurnLine(t, n) ==
    /\ t.progress = "started" => t.step = 9
    /\ port = "open" /\ backlog < 2 =>
          /\ OpenLine(Line(toHost, n, toReader \o t.sent), t.step, backlog)
          /\ ~reader.cycled => Done(reader, toHost, n, toReader \o t.sent, t.step)

LEMMA SentOn ==
    ASSUME NEW t \in TurnTypes, toReader \in Seq(Requests), NEW r \in Requests
    PROVE  toReader \o Append(t.sent, r) = Append(toReader \o t.sent, r)
             /\ toReader \o t.sent \in Seq(Requests)
<1>1. t.sent \in Seq(Requests)
  BY TurnFields
<1> DEFINE a == toReader \o Append(t.sent, r)
           b == Append(toReader \o t.sent, r)
<1>2. Append(t.sent, r) \in Seq(Requests) /\ toReader \o t.sent \in Seq(Requests)
  BY <1>1, AppendProperties, ConcatProperties
<1>3. a = b
  BY <1>1, <1>2
<1> QED
  BY <1>2, <1>3

(* One step on.                                                            *)
LEMMA TurnStepsOn ==
    ASSUME TypeOK, NEW t \in TurnTypes, NEW u \in TurnTypes, NEW n \in 0..Len(toHost), StepOn(t, u),
           port = "open" /\ backlog < 2 =>
              LET c == toReader \o t.sent
                  l == Line(toHost, n, c) IN
              /\ OpenLine(l, t.step, backlog) /\ Ready(l, t.step, backlog)
              /\ t.step = 8 => \A p \in DOMAIN l : l[p] = Nothing
              /\ ~reader.cycled =>
                    /\ Done(reader, toHost, n, c, t.step)
                    /\ Steps[t.step] \in Settings => Steps[t.step] \in reader.settings
                    /\ t.step = 8 => reader.stream = "own"
    PROVE  TurnLine(u, n)
<1> DEFINE c == toReader \o t.sent
           d == toReader \o u.sent
           l == Line(toHost, n, c)
           k == Line(toHost, n, d)
<1>1. toReader \in Seq(Requests) /\ toHost \in Seq(Frames) /\ backlog \in 0..2
  BY TypesAre
<1>2. t.step \in 1..8 /\ u.step = t.step + 1 /\ (u.progress = "started" => u.step = 9)
  BY DEF StepOn
<1>3. t.sent \in Seq(Requests) /\ c \in Seq(Requests)
  BY <1>1, TurnFields, ConcatProperties
<1>4. SUFFICES ASSUME port = "open" /\ backlog < 2
               PROVE  /\ OpenLine(k, u.step, backlog)
                      /\ ~reader.cycled => Done(reader, toHost, n, d, u.step)
  BY <1>2 DEF TurnLine
<1>5. backlog \in {0, 1}
  BY <1>1, <1>4
<1> HIDE DEF c, l
<1>6. /\ OpenLine(l, t.step, backlog) /\ Ready(l, t.step, backlog)
      /\ t.step = 8 => \A p \in DOMAIN l : l[p] = Nothing
      /\ ~reader.cycled =>
            /\ Done(reader, toHost, n, c, t.step)
            /\ Steps[t.step] \in Settings => Steps[t.step] \in reader.settings
            /\ t.step = 8 => reader.stream = "own"
  BY <1>4 DEF c, l
<1>7. \A p \in DOMAIN l : l[p].own \in BOOLEAN /\ (l[p].own => l[p] # Nothing)
  BY <1>1, <1>3, LineFacts DEF l
<1>8. CASE t.step = 8
  <2>1. d = c
    BY SMTT(60), <1>2, <1>8 DEF StepOn, c
  <2>2. k = l
    BY <2>1 DEF l
  <2>3. OpenLine(l, 9, backlog)
    BY <1>5, <1>6, <1>7, <1>8, StartedLine
  <2>4. ~reader.cycled => Done(reader, toHost, n, c, 9)
    <3>1. \A m \in 1..8 : m < 9 => m < 8 \/ m = 8
      OBVIOUS
    <3> QED
      BY <1>6, <1>8, <3>1 DEF Done
  <2> HIDE DEF k, d
  <2> QED
    BY <1>2, <1>8, <2>1, <2>2, <2>3, <2>4
<1>9. CASE t.step # 8
  <2> DEFINE r == [command |-> Steps[t.step + 1], own |-> TRUE]
             m == Len(toHost) + Len(c) + 1
  <2>1. t.step \in 1..7
    BY <1>2, <1>9
  <2>2. r \in Requests
    <3>1. t.step + 1 \in 1..8
      BY <2>1
    <3>2. Steps[t.step + 1] \in Commands
      BY <3>1, StepsFacts
    <3> QED
      BY <3>2, RequestTypes
  <2>3. d = Append(c, r)
    BY <1>1, <1>9, <2>2, SentOn DEF StepOn, c
  <2> HIDE DEF d
  <2>4. /\ m \in DOMAIN k /\ DOMAIN k = DOMAIN l \cup {m} /\ k[m] = r
        /\ \A p \in DOMAIN l : p < m /\ k[p] = l[p]
    <3> HIDE DEF r
    <3>1. Longer(d, c, r)
      BY <1>3, <2>2, <2>3, AppendProperties DEF Longer
    <3>2. Grown(k, l, m, r)
      BY <1>1, <1>3, <2>2, <3>1, LineAppended DEF l
    <3> HIDE DEF k, m
    <3> QED
      BY <3>2 DEF Grown
  <2>5. DOMAIN l \subseteq Nat
    BY <1>1, <1>3, LineFacts DEF l
  <2>6. DOMAIN k \subseteq Nat
    <3>1. m \in Nat
      BY <1>1, <1>3
    <3> QED
      BY <2>4, <2>5, <3>1
  <2> HIDE DEF k, m
  <2>7. OpenLine(k, t.step + 1, backlog)
    BY ZenonT(60), <1>5, <1>6, <1>7, <2>1, <2>4, <2>5, <2>6, NextSent
  <2>8. ~reader.cycled => Done(reader, toHost, n, d, t.step + 1)
    <3>1. \A i \in 1..8 : i < t.step + 1 => i < t.step \/ i = t.step
      BY <2>1
    <3>2. ~(t.step >= 8) /\ t.step + 1 # 9
      BY <2>1
    <3> QED
      BY <1>6, <3>1, <3>2 DEF Done
  <2> QED
    BY <1>2, <2>7, <2>8
<1> QED
  BY <1>8, <1>9

LEMMA TurnHandled ==
    ASSUME TypeOK, NEW t \in TurnTypes, NEW n \in Nat, n < Len(toHost), TurnLine(t, n)
    PROVE  TurnLine(Handle(t, toHost[n + 1]), n + 1)
<1> DEFINE f == toHost[n + 1]
           u == Handle(t, f)
           c == toReader \o t.sent
           l == Line(toHost, n, c)
           k == Line(toHost, n + 1, c)
<1>1. toReader \in Seq(Requests) /\ toHost \in Seq(Frames) /\ backlog \in 0..2
        /\ Len(toHost) \in Nat
  BY TypesAre
<1>2. n \in 0..Len(toHost) /\ n + 1 \in 0..Len(toHost) /\ n + 1 \in 1..Len(toHost) /\ f \in Frames
  BY <1>1, ElementOfSeq
<1>3. t.sent \in Seq(Requests) /\ c \in Seq(Requests) /\ t.step \in 1..9
  BY <1>1, TurnFields, ConcatProperties
<1>4. u \in TurnTypes
  BY <1>2, HandleFacts
<1>5. \/ u.step = t.step /\ u.sent = t.sent /\ u.progress \in {t.progress, "refused"}
      \/ /\ f.kind = "answer" /\ t.step \in 1..8 /\ f.to = Steps[t.step]
         /\ MustSucceed(Steps[t.step]) => f.ok
         /\ StepOn(t, u)
  BY <1>2, HandleSends
<1> HIDE DEF f, u, c
<1>13. SUFFICES TurnLine(u, n + 1)
  BY DEF u, f
<1>6. /\ n + 1 \in DOMAIN l /\ DOMAIN k = DOMAIN l \ {n + 1}
      /\ l[n + 1] = Message(f)
      /\ \A p \in DOMAIN k : n + 1 < p /\ k[p] = l[p]
  BY ZenonT(60), <1>1, <1>3, LineTaken DEF f
<1>7. /\ DOMAIN l \subseteq Nat
      /\ \A p \in DOMAIN l : l[p].own \in BOOLEAN /\ (l[p].own => l[p] # Nothing)
  BY <1>1, <1>2, <1>3, LineFacts
<1> HIDE DEF l, k
<1>8. port = "open" /\ backlog < 2 =>
        /\ OpenLine(l, t.step, backlog)
        /\ ~reader.cycled => Done(reader, toHost, n, c, t.step)
  BY DEF TurnLine, l, c
<1>9. OpenLine(l, t.step, backlog) => OpenLine(k, t.step, backlog)
  <2> DEFINE g == [p \in Nat |-> p]
  <2>1. Within(k, l, g)
    BY <1>6, <1>7 DEF Within
  <2> QED
    BY <2>1, WithinKeeps
<1>10. Done(reader, toHost, n, c, t.step) => Done(reader, toHost, n + 1, c, t.step)
  <2>1. (n + 1 + 1)..Len(toHost) \subseteq (n + 1)..Len(toHost)
    BY <1>1
  <2> QED
    BY <2>1 DEF Done
<1>11. CASE u.step = t.step /\ u.sent = t.sent /\ u.progress \in {t.progress, "refused"}
  <2>1. u.progress = "started" => u.step = 9
    BY <1>11 DEF TurnLine
  <2>2. toReader \o u.sent = c
    BY <1>11 DEF c
  <2>3. port = "open" /\ backlog < 2 =>
          /\ OpenLine(k, u.step, backlog)
          /\ ~reader.cycled => Done(reader, toHost, n + 1, c, u.step)
    BY <1>8, <1>9, <1>10, <1>11
  <2>4. k = Line(toHost, n + 1, toReader \o u.sent)
    BY <2>2 DEF k
  <2> QED
    BY <2>1, <2>2, <2>3, <2>4 DEF TurnLine
<1>12. CASE /\ f.kind = "answer" /\ t.step \in 1..8 /\ f.to = Steps[t.step]
            /\ MustSucceed(Steps[t.step]) => f.ok
            /\ StepOn(t, u)
  <2>1. Message(f).command = f.to /\ Message(f).own = f.own /\ Message(f) # Nothing
    BY <1>2, <1>12, MessageFacts
  <2>2. ASSUME port = "open", backlog < 2
        PROVE  /\ OpenLine(k, t.step, backlog) /\ Ready(k, t.step, backlog)
               /\ t.step = 8 => \A p \in DOMAIN k : k[p] = Nothing
               /\ ~reader.cycled =>
                     /\ Done(reader, toHost, n + 1, c, t.step)
                     /\ Steps[t.step] \in Settings => Steps[t.step] \in reader.settings
                     /\ t.step = 8 => reader.stream = "own"
    <3>1. backlog \in {0, 1}
      BY <1>1, <2>2
    <3>2. /\ Ready(k, t.step, backlog)
          /\ t.step > 2 => l[n + 1].own
          /\ t.step = 8 => \A p \in DOMAIN k : k[p] = Nothing
      BY SMTT(60), <1>6, <1>7, <1>8, <1>12, <2>1, <2>2, <3>1, StepAnswered
    <3>3. Steps[t.step] \in Settings \/ t.step = 8 => t.step > 2 /\ MustSucceed(Steps[t.step])
      <4>1. t.step \in {1, 2, 3, 4, 5, 6, 7, 8}
        BY <1>12
      <4> QED
        BY <4>1, StepNames DEF Settings, MustSucceed
    <3>4. n + 1 \in (n + 1)..Len(toHost)
      BY <1>1
    <3>5. ASSUME ~reader.cycled
          PROVE  /\ Steps[t.step] \in Settings => Steps[t.step] \in reader.settings
                 /\ t.step = 8 => reader.stream = "own"
      <4>1. Done(reader, toHost, n, c, t.step)
        BY <1>8, <2>2, <3>5
      <4>2. toHost[n + 1].kind = "answer" /\ toHost[n + 1].to = Steps[t.step]
              /\ (MustSucceed(Steps[t.step]) => toHost[n + 1].ok)
              /\ (t.step > 2 => toHost[n + 1].own)
        BY <1>6, <1>12, <2>1, <3>2 DEF f
      <4> QED
        BY <3>3, <3>4, <4>1, <4>2, StepNames DEF Done
    <3> QED
      BY <1>8, <1>9, <1>10, <2>2, <3>2, <3>5
  <2>3. StepOn(t, u) /\ n + 1 \in 0..Len(toHost)
    BY <1>2, <1>12
  <2> QED
    BY <1>4, <2>2, <2>3, TurnStepsOn DEF k, c
<1> QED
  BY <1>5, <1>11, <1>12

LEMMA TurnPassed ==
    ASSUME TypeOK, NEW t \in TurnTypes, NEW n \in 0..Len(toHost), TurnLine(t, n),
           t.step <= 8
    PROVE  TurnLine(PastDeadline(t), n)
<1> DEFINE c == toReader \o t.sent
           l == Line(toHost, n, c)
<1>1. toReader \in Seq(Requests) /\ toHost \in Seq(Frames) /\ backlog \in 0..2
  BY TypesAre
<1>2. t.sent \in Seq(Requests) /\ c \in Seq(Requests) /\ t.step \in 1..8
  BY <1>1, TurnFields, ConcatProperties
<1>3. \A p \in DOMAIN l : l[p].own \in BOOLEAN /\ (l[p].own => l[p] # Nothing)
  BY <1>1, <1>2, LineFacts
<1>4. CASE MustSucceed(Steps[t.step])
  <2> DEFINE u == [t EXCEPT !.progress = "refused"]
  <2>1. PastDeadline(t) = u
    BY <1>4 DEF PastDeadline
  <2>2. u.progress = "refused" /\ u.step = t.step /\ u.sent = t.sent
    BY TurnValues, SentUpdates, Zenon
  <2> HIDE DEF u
  <2> QED
    BY <2>1, <2>2 DEF TurnLine
<1>5. CASE ~MustSucceed(Steps[t.step])
  <2>1. PastDeadline(t) = Advance(t)
    BY <1>5 DEF PastDeadline
  <2>2. Advance(t) \in TurnTypes /\ StepOn(t, Advance(t))
    BY AdvanceFacts, AdvanceSends
  <2> HIDE DEF l, c
  <2>3. ASSUME port = "open", backlog < 2
        PROVE  /\ OpenLine(l, t.step, backlog) /\ Ready(l, t.step, backlog)
               /\ t.step = 8 => \A p \in DOMAIN l : l[p] = Nothing
               /\ ~reader.cycled =>
                     /\ Done(reader, toHost, n, c, t.step)
                     /\ Steps[t.step] \in Settings => Steps[t.step] \in reader.settings
                     /\ t.step = 8 => reader.stream = "own"
    <3>1. backlog \in {0, 1}
      BY <1>1, <2>3
    <3>2. OpenLine(l, t.step, backlog) /\ (~reader.cycled => Done(reader, toHost, n, c, t.step))
      BY <2>3 DEF TurnLine, l, c
    <3>3. t.step < 8 /\ Ready(l, t.step, backlog)
      BY <1>2, <1>3, <1>5, <3>1, <3>2, StepPassed
    <3>4. Steps[t.step] \notin Settings
      <4>1. t.step \in {1, 2, 3, 4, 5, 6, 7, 8}
        BY <1>2
      <4> QED
        BY <1>5, <4>1, StepNames DEF Settings, MustSucceed
    <3> QED
      BY <3>2, <3>3, <3>4
  <2> QED
    BY <2>1, <2>2, <2>3, TurnStepsOn DEF l, c
<1> QED
  BY <1>4, <1>5

(* What the thread, the line and the module know of one another.           *)
AnnouncedInv ==
    /\ start.announced \/ start.progress = "started" => start.step = 9
    /\ port = "open" /\ backlog < 2 =>
          /\ OpenLine(Line(toHost, 0, toReader), start.step, backlog)
          /\ ~reader.cycled => Done(reader, toHost, 0, toReader, start.step)
    /\ port \in {"ending", "closed"} /\ backlog = 0 => VersionLast(Line(toHost, 0, toReader))
    /\ port = "closed" => reader.stream # "own" /\ NoneOwn(Line(toHost, 0, toReader))

LEMMA TurnLined ==
    ASSUME TypeOK, StartInv, InSequence(toHost), AnnouncedInv, NEW n \in 0..Len(toHost)
    PROVE  Turns(n) \in TurnTypes /\ TurnLine(Turns(n), n) /\ start.step <= Turns(n).step
<1>1. toHost \in Seq(Frames) /\ Len(toHost) \in Nat /\ n \in Nat /\ toReader \in Seq(Requests)
  BY TypesAre
<1>2. PICK turn : TurnsOf(turn, n) /\ Turns(n) = turn[n]
  BY <1>1, TurnsExist
<1>3. Turns(n) \in TurnTypes /\ start.step <= Turns(n).step
  BY TurnFacts DEF TurnGood
<1> DEFINE S == {k \in 0..n : turn[k] \in TurnTypes /\ TurnLine(turn[k], k)}
<1>4. 0 \in S
  <2>1. turn[0] = NewTurn
    BY <1>1, <1>2 DEF TurnsOf
  <2>2. NewTurn \in TurnTypes
    <3>1. Turns(0) = NewTurn
      <4>1. PICK first : TurnsOf(first, 0) /\ Turns(0) = first[0]
        BY TurnsExist
      <4> QED
        BY <4>1 DEF TurnsOf
    <3>2. 0 \in 0..Len(toHost)
      BY <1>1
    <3> QED
      BY <3>1, <3>2, TurnFacts DEF TurnGood
  <2>3. NewTurn.progress = start.progress /\ NewTurn.step = start.step /\ NewTurn.sent = <<>>
    BY DEF NewTurn
  <2>4. toReader \o <<>> = toReader
    BY <1>1
  <2>5. TurnLine(NewTurn, 0)
    BY <2>3, <2>4, Zenon DEF TurnLine, AnnouncedInv
  <2> QED
    BY <1>1, <2>1, <2>2, <2>5
<1>5. ASSUME NEW k \in 0..n, k < n, k \in S
      PROVE  k + 1 \in S
  <2>1. turn[k + 1] = Handle(turn[k], toHost[k + 1])
    BY <1>1, <1>2, <1>5 DEF TurnsOf
  <2>2. k \in Nat /\ k < Len(toHost) /\ turn[k] \in TurnTypes /\ TurnLine(turn[k], k)
    BY <1>1, <1>5
  <2>3. toHost[k + 1] \in Frames
    BY <1>1, <2>2, ElementOfSeq
  <2>4. turn[k + 1] \in TurnTypes
    BY <2>1, <2>2, <2>3, HandleFacts
  <2>5. TurnLine(turn[k + 1], k + 1)
    BY <2>1, <2>2, TurnHandled
  <2> QED
    BY <1>5, <2>4, <2>5
<1>6. n \in S
  <2> HIDE DEF S
  <2>1. \A k \in 0..n : k < n /\ k \in S => k + 1 \in S
    BY <1>5
  <2>2. \A k \in 0..n : k \in S
    BY <1>1, <1>4, <2>1, Counting, Zenon
  <2> QED
    BY <1>1, <2>2
<1> QED
  BY <1>2, <1>3, <1>6

(* What a turn concludes with.                                             *)
LEMMA TakenLine ==
    ASSUME TypeOK, StartInv, InSequence(toHost), AnnouncedInv, Read \/ TimeOut \/ PortEnds
    PROVE  /\ port = "open"
           /\ \E n \in 0..Len(toHost), t \in TurnTypes, ended, reached \in BOOLEAN :
                 /\ TurnLine(t, n) /\ Conclude(t, n, ended, reached)
                 /\ ended \/ reached
                 /\ start.step <= t.step
<1>1. Chunks \subseteq 0..Len(toHost)
  BY Bounds DEF Chunks, TypeOK
<1>2. \A n \in Chunks : Turns(n) \in TurnTypes /\ TurnLine(Turns(n), n)
                      /\ start.step <= Turns(n).step
  BY <1>1, TurnLined
<1>3. port = "open"
  BY DEF Read, TimeOut, PortEnds, Taking
<1>4. CASE Read
  <2>1. PICK n \in Chunks : Conclude(Turns(n), n, FALSE, TRUE)
    BY <1>4 DEF Read
  <2> QED
    BY <1>1, <1>2, <1>3, <2>1
<1>5. CASE PortEnds
  <2>1. PICK n \in Chunks, reached \in BOOLEAN : Conclude(Turns(n), n, TRUE, reached)
    BY <1>5 DEF PortEnds
  <2> QED
    BY <1>1, <1>2, <1>3, <2>1
<1>6. CASE TimeOut
  <2>1. PICK n \in Chunks : LET t == Turns(n) IN
                              /\ t.step = start.step /\ t.progress = "waiting"
                              /\ Conclude(PastDeadline(t), n, FALSE, TRUE)
    BY <1>6 DEF TimeOut
  <2> DEFINE t == Turns(n)
             u == PastDeadline(t)
  <2>2. t \in TurnTypes /\ TurnLine(t, n) /\ t.step <= 8 /\ n \in 0..Len(toHost)
    BY <1>1, <1>2, <1>6, <2>1 DEF TimeOut, StartInv
  <2>3. Conclude(u, n, FALSE, TRUE)
    BY <2>1
  <2> HIDE DEF t
  <2>4. u \in TurnTypes
    <3> DEFINE w == [t EXCEPT !.progress = "refused"]
    <3>1. w \in TurnTypes
      BY <2>2, TurnUpdates, Zenon
    <3>2. Advance(t) \in TurnTypes
      BY <2>2, AdvanceFacts
    <3>3. u \in {w, Advance(t)}
      BY DEF PastDeadline
    <3> HIDE DEF u, w
    <3> QED
      BY <3>1, <3>2, <3>3
  <2>5. TurnLine(u, n)
    BY <2>2, TurnPassed
  <2>6. start.step <= u.step
    <3>1. start.step <= t.step /\ t.step \in 1..8 /\ start.step \in 1..9
      BY <1>2, <2>1, <2>2, TurnFields, TypesAre, StartsFacts DEF t
    <3> DEFINE w == [t EXCEPT !.progress = "refused"]
    <3>2. w.step = t.step
      BY <2>2, TurnValues, Zenon
    <3>3. Advance(t).step = t.step + 1
      BY <2>2, AdvanceFacts
    <3>4. u \in {w, Advance(t)}
      BY DEF PastDeadline
    <3> HIDE DEF u, w
    <3> QED
      BY <3>1, <3>2, <3>3, <3>4
  <2> HIDE DEF u
  <2> QED
    BY <1>3, <2>2, <2>3, <2>4, <2>5, <2>6
<1> QED
  BY <1>4, <1>5, <1>6

LEMMA WholeLine ==
    ASSUME NEW frames \in Seq(Frames), NEW commands \in Seq(Requests)
    PROVE  LET l == Line(frames, 0, commands) IN
           /\ DOMAIN l \subseteq Nat
           /\ \A p \in 1..Len(frames) : p \in DOMAIN l /\ l[p] = Message(frames[p])
           /\ \A j \in 1..Len(commands) :
                 Len(frames) + j \in DOMAIN l /\ l[Len(frames) + j] = commands[j]
           /\ \A p \in DOMAIN l : \/ p \in 1..Len(frames)
                                  \/ \E j \in 1..Len(commands) : p = Len(frames) + j
<1> DEFINE l == Line(frames, 0, commands)
<1>1. 0 \in 0..Len(frames)
  OBVIOUS
<1>2. /\ DOMAIN l \subseteq Nat
      /\ \A p \in (0 + 1)..Len(frames) : p \in DOMAIN l /\ l[p] = Message(frames[p])
      /\ \A j \in 1..Len(commands) :
            Len(frames) + j \in DOMAIN l /\ l[Len(frames) + j] = commands[j]
      /\ \A p \in DOMAIN l : \/ p \in (0 + 1)..Len(frames)
                             \/ \E j \in 1..Len(commands) : p = Len(frames) + j
  BY <1>1, LineFacts, Zenon
<1>3. (0 + 1)..Len(frames) = 1..Len(frames)
  OBVIOUS
<1> HIDE DEF l
<1>4. /\ DOMAIN l \subseteq Nat
      /\ \A p \in 1..Len(frames) : p \in DOMAIN l /\ l[p] = Message(frames[p])
      /\ \A j \in 1..Len(commands) :
            Len(frames) + j \in DOMAIN l /\ l[Len(frames) + j] = commands[j]
      /\ \A p \in DOMAIN l : \/ p \in 1..Len(frames)
                             \/ \E j \in 1..Len(commands) : p = Len(frames) + j
  BY <1>2, <1>3, Zenon
<1> QED
  BY <1>4, Zenon DEF l

(* Sequences with one or some of the messages gone, or one more.           *)
RestOf(rest, frames, n) ==
    /\ rest \in Seq(Frames) /\ Len(rest) = Len(frames) - n
    /\ \A i \in 1..Len(rest) : rest[i] = frames[n + i]

LEMMA LineRest ==
    ASSUME NEW frames \in Seq(Frames), NEW commands \in Seq(Requests), NEW n \in 0..Len(frames),
           NEW rest, RestOf(rest, frames, n)
    PROVE  Within(Line(rest, 0, commands), Line(frames, n, commands), [p \in Nat |-> n + p])
<1> DEFINE l == Line(frames, n, commands)
           k == Line(rest, 0, commands)
           g == [p \in Nat |-> n + p]
<1>1. /\ rest \in Seq(Frames) /\ Len(rest) = Len(frames) - n /\ 0 \in 0..Len(rest)
      /\ Len(frames) \in Nat /\ Len(commands) \in Nat /\ Len(rest) \in Nat /\ n \in Nat
      /\ \A i \in 1..Len(rest) : rest[i] = frames[n + i]
  BY DEF RestOf
<1>2. /\ \A p \in (n + 1)..Len(frames) : p \in DOMAIN l /\ l[p] = Message(frames[p])
      /\ \A j \in 1..Len(commands) :
            Len(frames) + j \in DOMAIN l /\ l[Len(frames) + j] = commands[j]
  BY LineFacts
<1>3. /\ DOMAIN k \subseteq Nat
      /\ \A p \in 1..Len(rest) : k[p] = Message(rest[p])
      /\ \A j \in 1..Len(commands) : k[Len(rest) + j] = commands[j]
      /\ \A p \in DOMAIN k : \/ p \in 1..Len(rest)
                             \/ \E j \in 1..Len(commands) : p = Len(rest) + j
  BY <1>1, WholeLine
<1> HIDE DEF l, k
<1>4. \A p \in DOMAIN k : p \in Nat /\ g[p] = n + p
  BY <1>3
<1> HIDE DEF g
<1>5. ASSUME NEW p \in DOMAIN k
      PROVE  g[p] \in DOMAIN l /\ k[p] = l[g[p]]
  <2>1. CASE p \in 1..Len(rest)
    <3>1. n + p \in (n + 1)..Len(frames) /\ p \in 1..Len(rest)
      BY <1>1, <2>1
    <3>2. g[p] = n + p /\ k[p] = Message(rest[p]) /\ rest[p] = frames[n + p]
      BY <1>1, <1>3, <1>4, <2>1
    <3>3. n + p \in DOMAIN l /\ l[n + p] = Message(frames[n + p])
      BY <1>2, <3>1
    <3> QED
      BY <3>2, <3>3
  <2>2. CASE \E j \in 1..Len(commands) : p = Len(rest) + j
    <3>1. PICK j \in 1..Len(commands) : p = Len(rest) + j
      BY <2>2
    <3>2. n + p = Len(frames) + j /\ p \in Nat
      BY <1>1, <3>1
    <3> QED
      BY <1>2, <1>3, <1>4, <3>1, <3>2
  <2> QED
    BY <1>3, <2>1, <2>2
<1>6. \A p, q \in DOMAIN k : p < q => g[p] < g[q]
  BY <1>1, <1>3, <1>4
<1>7. Within(k, l, g)
  BY <1>5, <1>6 DEF Within
<1> QED
  BY <1>7 DEF k, l, g

(* Commands that are not sent after all, or do not arrive.                 *)
PrefixOf(first, all) ==
    /\ first \in Seq(Requests) /\ Len(first) <= Len(all)
    /\ \A j \in 1..Len(first) : first[j] = all[j]

LEMMA LinePrefix ==
    ASSUME NEW frames \in Seq(Frames), NEW commands \in Seq(Requests), NEW n \in 0..Len(frames),
           NEW first, PrefixOf(first, commands)
    PROVE  Within(Line(frames, n, first), Line(frames, n, commands), [p \in Nat |-> p])
<1> DEFINE l == Line(frames, n, commands)
           k == Line(frames, n, first)
           g == [p \in Nat |-> p]
<1>1. /\ first \in Seq(Requests) /\ Len(first) <= Len(commands)
      /\ Len(frames) \in Nat /\ Len(commands) \in Nat /\ Len(first) \in Nat
      /\ \A j \in 1..Len(first) : first[j] = commands[j] /\ j \in 1..Len(commands)
  BY DEF PrefixOf
<1>2. /\ \A p \in (n + 1)..Len(frames) : p \in DOMAIN l /\ l[p] = Message(frames[p])
      /\ \A j \in 1..Len(commands) :
            Len(frames) + j \in DOMAIN l /\ l[Len(frames) + j] = commands[j]
  BY LineFacts
<1>3. /\ DOMAIN k \subseteq Nat
      /\ \A p \in (n + 1)..Len(frames) : k[p] = Message(frames[p])
      /\ \A j \in 1..Len(first) : k[Len(frames) + j] = first[j]
      /\ \A p \in DOMAIN k : \/ p \in (n + 1)..Len(frames)
                             \/ \E j \in 1..Len(first) : p = Len(frames) + j
  BY <1>1, LineFacts
<1> HIDE DEF l, k
<1>4. \A p \in DOMAIN k : p \in Nat /\ g[p] = p
  BY <1>3
<1> HIDE DEF g
<1>5. ASSUME NEW p \in DOMAIN k
      PROVE  p \in DOMAIN l /\ k[p] = l[p]
  <2>1. CASE p \in (n + 1)..Len(frames)
    BY <1>2, <1>3, <2>1
  <2>2. CASE \E j \in 1..Len(first) : p = Len(frames) + j
    BY <1>1, <1>2, <1>3, <2>2
  <2> QED
    BY <1>3, <2>1, <2>2
<1>6. Within(k, l, g)
  BY <1>3, <1>4, <1>5 DEF Within
<1> QED
  BY <1>6 DEF k, l, g

(* A command taken, and answered.                                          *)
LEMMA LineAnswered ==
    ASSUME NEW frames \in Seq(Frames), NEW commands \in Seq(Requests),
           NEW after \in Seq(Frames), NEW left \in Seq(Requests),
           Len(after) = Len(frames) + 1, \A i \in 1..Len(frames) : after[i] = frames[i],
           Len(commands) = Len(left) + 1, Message(after[Len(frames) + 1]) = commands[1],
           \A j \in 1..Len(left) : left[j] = commands[j + 1]
    PROVE  Within(Line(after, 0, left), Line(frames, 0, commands), [p \in Nat |-> p])
<1> DEFINE l == Line(frames, 0, commands)
           k == Line(after, 0, left)
           g == [p \in Nat |-> p]
<1>1. /\ Len(frames) \in Nat /\ Len(commands) \in Nat /\ Len(left) \in Nat
      /\ 0 \in 0..Len(frames) /\ 0 \in 0..Len(after)
      /\ \A p \in 1..Len(after) : p \in 1..Len(frames) \/ p = Len(frames) + 1
      /\ 1 \in 1..Len(commands)
  OBVIOUS
<1>2. /\ \A p \in 1..Len(frames) : p \in DOMAIN l /\ l[p] = Message(frames[p])
      /\ \A j \in 1..Len(commands) :
            Len(frames) + j \in DOMAIN l /\ l[Len(frames) + j] = commands[j]
  BY <1>1, WholeLine
<1>3. /\ DOMAIN k \subseteq Nat
      /\ \A p \in 1..Len(after) : k[p] = Message(after[p])
      /\ \A j \in 1..Len(left) : k[Len(after) + j] = left[j]
      /\ \A p \in DOMAIN k : \/ p \in 1..Len(after)
                             \/ \E j \in 1..Len(left) : p = Len(after) + j
  BY <1>1, WholeLine
<1> HIDE DEF l, k
<1>4. \A p \in DOMAIN k : p \in Nat /\ g[p] = p
  BY <1>3
<1> HIDE DEF g
<1>5. ASSUME NEW p \in DOMAIN k
      PROVE  p \in DOMAIN l /\ k[p] = l[p]
  <2>1. CASE p \in 1..Len(after)
    <3>1. CASE p \in 1..Len(frames)
      BY <1>2, <1>3, <2>1, <3>1
    <3>2. CASE p = Len(frames) + 1
      BY <1>1, <1>2, <1>3, <2>1, <3>2
    <3> QED
      BY <1>1, <2>1, <3>1, <3>2
  <2>2. CASE \E j \in 1..Len(left) : p = Len(after) + j
    <3>1. PICK j \in 1..Len(left) : p = Len(after) + j
      BY <2>2
    <3>2. p = Len(frames) + (j + 1) /\ j + 1 \in 1..Len(commands)
      BY <1>1, <3>1
    <3> QED
      BY <1>2, <1>3, <3>1, <3>2
  <2> QED
    BY <1>3, <2>1, <2>2
<1>6. Within(k, l, g)
  BY <1>3, <1>4, <1>5 DEF Within
<1> QED
  BY <1>6 DEF k, l, g

(* A command taken, and nothing said of it.                                *)
LEMMA LineTakenUp ==
    ASSUME NEW frames \in Seq(Frames), NEW commands \in Seq(Requests), NEW left \in Seq(Requests),
           Len(commands) = Len(left) + 1, \A j \in 1..Len(left) : left[j] = commands[j + 1]
    PROVE  \E g : Within(Line(frames, 0, left), Line(frames, 0, commands), g)
<1> DEFINE l == Line(frames, 0, commands)
           k == Line(frames, 0, left)
           g == [p \in Nat |-> IF p <= Len(frames) THEN p ELSE p + 1]
<1>1. /\ Len(frames) \in Nat /\ Len(commands) \in Nat /\ Len(left) \in Nat
      /\ 0 \in 0..Len(frames)
  OBVIOUS
<1>2. /\ \A p \in 1..Len(frames) : p \in DOMAIN l /\ l[p] = Message(frames[p])
      /\ \A j \in 1..Len(commands) :
            Len(frames) + j \in DOMAIN l /\ l[Len(frames) + j] = commands[j]
  BY <1>1, WholeLine
<1>3. /\ DOMAIN k \subseteq Nat
      /\ \A p \in 1..Len(frames) : k[p] = Message(frames[p])
      /\ \A j \in 1..Len(left) : k[Len(frames) + j] = left[j]
      /\ \A p \in DOMAIN k : \/ p \in 1..Len(frames)
                             \/ \E j \in 1..Len(left) : p = Len(frames) + j
  BY <1>1, WholeLine
<1> HIDE DEF l, k
<1>4. \A p \in DOMAIN k : p \in Nat /\ g[p] = IF p <= Len(frames) THEN p ELSE p + 1
  BY <1>3
<1> HIDE DEF g
<1>5. ASSUME NEW p \in DOMAIN k
      PROVE  g[p] \in DOMAIN l /\ k[p] = l[g[p]]
  <2>1. CASE p \in 1..Len(frames)
    <3>1. g[p] = p
      BY <1>1, <1>4, <2>1
    <3> QED
      BY <1>2, <1>3, <2>1, <3>1
  <2>2. CASE \E j \in 1..Len(left) : p = Len(frames) + j
    <3>1. PICK j \in 1..Len(left) : p = Len(frames) + j
      BY <2>2
    <3>2. g[p] = Len(frames) + (j + 1) /\ j + 1 \in 1..Len(commands)
      BY <1>1, <1>4, <3>1
    <3> QED
      BY <1>2, <1>3, <3>1, <3>2
  <2> QED
    BY <1>3, <2>1, <2>2
<1>6. \A p, q \in DOMAIN k : p < q => g[p] < g[q]
  BY <1>1, <1>3, <1>4
<1>7. Within(k, l, g)
  BY <1>5, <1>6 DEF Within
<1> QED
  BY <1>7 DEF k, l

(* A frame that is no answer.                                              *)
LEMMA LineReported ==
    ASSUME NEW frames \in Seq(Frames), NEW commands \in Seq(Requests), NEW after \in Seq(Frames),
           Len(after) = Len(frames) + 1, \A i \in 1..Len(frames) : after[i] = frames[i],
           after[Len(frames) + 1].kind # "answer"
    PROVE  \E g : Within(Line(after, 0, commands), Line(frames, 0, commands), g)
<1> DEFINE l == Line(frames, 0, commands)
           k == Line(after, 0, commands)
           g == [p \in Nat |-> IF p <= Len(frames) THEN p ELSE p - 1]
<1>1. /\ Len(frames) \in Nat /\ Len(commands) \in Nat
      /\ 0 \in 0..Len(frames) /\ 0 \in 0..Len(after)
      /\ \A p \in 1..Len(after) : p \in 1..Len(frames) \/ p = Len(frames) + 1
      /\ Len(frames) + 1 \in 1..Len(after)
  OBVIOUS
<1>2. /\ \A p \in 1..Len(frames) : p \in DOMAIN l /\ l[p] = Message(frames[p])
      /\ \A j \in 1..Len(commands) :
            Len(frames) + j \in DOMAIN l /\ l[Len(frames) + j] = commands[j]
  BY <1>1, WholeLine
<1>3. /\ DOMAIN k \subseteq Nat
      /\ \A p \in 1..Len(after) : k[p] = Message(after[p])
      /\ \A j \in 1..Len(commands) : k[Len(after) + j] = commands[j]
      /\ \A p \in DOMAIN k : \/ p \in 1..Len(after)
                             \/ \E j \in 1..Len(commands) : p = Len(after) + j
  BY <1>1, WholeLine
<1> HIDE DEF l, k
<1>4. \A p \in DOMAIN k : p \in Nat /\ g[p] = IF p <= Len(frames) THEN p ELSE p - 1
  BY <1>3
<1> HIDE DEF g
<1>5. k[Len(frames) + 1] = Nothing
  <2>1. after[Len(frames) + 1] \in Frames
    BY <1>1, ElementOfSeq
  <2> QED
    BY <1>1, <1>3, <2>1, MessageFacts
<1>6. ASSUME NEW p \in DOMAIN k, p # Len(frames) + 1
      PROVE  g[p] \in DOMAIN l /\ k[p] = l[g[p]]
  <2>1. CASE p \in 1..Len(after)
    <3>1. p \in 1..Len(frames)
      BY <1>1, <1>6, <2>1
    <3>2. g[p] = p /\ p \in 1..Len(frames)
      BY <1>1, <1>4, <3>1
    <3> QED
      BY <1>2, <1>3, <2>1, <3>1, <3>2
  <2>2. CASE \E j \in 1..Len(commands) : p = Len(after) + j
    <3>1. PICK j \in 1..Len(commands) : p = Len(after) + j
      BY <2>2
    <3>2. g[p] = Len(frames) + j
      BY <1>1, <1>4, <3>1
    <3> QED
      BY <1>2, <1>3, <3>1, <3>2
  <2> QED
    BY <1>3, <2>1, <2>2
<1>7. \A p, q \in DOMAIN k : p # Len(frames) + 1 /\ q # Len(frames) + 1 /\ p < q => g[p] < g[q]
  BY <1>1, <1>3, <1>4
<1>8. Within(k, l, g)
  BY <1>5, <1>6, <1>7 DEF Within
<1> QED
  BY <1>8 DEF k, l

(* A frame that is lost.                                                   *)
LEMMA LineCut ==
    ASSUME NEW frames \in Seq(Frames), NEW commands \in Seq(Requests), NEW after \in Seq(Frames),
           NEW i \in 1..Len(frames), Len(after) = Len(frames) - 1,
           \A p \in 1..(Len(frames) - 1) : after[p] = IF p < i THEN frames[p] ELSE frames[p + 1]
    PROVE  \E g : Within(Line(after, 0, commands), Line(frames, 0, commands), g)
<1> DEFINE l == Line(frames, 0, commands)
           k == Line(after, 0, commands)
           g == [p \in Nat |-> IF p < i THEN p ELSE p + 1]
<1>1. /\ Len(frames) \in Nat /\ Len(commands) \in Nat
      /\ 0 \in 0..Len(frames) /\ 0 \in 0..Len(after)
      /\ \A p \in 1..Len(after) : p \in 1..(Len(frames) - 1)
  OBVIOUS
<1>2. /\ \A p \in 1..Len(frames) : p \in DOMAIN l /\ l[p] = Message(frames[p])
      /\ \A j \in 1..Len(commands) :
            Len(frames) + j \in DOMAIN l /\ l[Len(frames) + j] = commands[j]
  BY <1>1, WholeLine
<1>3. /\ DOMAIN k \subseteq Nat
      /\ \A p \in 1..Len(after) : k[p] = Message(after[p])
      /\ \A j \in 1..Len(commands) : k[Len(after) + j] = commands[j]
      /\ \A p \in DOMAIN k : \/ p \in 1..Len(after)
                             \/ \E j \in 1..Len(commands) : p = Len(after) + j
  BY <1>1, WholeLine
<1> HIDE DEF l, k
<1>4. \A p \in DOMAIN k : p \in Nat /\ g[p] = IF p < i THEN p ELSE p + 1
  BY <1>3
<1> HIDE DEF g
<1>5. ASSUME NEW p \in DOMAIN k
      PROVE  g[p] \in DOMAIN l /\ k[p] = l[g[p]]
  <2>1. CASE p \in 1..Len(after)
    <3>1. g[p] \in 1..Len(frames)
      BY <1>1, <1>4, <2>1
    <3>2. after[p] = frames[g[p]]
      BY <1>1, <1>3, <1>4, <2>1
    <3> QED
      BY ZenonT(60), <1>2, <1>3, <2>1, <3>1, <3>2
  <2>2. CASE \E j \in 1..Len(commands) : p = Len(after) + j
    <3>1. PICK j \in 1..Len(commands) : p = Len(after) + j
      BY <2>2
    <3>2. g[p] = Len(frames) + j
      BY <1>1, <1>4, <3>1
    <3> QED
      BY <1>2, <1>3, <3>1, <3>2
  <2> QED
    BY <1>3, <2>1, <2>2
<1>6. \A p, q \in DOMAIN k : p < q => g[p] < g[q]
  BY <1>1, <1>3, <1>4
<1>7. Within(k, l, g)
  BY <1>5, <1>6 DEF Within
<1> QED
  BY <1>7 DEF k, l

LEMMA LineLater ==
    ASSUME NEW frames \in Seq(Frames), NEW commands \in Seq(Requests), NEW n \in 0..Len(frames)
    PROVE  Within(Line(frames, n, commands), Line(frames, 0, commands), [p \in Nat |-> p])
<1> DEFINE l == Line(frames, 0, commands)
           k == Line(frames, n, commands)
           g == [p \in Nat |-> p]
<1>1. /\ DOMAIN k \subseteq Nat
      /\ \A p \in (n + 1)..Len(frames) : k[p] = Message(frames[p])
      /\ \A j \in 1..Len(commands) : k[Len(frames) + j] = commands[j]
      /\ \A p \in DOMAIN k : \/ p \in (n + 1)..Len(frames)
                             \/ \E j \in 1..Len(commands) : p = Len(frames) + j
  BY LineFacts
<1>2. /\ \A p \in 1..Len(frames) : p \in DOMAIN l /\ l[p] = Message(frames[p])
      /\ \A j \in 1..Len(commands) :
            Len(frames) + j \in DOMAIN l /\ l[Len(frames) + j] = commands[j]
  BY WholeLine
<1>3. \A p \in (n + 1)..Len(frames) : p \in 1..Len(frames)
  OBVIOUS
<1> HIDE DEF l, k
<1>4. \A p \in DOMAIN k : p \in DOMAIN l /\ k[p] = l[p]
  BY <1>1, <1>2, <1>3
<1>5. Within(k, l, g)
  BY <1>1, <1>4 DEF Within
<1> QED
  BY <1>5 DEF k, l, g

(* The connection is over: what is on the line is nobody's.                *)
LEMMA LineDisowned ==
    ASSUME NEW frames \in Seq(Frames), NEW commands \in Seq(Requests),
           NEW after \in Seq(Frames), NEW left \in Seq(Requests),
           Len(after) = Len(frames), Len(left) = Len(commands),
           \A i \in 1..Len(frames) : /\ after[i].kind = frames[i].kind
                                     /\ frames[i].kind = "answer" =>
                                           after[i].to = frames[i].to /\ ~after[i].own,
           \A j \in 1..Len(commands) : left[j].command = commands[j].command /\ ~left[j].own
    PROVE  LET l == Line(frames, 0, commands)
               k == Line(after, 0, left) IN
           NoneOwn(k) /\ (VersionLast(l) => VersionLast(k))
<1> DEFINE l == Line(frames, 0, commands)
           k == Line(after, 0, left)
<1>1. /\ DOMAIN l \subseteq Nat
      /\ \A p \in 1..Len(frames) : p \in DOMAIN l /\ l[p] = Message(frames[p])
      /\ \A j \in 1..Len(commands) :
            Len(frames) + j \in DOMAIN l /\ l[Len(frames) + j] = commands[j]
  BY WholeLine
<1>2. /\ DOMAIN k \subseteq Nat
      /\ \A p \in 1..Len(frames) : k[p] = Message(after[p])
      /\ \A j \in 1..Len(commands) : k[Len(frames) + j] = left[j]
      /\ \A p \in DOMAIN k : \/ p \in 1..Len(frames)
                             \/ \E j \in 1..Len(commands) : p = Len(frames) + j
  BY WholeLine
<1> HIDE DEF l, k
<1>3. ASSUME NEW p \in DOMAIN k
      PROVE  /\ p \in DOMAIN l /\ ~k[p].own /\ k[p].command = l[p].command
             /\ k[p] = Nothing <=> l[p] = Nothing
  <2>1. CASE p \in 1..Len(frames)
    <3>1. frames[p] \in Frames /\ after[p] \in Frames
      BY <2>1, ElementOfSeq
    <3>2. k[p] = Message(after[p]) /\ l[p] = Message(frames[p]) /\ p \in DOMAIN l
      BY <1>1, <1>2, <2>1
    <3>3. CASE frames[p].kind = "answer"
      <4>1. after[p].kind = "answer" /\ after[p].to = frames[p].to /\ ~after[p].own
        BY <2>1, <3>3
      <4>2. /\ Message(frames[p]).command = frames[p].to /\ Message(frames[p]) # Nothing
            /\ Message(after[p]).command = after[p].to /\ Message(after[p]).own = after[p].own
            /\ Message(after[p]) # Nothing
        BY <3>1, <3>3, <4>1, MessageFacts
      <4> QED
        BY <3>2, <4>1, <4>2
    <3>4. CASE frames[p].kind # "answer"
      <4>1. Message(frames[p]) = Nothing /\ Message(after[p]) = Nothing
        BY <2>1, <3>1, <3>4, MessageFacts
      <4> QED
        BY <3>2, <4>1, MessageFacts
    <3> QED
      BY <3>3, <3>4
  <2>2. CASE \E j \in 1..Len(commands) : p = Len(frames) + j
    <3>1. PICK j \in 1..Len(commands) : p = Len(frames) + j
      BY <2>2
    <3>2. commands[j] \in Requests /\ left[j] \in Requests
      BY ElementOfSeq
    <3>3. k[p] = left[j] /\ l[p] = commands[j] /\ p \in DOMAIN l
      BY <1>1, <1>2, <3>1
    <3> QED
      BY <3>2, <3>3, MessageFacts
  <2> QED
    BY <1>2, <2>1, <2>2
<1>4. NoneOwn(k)
  BY <1>3 DEF NoneOwn
<1>5. VersionLast(l) => VersionLast(k)
  BY <1>3 DEF VersionLast, LastOn
<1> QED
  BY <1>4, <1>5 DEF l, k

(* A connection begins with a stop behind whatever is still on the line.   *)
LEMMA LineOpened ==
    ASSUME NEW frames \in Seq(Frames), NEW commands \in Seq(Requests), NEW n \in 0..Len(frames),
           NEW rest, RestOf(rest, frames, n),
           NEW more, Longer(more, commands, [command |-> Steps[1], own |-> TRUE]),
           NoneOwn(Line(frames, 0, commands)),
           NEW b \in {0, 1}, b = 0 => ~Outstanding(commands, rest),
           b = 1 => VersionLast(Line(frames, 0, commands))
    PROVE  /\ OpenLine(Line(rest, 0, more), 1, b)
           /\ \A i \in 1..Len(rest) : rest[i].kind = "answer" => ~rest[i].own
<1> DEFINE l == Line(frames, 0, commands)
           h == Line(rest, 0, commands)
           k == Line(rest, 0, more)
           r == [command |-> Steps[1], own |-> TRUE]
           m == Len(rest) + Len(commands) + 1
<1>1. rest \in Seq(Frames) /\ r \in Requests /\ r.own = TRUE /\ r.command = "stop"
  BY StepNames, StepsFacts, RequestTypes DEF RestOf
<1>2. NoneOwn(h) /\ (VersionLast(l) => VersionLast(h))
  <2>1. Within(Line(frames, n, commands), l, [p \in Nat |-> p])
    BY LineLater
  <2>2. Within(h, Line(frames, n, commands), [p \in Nat |-> n + p])
    BY LineRest
  <2> HIDE DEF l, h
  <2> QED
    BY <2>1, <2>2, WithinKeeps DEF l
<1>3. /\ DOMAIN h \subseteq Nat
      /\ \A p \in 1..Len(rest) : p \in DOMAIN h /\ h[p] = Message(rest[p])
      /\ \A p \in DOMAIN h : \/ p \in 1..Len(rest)
                             \/ \E j \in 1..Len(commands) : p = Len(rest) + j
  BY <1>1, WholeLine
<1>4. Grown(k, h, m, r)
  <2>1. 0 \in 0..Len(rest)
    BY <1>1
  <2> QED
    BY <1>1, <2>1, LineAppended
<1>5. b = 0 => \A p \in DOMAIN h : h[p] = Nothing
  <2> SUFFICES ASSUME b = 0, NEW p \in DOMAIN h
               PROVE  h[p] = Nothing
    OBVIOUS
  <2>1. commands = <<>> /\ \A i \in 1..Len(rest) : rest[i].kind # "answer"
    BY DEF Outstanding
  <2>2. p \in 1..Len(rest)
    <3>1. Len(commands) = 0
      BY <2>1
    <3> QED
      BY <1>3, <3>1
  <2>3. rest[p] \in Frames
    BY <1>1, <2>2, ElementOfSeq
  <2> QED
    BY <1>3, <2>1, <2>2, <2>3, MessageFacts
<1>6. \A i \in 1..Len(rest) : rest[i].kind = "answer" => ~rest[i].own
  <2> TAKE i \in 1..Len(rest)
  <2>1. rest[i] \in Frames
    BY <1>1, ElementOfSeq
  <2> QED
    BY <1>2, <1>3, <2>1, MessageFacts DEF NoneOwn
<1> HIDE DEF l, h, k, r, m
<1>7. /\ m \in DOMAIN k /\ k[m] = r /\ \A p \in DOMAIN k : p = m \/ (p \in DOMAIN h /\ p < m /\ k[p] = h[p])
      /\ \A p \in DOMAIN k : ~(m < p)
  <2>1. m \in Nat
    BY <1>1 DEF m
  <2> QED
    BY <1>3, <1>4, <2>1 DEF Grown
<1>8. LastOn(k, m) /\ OwnBehind(k, m)
  BY <1>7 DEF LastOn, OwnBehind
<1>9. "stop" \in SentBy(1)
  <2>1. 1 \in 1..9
    OBVIOUS
  <2> QED
    BY <2>1, SentByFacts
<1>10. \A p \in DOMAIN k : k[p].own =>
         OwnBehind(k, p) /\ k[p].command \in SentBy(1) /\ LastOn(k, p)
  BY <1>1, <1>2, <1>7, <1>8, <1>9 DEF NoneOwn
<1>11. b = 0 => \A p \in DOMAIN k : k[p] # Nothing =>
         k[p].own /\ (MustSucceed(k[p].command) => k[p].command = Steps[1])
  BY <1>1, <1>5, <1>7 DEF MustSucceed
<1>12. b = 1 => \A p \in DOMAIN k : k[p] # Nothing /\ ~k[p].own =>
         (k[p].command = "version" => OwnBehind(k, p))
  <2> SUFFICES ASSUME b = 1, NEW p \in DOMAIN k, ~k[p].own, k[p].command = "version"
               PROVE  OwnBehind(k, p)
    OBVIOUS
  <2>1. p \in DOMAIN h /\ LastOn(h, p)
    BY <1>1, <1>2, <1>7 DEF VersionLast, l
  <2> QED
    BY <1>1, <1>7, <2>1 DEF OwnBehind, LastOn
<1>13. OpenLine(k, 1, b)
  BY <1>10, <1>11, <1>12 DEF OpenLine
<1> QED
  BY <1>6, <1>13 DEF k

LEMMA RestFacts ==
    ASSUME NEW frames \in Seq(Frames), NEW n \in 0..Len(frames)
    PROVE  RestOf(SubSeq(frames, n + 1, Len(frames)), frames, n)
<1> DEFINE rest == SubSeq(frames, n + 1, Len(frames))
           len == Len(frames)
<1>1. len \in Nat /\ n \in 0..len /\ \A i \in (n + 1)..len : frames[i] \in Frames
  BY ElementOfSeq
<1>2. /\ rest \in Seq(Frames)
      /\ Len(rest) = IF n + 1 <= len THEN len - (n + 1) + 1 ELSE 0
      /\ \A i \in 1..(len - (n + 1) + 1) : rest[i] = frames[(n + 1) + i - 1]
  BY <1>1, SubSeqProperties, n + 1 \in Int, len \in Int
<1> HIDE DEF rest
<1>3. Len(rest) = len - n /\ \A i \in 1..(len - n) : rest[i] = frames[n + i]
  BY <1>1, <1>2
<1> QED
  BY <1>2, <1>3 DEF RestOf, rest

LEMMA CutFacts ==
    ASSUME NEW frames \in Seq(Frames), NEW i \in 1..Len(frames)
    PROVE  LET u == RemoveAt(frames, i) IN
           /\ u \in Seq(Frames) /\ Len(u) = Len(frames) - 1
           /\ \A k \in 1..(Len(frames) - 1) : u[k] = IF k < i THEN frames[k] ELSE frames[k + 1]
<1> DEFINE u == RemoveAt(frames, i)
           len == Len(frames)
<1>1. len \in Nat /\ \A k \in 1..len : frames[k] \in Frames
  BY ElementOfSeq
<1>2. /\ u \in Seq(Frames) /\ Len(u) = len - 1
      /\ \A k \in 1..(len - 1) : u[k] = IF k < i THEN frames[k] ELSE frames[k + 1]
  <2> DEFINE a == SubSeq(frames, 1, i - 1)
             b == SubSeq(frames, i + 1, len)
  <2>1. u = a \o b
    BY DEF RemoveAt
  <2>2. a \in Seq(Frames) /\ Len(a) = i - 1 /\ \A k \in 1..(i - 1) : a[k] = frames[k]
    <3>1. i - 1 \in 0..len
      BY <1>1
    <3> QED
      BY <3>1, SplitFacts
  <2>3. b \in Seq(Frames) /\ Len(b) = len - i /\ \A k \in 1..(len - i) : b[k] = frames[i + k]
    <3>1. \A k \in (i + 1)..len : frames[k] \in Frames
      BY <1>1
    <3>2. /\ b \in Seq(Frames)
          /\ Len(b) = IF i + 1 <= len THEN len - (i + 1) + 1 ELSE 0
          /\ \A k \in 1..(len - (i + 1) + 1) : b[k] = frames[(i + 1) + k - 1]
      BY <1>1, <3>1, SubSeqProperties, i + 1 \in Int, len \in Int
    <3> QED
      BY <1>1, <3>2
  <2> HIDE DEF a, b
  <2>4. /\ a \o b \in Seq(Frames) /\ Len(a \o b) = len - 1
        /\ \A k \in 1..(len - 1) : (a \o b)[k] = IF k <= i - 1 THEN a[k] ELSE b[k - (i - 1)]
    <3>1. /\ a \o b \in Seq(Frames) /\ Len(a \o b) = Len(a) + Len(b)
          /\ \A k \in 1..(Len(a) + Len(b)) :
                (a \o b)[k] = IF k <= Len(a) THEN a[k] ELSE b[k - Len(a)]
      BY <2>2, <2>3, ConcatProperties
    <3>2. Len(a) + Len(b) = len - 1
      BY <1>1, <2>2, <2>3
    <3> QED
      BY <2>2, <3>1, <3>2
  <2>5. ASSUME NEW k \in 1..(len - 1)
        PROVE  (a \o b)[k] = IF k < i THEN frames[k] ELSE frames[k + 1]
    <3>1. CASE k < i
      <4>1. k \in 1..(i - 1) /\ k <= i - 1
        BY <3>1
      <4> QED
        BY <2>2, <2>4, <3>1, <4>1
    <3>2. CASE ~(k < i)
      <4>1. k - (i - 1) \in 1..(len - i) /\ ~(k <= i - 1) /\ i + (k - (i - 1)) = k + 1
        BY <1>1, <3>2
      <4> QED
        BY <2>3, <2>4, <3>2, <4>1
    <3> QED
      BY <3>1, <3>2
  <2> QED
    BY <2>1, <2>4, <2>5
<1> QED
  BY <1>2

(* The first command on its way.                                           *)
LEMMA TakenUp ==
    ASSUME NEW commands \in Seq(Requests), commands # <<>>
    PROVE  /\ Head(commands) = commands[1] /\ Head(commands) \in Requests
           /\ Tail(commands) \in Seq(Requests) /\ Len(commands) = Len(Tail(commands)) + 1
           /\ \A j \in 1..Len(Tail(commands)) : Tail(commands)[j] = commands[j + 1]
BY HeadTailProperties

LEMMA ReplyIs ==
    ASSUME TypeOK, toReader # <<>>, NEW ok \in BOOLEAN, NEW echoes \in BOOLEAN
    PROVE  \E f \in Frames : /\ f.kind = "answer" /\ Message(f) = Head(toReader)
                             /\ f.to = Head(toReader).command /\ f.own = Head(toReader).own
                             /\ f.ok = ok
                             /\ Reply(Head(toReader), ok, echoes) = Append(toHost, f)
<1> DEFINE r == Head(toReader)
           f == [kind |-> "answer", to |-> r.command, own |-> r.own, ok |-> ok, echoes |-> echoes]
<1>1. r \in Requests
  BY TakenUp, TypesAre
<1>2. r.command \in Commands /\ r.own \in BOOLEAN
  BY <1>1, RequestTypes
<1>3. r = [command |-> r.command, own |-> r.own]
  BY <1>1 DEF Requests
<1> HIDE DEF r
<1>4. f \in Frames
  BY <1>2, FrameTypes
<1>5. f.kind = "answer" /\ f.to = r.command /\ f.own = r.own /\ f.ok = ok
        /\ Reply(r, ok, echoes) = Append(toHost, f)
  BY DEF Reply
<1>6. Message(f) = r
  BY <1>3 DEF Message
<1> HIDE DEF f
<1> QED
  BY <1>4, <1>5, <1>6 DEF r

LEMMA ReadersAfter ==
    ASSUME TypeOK, NEW r \in Requests
    PROVE  /\ Obeyed(r).cycled = reader.cycled
           /\ reader.settings \subseteq Obeyed(r).settings
           /\ r.own /\ r.command \in Settings => r.command \in Obeyed(r).settings
           /\ Obeyed(r).stream = "own" =>
                 reader.stream = "own" \/ (r.command = "start" /\ r.own)
           /\ r.command = "start" /\ r.own => Obeyed(r).stream = "own"
<1>1. reader \in Readers
  BY TypesAre
<1> QED
  BY <1>1 DEF Obeyed, Readers

(* Whatever the module does, and whatever becomes of the line: nothing new *)
(* comes onto it, and nothing changes places.                              *)
LEMMA ModuleLine ==
    ASSUME TypeOK, TypeOK', Module
    PROVE  /\ UNCHANGED host
           /\ \E g : Within(Line(toHost', 0, toReader'), Line(toHost, 0, toReader), g)
<1>1. /\ toHost \in Seq(Frames) /\ toReader \in Seq(Requests)
      /\ toHost' \in Seq(Frames) /\ toReader' \in Seq(Requests)
  BY TypesAre, Zenon DEF TypeOK, Requests
<1>2. ASSUME toReader # <<>>, toReader' = Tail(toReader)
      PROVE  /\ Len(toReader) = Len(toReader') + 1 /\ Head(toReader) = toReader[1]
             /\ \A j \in 1..Len(toReader') : toReader'[j] = toReader[j + 1]
  BY <1>1, <1>2, TakenUp
<1>3. ASSUME toReader # <<>>, toReader' = Tail(toReader), NEW ok \in BOOLEAN, NEW echoes \in BOOLEAN,
             toHost' = Reply(Head(toReader), ok, echoes)
      PROVE  \E g : Within(Line(toHost', 0, toReader'), Line(toHost, 0, toReader), g)
  <2>1. PICK f \in Frames : Message(f) = Head(toReader) /\ toHost' = Append(toHost, f)
    BY <1>3, ReplyIs
  <2>2. /\ Len(toHost') = Len(toHost) + 1 /\ toHost'[Len(toHost) + 1] = f
        /\ \A i \in 1..Len(toHost) : toHost'[i] = toHost[i]
    BY <1>1, <2>1, AppendProperties
  <2>3. Message(toHost'[Len(toHost) + 1]) = toReader[1]
    BY <1>2, <1>3, <2>1, <2>2
  <2> QED
    BY <1>1, <1>2, <1>3, <2>2, <2>3, LineAnswered
<1>4. ASSUME toReader # <<>>, toReader' = Tail(toReader), toHost' = toHost
      PROVE  \E g : Within(Line(toHost', 0, toReader'), Line(toHost, 0, toReader), g)
  <2>1. \E g : Within(Line(toHost, 0, toReader'), Line(toHost, 0, toReader), g)
    BY <1>1, <1>2, <1>4, LineTakenUp
  <2> QED
    BY <1>4, <2>1
<1>5. CASE ReaderAnswers
  BY <1>3, <1>4, <1>5 DEF ReaderAnswers
<1>6. CASE ReaderDeclines
  BY <1>3, <1>4, <1>6 DEF ReaderDeclines
<1>7. CASE ReaderReports
  <2>1. PICK f : toHost' = Append(toHost, f) /\ f.kind # "answer"
    BY <1>7 DEF ReaderReports
  <2>2. /\ Len(toHost') = Len(toHost) + 1 /\ toHost'[Len(toHost) + 1] = f
        /\ \A i \in 1..Len(toHost) : toHost'[i] = toHost[i]
    BY <1>1, <2>1, AppendProperties
  <2>3. toReader' = toReader /\ UNCHANGED host
    BY <1>7 DEF ReaderReports
  <2>4. \E g : Within(Line(toHost', 0, toReader), Line(toHost, 0, toReader), g)
    BY <1>1, <2>1, <2>2, LineReported
  <2> QED
    BY <2>3, <2>4
<1>8. CASE Garbled
  <2>1. PICK i \in 1..Len(toHost) : toHost' = RemoveAt(toHost, i)
    BY <1>8 DEF Garbled
  <2>2. /\ Len(toHost') = Len(toHost) - 1
        /\ \A p \in 1..(Len(toHost) - 1) :
              toHost'[p] = IF p < i THEN toHost[p] ELSE toHost[p + 1]
    BY <1>1, <2>1, CutFacts
  <2>3. toReader' = toReader /\ UNCHANGED host
    BY <1>8 DEF Garbled
  <2>4. \E g : Within(Line(toHost', 0, toReader), Line(toHost, 0, toReader), g)
    BY <1>1, <2>2, LineCut
  <2> QED
    BY <2>3, <2>4
<1>9. CASE PowerCycled
  <2>1. toReader' = <<>> /\ toHost' = toHost /\ UNCHANGED host
    BY <1>9 DEF PowerCycled
  <2>2. PrefixOf(<<>>, toReader) /\ 0 \in 0..Len(toHost)
    BY <1>1 DEF PrefixOf
  <2>3. Within(Line(toHost, 0, <<>>), Line(toHost, 0, toReader), [p \in Nat |-> p])
    BY <1>1, <2>2, LinePrefix
  <2> QED
    BY <2>1, <2>3
<1> QED
  BY <1>5, <1>6, <1>7, <1>8, <1>9 DEF Module

(* The module, while a connection is open that found answers outstanding   *)
(* at most once.                                                           *)
LEMMA ModuleDone ==
    ASSUME TypeOK, TypeOK', AnnouncedInv, Module, port = "open", backlog < 2, ~reader'.cycled
    PROVE  Done(reader', toHost', 0, toReader', start.step)
<1>1. /\ toHost \in Seq(Frames) /\ toReader \in Seq(Requests) /\ reader \in Readers
      /\ toHost' \in Seq(Frames) /\ toReader' \in Seq(Requests)
      /\ start.step \in 1..9 /\ backlog \in {0, 1}
  <2>1. start.step \in 1..9
    BY TypesAre, StartsFacts
  <2>2. backlog \in 0..2
    BY TypesAre
  <2>3. backlog \in {0, 1}
    BY <2>2
  <2> QED
    BY <2>1, <2>3, TypesAre, Zenon DEF TypeOK, Requests
<1> DEFINE l == Line(toHost, 0, toReader)
<1>2. OpenLine(l, start.step, backlog)
  BY DEF AnnouncedInv
<1>3. ASSUME ~reader.cycled
      PROVE  /\ \A i \in 1..Len(toHost) :
                   toHost[i].kind = "answer" /\ toHost[i].own /\ toHost[i].ok =>
                      /\ toHost[i].to \in Settings => toHost[i].to \in reader.settings
                      /\ toHost[i].to = "start" => reader.stream = "own"
             /\ reader.stream = "own" => toReader = <<>> /\ start.step >= 8
             /\ \A k \in 1..8 : k < start.step /\ Steps[k] \in Settings =>
                   Steps[k] \in reader.settings
             /\ start.step = 9 => reader.stream = "own"
  BY <1>3 DEF AnnouncedInv, Done
<1>4. ASSUME toReader # <<>>, toReader' = Tail(toReader), NEW ok \in BOOLEAN, NEW echoes \in BOOLEAN,
             toHost' = Reply(Head(toReader), ok, echoes)
      PROVE  \A i \in 1..Len(toHost') :
                \/ i \in 1..Len(toHost) /\ toHost'[i] = toHost[i]
                \/ /\ toHost'[i].to = Head(toReader).command
                   /\ toHost'[i].own = Head(toReader).own /\ toHost'[i].ok = ok
  <2>1. PICK f \in Frames : /\ f.to = Head(toReader).command /\ f.own = Head(toReader).own
                            /\ f.ok = ok /\ toHost' = Append(toHost, f)
    BY <1>4, ReplyIs
  <2>2. /\ Len(toHost') = Len(toHost) + 1 /\ toHost'[Len(toHost) + 1] = f
        /\ \A i \in 1..Len(toHost) : toHost'[i] = toHost[i]
    BY <1>1, <2>1, AppendProperties
  <2>3. \A i \in 1..Len(toHost') : i \in 1..Len(toHost) \/ i = Len(toHost) + 1
    BY <1>1, <2>2
  <2> QED
    BY <2>1, <2>2, <2>3
<1>5. CASE ReaderAnswers
  <2> DEFINE r == Head(toReader)
  <2>1. toReader # <<>> /\ toReader' = Tail(toReader)
    BY <1>5 DEF ReaderAnswers
  <2>2. /\ r = toReader[1] /\ r \in Requests /\ Len(toReader) = Len(toReader') + 1
        /\ \A j \in 1..Len(toReader') : toReader'[j] = toReader[j + 1]
    BY <1>1, <2>1, TakenUp
  <2>3. /\ Obeyed(r).cycled = reader.cycled
        /\ reader.settings \subseteq Obeyed(r).settings
        /\ r.own /\ r.command \in Settings => r.command \in Obeyed(r).settings
        /\ Obeyed(r).stream = "own" =>
              reader.stream = "own" \/ (r.command = "start" /\ r.own)
        /\ r.command = "start" /\ r.own => Obeyed(r).stream = "own"
    BY <2>2, ReadersAfter
  <2> HIDE DEF r
  <2>4. /\ reader' \in {reader, Obeyed(r)}
        /\ \/ toHost' = Reply(r, TRUE, TRUE) /\ reader' = Obeyed(r)
           \/ toHost' = toHost
           \/ \E echoes \in BOOLEAN : toHost' = Reply(r, FALSE, echoes)
    BY <1>5 DEF ReaderAnswers, r
  <2>5. ~reader.cycled
    BY <2>3, <2>4
  <2>6. reader.stream # "own" /\ start.step # 9
    BY <1>3, <2>1, <2>5
  <2>7. ASSUME r.command = "start", r.own
        PROVE  toReader' = <<>> /\ start.step >= 8
    <3>1. /\ Len(toHost) + 1 \in DOMAIN l /\ l[Len(toHost) + 1] = r
          /\ \A j \in 1..Len(toReader) : Len(toHost) + j \in DOMAIN l /\ l[Len(toHost) + j] = toReader[j]
      <4>1. 1 \in 1..Len(toReader)
        BY <1>1, <2>2
      <4> QED
        BY <1>1, <2>2, <4>1, WholeLine
    <3> HIDE DEF l
    <3>2. "start" \in SentBy(start.step) /\ start.step <= 8
            /\ ("start" = Steps[start.step] => LastOn(l, Len(toHost) + 1))
      BY <1>2, <2>7, <3>1 DEF OpenLine
    <3>3. start.step = 8
      BY <1>1, <3>2, StepNames, SentByFacts
    <3>4. LastOn(l, Len(toHost) + 1)
      BY <3>2, <3>3, StepNames
    <3>5. Len(toReader') = 0
      <4>1. SUFFICES ASSUME Len(toReader') # 0
                     PROVE  FALSE
        OBVIOUS
      <4>2. 2 \in 1..Len(toReader) /\ Len(toHost) + 1 < Len(toHost) + 2
        BY <1>1, <2>2, <4>1
      <4>3. toReader[2] \in Requests
        BY <1>1, <4>2, ElementOfSeq
      <4> QED
        BY <3>1, <3>4, <4>2, <4>3, MessageFacts DEF LastOn
    <3> QED
      BY <1>1, <3>3, <3>5
  <2>8. reader.settings \subseteq reader'.settings
    BY <2>3, <2>4
  <2>9. ASSUME NEW i \in 1..Len(toHost'), toHost'[i].kind = "answer", toHost'[i].own, toHost'[i].ok
        PROVE  /\ toHost'[i].to \in Settings => toHost'[i].to \in reader'.settings
               /\ toHost'[i].to = "start" => reader'.stream = "own"
    <3>1. ASSUME i \in 1..Len(toHost), toHost'[i] = toHost[i]
          PROVE  /\ toHost'[i].to \in Settings => toHost'[i].to \in reader'.settings
                 /\ toHost'[i].to = "start" => reader'.stream = "own"
      BY <1>3, <2>5, <2>6, <2>8, <2>9, <3>1
    <3>2. CASE toHost' = toHost
      BY <3>1, <3>2
    <3>3. CASE \E echoes \in BOOLEAN : toHost' = Reply(r, FALSE, echoes)
      BY <1>4, <2>1, <2>9, <3>1, <3>3 DEF r
    <3>4. CASE toHost' = Reply(r, TRUE, TRUE) /\ reader' = Obeyed(r)
      <4>1. \/ i \in 1..Len(toHost) /\ toHost'[i] = toHost[i]
            \/ toHost'[i].to = r.command /\ toHost'[i].own = r.own /\ toHost'[i].ok = TRUE
        BY <1>4, <2>1, <3>4 DEF r
      <4> QED
        BY <2>3, <2>9, <3>1, <3>4, <4>1
    <3> QED
      BY <2>4, <3>2, <3>3, <3>4
  <2>10. reader'.stream = "own" => toReader' = <<>> /\ start.step >= 8
    BY <2>3, <2>4, <2>6, <2>7
  <2> QED
    BY <1>3, <2>5, <2>6, <2>8, <2>9, <2>10 DEF Done
<1>6. CASE ReaderDeclines
  <2>1. /\ toReader # <<>> /\ toReader' = Tail(toReader) /\ reader' = reader
        /\ \/ toHost' = toHost
           \/ \E echoes \in BOOLEAN : toHost' = Reply(Head(toReader), FALSE, echoes)
    BY <1>6 DEF ReaderDeclines
  <2>2. ~reader.cycled
    BY <2>1
  <2>3. \A i \in 1..Len(toHost') :
          \/ i \in 1..Len(toHost) /\ toHost'[i] = toHost[i]
          \/ toHost'[i].ok = FALSE
    BY <1>4, <2>1
  <2> QED
    BY SMTT(60), <1>3, <2>1, <2>2, <2>3 DEF Done
<1>7. CASE ReaderReports
  <2>1. PICK f : toHost' = Append(toHost, f) /\ f.kind # "answer"
    BY <1>7 DEF ReaderReports
  <2>2. /\ Len(toHost') = Len(toHost) + 1 /\ toHost'[Len(toHost) + 1] = f
        /\ \A i \in 1..Len(toHost) : toHost'[i] = toHost[i]
    BY <1>1, <2>1, AppendProperties
  <2>3. \A i \in 1..Len(toHost') : i \in 1..Len(toHost) \/ i = Len(toHost) + 1
    BY <1>1, <2>2
  <2>4. /\ reader'.cycled = reader.cycled /\ reader'.settings = reader.settings
        /\ reader'.stream = reader.stream /\ toReader' = toReader
    BY <1>1, <1>7 DEF ReaderReports, Readers
  <2> QED
    BY <1>3, <2>1, <2>2, <2>3, <2>4 DEF Done
<1>8. CASE Garbled
  <2>1. PICK i \in 1..Len(toHost) : toHost' = RemoveAt(toHost, i)
    BY <1>8 DEF Garbled
  <2>2. /\ Len(toHost') = Len(toHost) - 1
        /\ \A p \in 1..(Len(toHost) - 1) :
              toHost'[p] = IF p < i THEN toHost[p] ELSE toHost[p + 1]
    BY ZenonT(60), <1>1, <2>1, CutFacts
  <2>3. reader' = reader /\ toReader' = toReader
    BY <1>8 DEF Garbled
  <2>4. \A p \in 1..Len(toHost') : \E q \in 1..Len(toHost) : toHost'[p] = toHost[q]
    <3> TAKE p \in 1..Len(toHost')
    <3>1. p \in 1..(Len(toHost) - 1) /\ p \in 1..Len(toHost) /\ p + 1 \in 1..Len(toHost)
      BY <1>1, <2>2
    <3> QED
      BY <2>2, <3>1
  <2> QED
    BY SMTT(60), <1>3, <2>3, <2>4 DEF Done
<1>9. CASE PowerCycled
  BY <1>1, <1>9 DEF PowerCycled, Readers
<1> QED
  BY <1>5, <1>6, <1>7, <1>8, <1>9 DEF Module

LEMMA ModuleStep ==
    ASSUME TypeOK, TypeOK', AnnouncedInv, Module
    PROVE  AnnouncedInv'
<1>1. UNCHANGED host /\ UNCHANGED <<port, start, backlog>>
  BY ModuleLine DEF host
<1>2. PICK g : Within(Line(toHost', 0, toReader'), Line(toHost, 0, toReader), g)
  BY ModuleLine
<1> DEFINE l == Line(toHost, 0, toReader)
           k == Line(toHost', 0, toReader')
<1>3. /\ OpenLine(l, start.step, backlog) => OpenLine(k, start.step, backlog)
      /\ VersionLast(l) => VersionLast(k)
      /\ NoneOwn(l) => NoneOwn(k)
  <2> HIDE DEF l, k
  <2> QED
    BY <1>2, WithinKeeps DEF l, k
<1>4. port = "open" /\ backlog < 2 /\ ~reader'.cycled => Done(reader', toHost', 0, toReader', start.step)
  BY ModuleDone
<1>5. port = "closed" => reader'.stream # "own"
  <2> SUFFICES ASSUME port = "closed"
               PROVE  reader'.stream # "own"
    OBVIOUS
  <2>1. reader.stream # "own" /\ NoneOwn(l)
    BY DEF AnnouncedInv
  <2>2. reader \in Readers /\ toReader \in Seq(Requests) /\ toHost \in Seq(Frames)
    BY TypesAre
  <2>3. CASE ReaderAnswers
    <3> DEFINE r == Head(toReader)
    <3>1. toReader # <<>> /\ reader' \in {reader, Obeyed(r)}
      BY <2>3 DEF ReaderAnswers
    <3>2. r = toReader[1] /\ r \in Requests /\ 1 \in 1..Len(toReader)
      <4>1. Len(toReader) = Len(Tail(toReader)) + 1 /\ Len(Tail(toReader)) \in Nat
              /\ r = toReader[1] /\ r \in Requests
        BY <2>2, <3>1, TakenUp
      <4> QED
        BY <4>1
    <3>3. ~r.own
      BY <2>1, <2>2, <3>2, WholeLine DEF NoneOwn
    <3> HIDE DEF r
    <3> QED
      BY <2>1, <3>1, <3>2, <3>3, ReadersAfter
  <2>4. CASE ReaderReports
    BY <2>1, <2>2, <2>4 DEF ReaderReports, Readers
  <2>5. CASE PowerCycled
    BY <2>1, <2>2, <2>5 DEF PowerCycled, Readers
  <2>6. CASE ReaderDeclines \/ Garbled
    BY <2>1, <2>6 DEF ReaderDeclines, Garbled
  <2> QED
    BY <2>3, <2>4, <2>5, <2>6 DEF Module
<1> HIDE DEF l, k
<1>6. /\ start.announced \/ start.progress = "started" => start.step = 9
      /\ port = "open" /\ backlog < 2 =>
            OpenLine(k, start.step, backlog)
      /\ port \in {"ending", "closed"} /\ backlog = 0 => VersionLast(k)
      /\ port = "closed" => NoneOwn(k)
  BY <1>3, Zenon DEF AnnouncedInv, l
<1> QED
  BY <1>1, <1>4, <1>5, <1>6, Zenon DEF AnnouncedInv, k

LEMMA ConcludeStep ==
    ASSUME TypeOK, TypeOK', StartInv, InSequence(toHost), AnnouncedInv, Read \/ TimeOut \/ PortEnds
    PROVE  AnnouncedInv'
<1>1. /\ toHost \in Seq(Frames) /\ toReader \in Seq(Requests) /\ reader \in Readers
      /\ toHost' \in Seq(Frames) /\ toReader' \in Seq(Requests) /\ backlog \in 0..2
  BY TypesAre, Zenon DEF TypeOK, Requests
<1>2. PICK n \in 0..Len(toHost), t \in TurnTypes, ended \in BOOLEAN, reached \in BOOLEAN :
         /\ TurnLine(t, n) /\ Conclude(t, n, ended, reached)
         /\ ended \/ reached
         /\ start.step <= t.step
  BY TakenLine
<1>3. port = "open"
  BY TakenLine
<1> DEFINE c == toReader \o t.sent
           lost == ended \/ t.progress = "refused"
<1>4. /\ start' = [step |-> t.step, progress |-> t.progress,
                   announced |-> start.announced \/ Announces(t)]
      /\ port' = IF lost THEN "ending" ELSE "open"
      /\ toReader' = IF reached THEN c ELSE toReader
      /\ toHost' = SubSeq(toHost, n + 1, Len(toHost))
      /\ UNCHANGED <<reader, backlog>>
  BY <1>2 DEF Conclude
<1>5. start'.step = t.step /\ start'.progress = t.progress
        /\ (start'.announced => start.announced \/ t.progress = "started")
  BY <1>4 DEF Announces
<1>6. c \in Seq(Requests) /\ t.sent \in Seq(Requests)
  BY <1>1, TurnFields, ConcatProperties
<1>7. PrefixOf(toReader, c) /\ PrefixOf(c, c)
  BY <1>1, <1>6, ConcatProperties DEF PrefixOf
<1> HIDE DEF c, lost
<1>8. RestOf(toHost', toHost, n)
  BY <1>1, <1>4, RestFacts
<1> DEFINE l == Line(toHost, n, c)
           k == Line(toHost', 0, toReader')
<1>9. PrefixOf(toReader', c)
  BY <1>4, <1>7
<1>10. /\ \A s, b : OpenLine(l, s, b) => OpenLine(k, s, b)
       /\ VersionLast(l) => VersionLast(k)
  <2> DEFINE h == Line(toHost, n, toReader')
  <2>1. Within(h, l, [p \in Nat |-> p])
    BY <1>1, <1>6, <1>9, LinePrefix
  <2>2. Within(k, h, [p \in Nat |-> n + p])
    BY <1>1, <1>8, LineRest
  <2> HIDE DEF h, l, k
  <2> QED
    BY <2>1, <2>2, WithinKeeps
<1>11. t.progress = "started" => t.step = 9
  BY <1>2 DEF TurnLine
<1>12. start'.announced \/ start'.progress = "started" => start'.step = 9
  <2>1. start.announced => t.step = 9
    <3>1. start.announced => start.step = 9
      BY DEF AnnouncedInv
    <3>2. start.step <= t.step /\ t.step \in 1..9
      BY <1>2, TurnFields
    <3> QED
      BY <3>1, <3>2
  <2> QED
    BY <1>5, <1>11, <2>1
<1>13. ASSUME port' = "open", backlog' < 2
       PROVE  /\ OpenLine(k, start'.step, backlog')
              /\ ~reader'.cycled => Done(reader', toHost', 0, toReader', start'.step)
  <2>1. backlog < 2 /\ toReader' = c
    BY <1>2, <1>4, <1>13 DEF lost
  <2>2. /\ OpenLine(l, t.step, backlog)
        /\ ~reader.cycled => Done(reader, toHost, n, c, t.step)
    BY <1>2, <1>3, <2>1 DEF TurnLine, c
  <2>3. OpenLine(k, t.step, backlog)
    BY <1>10, <2>2
  <2>4. \A i \in 1..Len(toHost') : n + i \in (n + 1)..Len(toHost) /\ toHost'[i] = toHost[n + i]
    BY <1>1, <1>8 DEF RestOf
  <2>5. Done(reader, toHost, n, c, t.step) => Done(reader, toHost', 0, c, t.step)
    BY SMTT(60), <2>4 DEF Done
  <2> HIDE DEF k
  <2> QED
    BY <1>4, <1>5, <2>1, <2>2, <2>3, <2>5
<1>14. ASSUME port' = "ending", backlog' = 0
       PROVE  VersionLast(k)
  <2>1. OpenLine(l, t.step, 0)
    BY <1>2, <1>3, <1>4, <1>14 DEF TurnLine, c
  <2>2. VersionLast(l)
    <3> HIDE DEF l
    <3> QED
      BY <2>1, VersionOf
  <2> QED
    BY <1>10, <2>2
<1>15. port' \in {"open", "ending"}
  BY <1>4
<1> QED
  BY <1>12, <1>13, <1>14, <1>15 DEF AnnouncedInv

LEMMA OpenStep ==
    ASSUME TypeOK, TypeOK', AnnouncedInv, Open
    PROVE  AnnouncedInv'
<1>1. /\ toHost \in Seq(Frames) /\ toReader \in Seq(Requests) /\ reader \in Readers
      /\ backlog \in 0..2
  BY TypesAre
<1> DEFINE r == [command |-> Steps[1], own |-> TRUE]
<1>2. /\ port = "closed" /\ port' = "open" /\ start' = NotStarted /\ toReader' = Append(toReader, r)
      /\ backlog' = IF ~Outstanding(toReader, toHost') THEN 0
                    ELSE IF backlog < 2 THEN backlog + 1 ELSE backlog
      /\ reader' = [reader EXCEPT !.cycled = FALSE]
  BY DEF Open
<1>3. PICK n \in 0..Len(toHost) : toHost' = SubSeq(toHost, n + 1, Len(toHost))
  BY DEF Open
<1>4. RestOf(toHost', toHost, n)
  BY <1>1, <1>3, RestFacts
<1>5. Longer(toReader', toReader, r)
  <2>1. r \in Requests
    BY StepsFacts, RequestTypes
  <2> HIDE DEF r
  <2> QED
    BY <1>1, <1>2, <2>1, AppendProperties DEF Longer
<1>6. start'.step = 1 /\ start'.progress = "waiting" /\ start'.announced = FALSE
  BY <1>2 DEF NotStarted
<1>7. reader.stream # "own" /\ NoneOwn(Line(toHost, 0, toReader))
  BY <1>2 DEF AnnouncedInv
<1>8. reader'.stream # "own"
  BY <1>1, <1>2, <1>7 DEF Readers
<1>9. ASSUME backlog' < 2
      PROVE  /\ OpenLine(Line(toHost', 0, toReader'), 1, backlog')
             /\ Done(reader', toHost', 0, toReader', 1)
  <2>1. /\ backlog' \in {0, 1} /\ (backlog' = 0 => ~Outstanding(toReader, toHost'))
        /\ backlog' = 1 => backlog = 0
    BY <1>1, <1>2, <1>9
  <2>2. backlog' = 1 => VersionLast(Line(toHost, 0, toReader))
    BY <1>2, <2>1 DEF AnnouncedInv
  <2>3. /\ OpenLine(Line(toHost', 0, toReader'), 1, backlog')
        /\ \A i \in 1..Len(toHost') : toHost'[i].kind = "answer" => ~toHost'[i].own
    BY <1>1, <1>4, <1>5, <1>7, <2>1, <2>2, LineOpened
  <2> QED
    BY <1>8, <2>3 DEF Done
<1> QED
  BY <1>2, <1>6, <1>9 DEF AnnouncedInv

LEMMA BackOffStep ==
    ASSUME TypeOK, TypeOK', AnnouncedInv, BackOff
    PROVE  AnnouncedInv'
<1>1. /\ toHost \in Seq(Frames) /\ toReader \in Seq(Requests) /\ reader \in Readers
      /\ toHost' \in Seq(Frames) /\ toReader' \in Seq(Requests)
  BY TypesAre, Zenon DEF TypeOK, Requests
<1>2. /\ port = "ending" /\ port' = "closed" /\ start' = NotStarted /\ backlog' = backlog
      /\ toReader' = Disowned(toReader) /\ toHost' = Disowned(toHost)
      /\ reader' = [reader EXCEPT !.stream = IF @ = "own" THEN "stale" ELSE @, !.settings = {}]
  BY DEF BackOff
<1>3. reader'.stream # "own"
  BY <1>1, <1>2 DEF Readers
<1>4. start'.progress = "waiting" /\ start'.announced = FALSE
  BY <1>2 DEF NotStarted
<1>5. /\ Len(toHost') = Len(toHost)
      /\ \A i \in 1..Len(toHost) : /\ toHost'[i].kind = toHost[i].kind
                                   /\ toHost[i].kind = "answer" =>
                                         toHost'[i].to = toHost[i].to /\ ~toHost'[i].own
  <2> DEFINE after(f) == IF "own" \in DOMAIN f THEN [f EXCEPT !.own = FALSE] ELSE f
  <2>0. toHost' = [i \in 1..Len(toHost) |-> after(toHost[i])]
    BY <1>1, <1>2 DEF Disowned
  <2>1. \A i \in 1..Len(toHost) : toHost'[i] = after(toHost[i])
    <3> HIDE DEF after
    <3> QED
      BY <2>0
  <2>2. Len(toHost') = Len(toHost)
    BY <1>1, <1>2, DisownedFacts
  <2>3. ASSUME NEW f \in Frames, NEW h,
               h = IF "own" \in DOMAIN f THEN [f EXCEPT !.own = FALSE] ELSE f
        PROVE  h.kind = f.kind /\ (f.kind = "answer" => h.to = f.to /\ ~h.own)
    <3>1. CASE f.kind = "answer"
      <4>1. f \in Answers
        BY <3>1, FrameFacts
      <4> QED
        BY <2>3, <4>1 DEF Answers
    <3>2. CASE f.kind # "answer"
      <4>1. "own" \notin DOMAIN f
        BY <3>2 DEF Frames
      <4> QED
        BY <2>3, <3>2, <4>1
    <3> QED
      BY <3>1, <3>2
  <2>4. \A i \in 1..Len(toHost) : toHost[i] \in Frames
    BY <1>1, ElementOfSeq
  <2> QED
    BY <2>1, <2>2, <2>3, <2>4
<1>6. /\ Len(toReader') = Len(toReader)
      /\ \A j \in 1..Len(toReader) :
            toReader'[j].command = toReader[j].command /\ ~toReader'[j].own
  <2>1. \A j \in 1..Len(toReader) : toReader[j] \in Requests
    BY <1>1, ElementOfSeq
  <2>2. \A q \in Requests : "own" \in DOMAIN q
    BY DEF Requests
  <2>3. toReader' = [j \in 1..Len(toReader) |-> [toReader[j] EXCEPT !.own = FALSE]]
    BY <1>1, <1>2, <2>1, <2>2 DEF Disowned
  <2> DEFINE freed(q) == [q EXCEPT !.own = FALSE]
  <2>4. \A q \in Requests : freed(q).command = q.command /\ freed(q).own = FALSE
    BY DEF Requests
  <2>5. toReader' = [j \in 1..Len(toReader) |-> freed(toReader[j])]
    BY <2>3
  <2> HIDE DEF freed
  <2>6. Len(toReader') = Len(toReader)
    BY <1>1, <2>5
  <2>7. \A j \in 1..Len(toReader) : toReader'[j] = freed(toReader[j])
    BY <2>5
  <2> QED
    BY <2>1, <2>4, <2>6, <2>7
<1>7. /\ NoneOwn(Line(toHost', 0, toReader'))
      /\ VersionLast(Line(toHost, 0, toReader)) => VersionLast(Line(toHost', 0, toReader'))
  BY <1>1, <1>5, <1>6, LineDisowned
<1> QED
  BY <1>2, <1>3, <1>4, <1>7 DEF AnnouncedInv

LEMMA AnnouncedStep ==
    ASSUME TypeOK, TypeOK', StartInv, InSequence(toHost), AnnouncedInv, [Next]_vars
    PROVE  AnnouncedInv'
<1>1. CASE Read \/ TimeOut \/ PortEnds
  BY <1>1, ConcludeStep
<1>2. CASE Open
  BY <1>2, OpenStep
<1>3. CASE OpenFails
  <2>1. /\ port = "closed" /\ port' = "ending" /\ start' = NotStarted
        /\ UNCHANGED <<toReader, toHost, backlog>>
    BY <1>3 DEF OpenFails
  <2> QED
    BY <2>1 DEF AnnouncedInv, NotStarted
<1>4. CASE Send
  <2>1. UNCHANGED <<port, start, toReader, toHost, reader, backlog>>
    BY <1>4 DEF Send
  <2> QED
    BY <2>1 DEF AnnouncedInv
<1>5. CASE BackOff
  BY <1>5, BackOffStep
<1>6. CASE ConsumerLeaves
  BY <1>6 DEF ConsumerLeaves, AnnouncedInv
<1>7. CASE Module
  BY <1>7, ModuleStep
<1>8. CASE UNCHANGED vars
  BY <1>8 DEF vars, AnnouncedInv
<1> QED
  BY <1>1, <1>2, <1>3, <1>4, <1>5, <1>6, <1>7, <1>8 DEF Next, Provider

LEMMA AnnouncedStarts == Init => AnnouncedInv
<1> SUFFICES ASSUME Init
             PROVE  AnnouncedInv
  OBVIOUS
<1>1. port = "closed" /\ start.progress = "waiting" /\ start.announced = FALSE
        /\ toHost = <<>> /\ toReader = <<>>
  BY DEF Init, NotStarted
<1>2. reader.stream # "own"
  BY DEF Init
<1>3. DOMAIN Line(<<>>, 0, <<>>) = {}
  BY DEF Line
<1> HIDE DEF Init
<1>4. VersionLast(Line(<<>>, 0, <<>>)) /\ NoneOwn(Line(<<>>, 0, <<>>))
  BY <1>3 DEF VersionLast, NoneOwn
<1> QED
  BY <1>1, <1>2, <1>4 DEF AnnouncedInv

(* A connection is announced only when the module streams because of it,   *)
(* with every setting accepted, where at most one connection in a row      *)
(* found answers outstanding.                                              *)
THEOREM AnnouncedStreams == Spec => []AnnouncedIsStreaming
<1>1. Init => IInv /\ AnnouncedInv
  BY InitHolds, AnnouncedStarts
<1>2. IInv /\ AnnouncedInv /\ [Next]_vars => (IInv /\ AnnouncedInv)'
  <2> SUFFICES ASSUME IInv, AnnouncedInv, [Next]_vars
               PROVE  IInv' /\ AnnouncedInv'
    OBVIOUS
  <2>1. IInv'
    BY InvStep
  <2>2. TypeOK /\ TypeOK' /\ StartInv /\ InSequence(toHost)
    BY <2>1 DEF IInv, ReportsInv, Accounted
  <2> QED
    BY <2>1, <2>2, AnnouncedStep
<1>3. IInv /\ AnnouncedInv => AnnouncedIsStreaming
  <2> SUFFICES ASSUME IInv, AnnouncedInv, Announced, backlog < 2
               PROVE  Streaming
    BY SMTT(60) DEF AnnouncedIsStreaming
  <2>1. Done(reader, toHost, 0, toReader, 9)
    BY SMTT(60) DEF AnnouncedInv, Announced
  <2>2. reader.settings \subseteq Settings
    BY Zenon, TypesAre, ReadersFacts DEF IInv
  <2>3. reader.stream = "own" /\ \A k \in 1..8 : Steps[k] \in Settings => Steps[k] \in reader.settings
    BY <2>1 DEF Done
  <2>4. Settings \subseteq reader.settings
    BY <2>3, StepNames DEF Settings
  <2> QED
    BY <2>2, <2>3, <2>4 DEF Streaming
<1> QED
  BY <1>1, <1>2, <1>3, PTL DEF Spec
=============================================================================
