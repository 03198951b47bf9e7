----------------------------- MODULE Derivation -----------------------------
(***************************************************************************)
(* From evidence to timing events: what the engine concludes from the      *)
(* reads in the journal, the entries an operator wrote, and the rules.     *)
(*                                                                         *)
(* Time is counted in units of which a few make a window.  A read is what  *)
(* derivation looks at: its place in the journal, the authoritative time,  *)
(* the chip, reader and antenna, and how loud it was.  Its identifier, and *)
(* the crossing's that is named after it, is its place in the journal: the *)
(* code's are random or hashes, and only order what happened at one        *)
(* instant.                                                                *)
(***************************************************************************)
EXTENDS Integers, Sequences, FiniteSets, SequencesExt

CONSTANT None       \* what an Option does not hold

NoSignal == -100    \* a read that came without its strength

(* ... and neither is a number, nor what the loop of derive goes on with.  *)
ASSUME NoneIsNothing == None \notin Int /\ None \notin [burst : Nat, at : Int, raceSide : BOOLEAN]

Some(option) == option # None

(* Which of a set go before which.                                         *)
Pairs(S, Before(_, _)) == {pair \in S \X S : Before(pair[1], pair[2])}

(* A set in an order: each behind as many as go before it.  (The SortSeq   *)
(* of TLC, which would do, is an operator no proof can expand.)            *)
InOrder(S, pairs) ==
    [i \in 1..Cardinality(S) |->
        CHOOSE e \in S : Cardinality({f \in S : <<f, e>> \in pairs}) = i - 1]

(* A row, or what was seen, with one thing more in it.                     *)
Having(f, x, value) == [y \in DOMAIN f \cup {x} |-> IF y = x THEN value ELSE f[y]]

(* AntennaMap::resolve: an antenna's own line beats its reader's.          *)
Resolve(antennas, read) ==
    LET exact == {m \in antennas : m.reader = read.reader /\ m.antenna = read.antenna}
        wild == {m \in antennas : m.reader = read.reader /\ m.antenna = None}
    IN  CASE exact # {} -> (CHOOSE m \in exact : TRUE).checkpoint
          [] exact = {} /\ wild # {} -> (CHOOSE m \in wild : TRUE).checkpoint
          [] OTHER -> None

(* ChipAssignment: from an instant, until before another.                  *)
Covers(assignment, at) ==
    at >= assignment.from /\ (Some(assignment.until) => at < assignment.until)

Overlaps(one, other) ==
    /\ Some(other.until) => one.from < other.until
    /\ Some(one.until) => other.from < one.until

(* The rows of a chip in the order they begin, and where two begin at once *)
(* in the order they are in.                                               *)
BeginsBefore(rows, i, j) ==
    /\ rows[i].chip = rows[j].chip
    /\ rows[i].from < rows[j].from \/ (rows[i].from = rows[j].from /\ i < j)

Neighbours(rows, i, j) ==
    /\ BeginsBefore(rows, i, j)
    /\ ~\E k \in DOMAIN rows : BeginsBefore(rows, i, k) /\ BeginsBefore(rows, k, j)

(* ChipRegistry::from_assignments: no window of a chip runs into the next. *)
Registry(rows) ==
    \A i, j \in DOMAIN rows : Neighbours(rows, i, j) => ~Overlaps(rows[i], rows[j])

ParticipantAt(assignments, chip, at) ==
    LET worn == {w \in assignments : w.chip = chip /\ Covers(w, at)} IN
    IF worn = {} THEN None ELSE (CHOOSE w \in worn : TRUE).participant

(* TimingPolicy: a checkpoint's own rule beats the race's.                 *)
WindowFor(policy, checkpoint) ==
    IF checkpoint \in DOMAIN policy.own THEN policy.own[checkpoint].window ELSE policy.window

RuleFor(policy, checkpoint) ==
    IF checkpoint \in DOMAIN policy.own THEN policy.own[checkpoint].rule ELSE policy.rule
-----------------------------------------------------------------------------
(* By authoritative time, then by place in the journal.                    *)
Earlier(one, other) == one.at < other.at \/ (one.at = other.at /\ one.seq < other.seq)

(* The reads of one chip at one checkpoint.                                *)
Group(input, chip, checkpoint) ==
    LET reads == {r \in Range(input.reads) :
                    r.chip = chip /\ Resolve(input.antennas, r) = checkpoint}
    IN  InOrder(reads, Pairs(reads, Earlier))

(* Mutant: reads exactly a window apart are two crossings.                 *)
BeginsBurstAtWindow(group, i, window) == i = 1 \/ group[i].at - group[i - 1].at >= window

(* split_into_bursts: reads exactly a window apart are one crossing, and   *)
(* what counts is how long ago the previous read was, not the first.       *)
BeginsBurst(group, i, window) == i = 1 \/ group[i].at - group[i - 1].at > window

Bursts(group, window) ==
    LET first == {i \in DOMAIN group : BeginsBurst(group, i, window)}
        begin == InOrder(first, Pairs(first, <))
    IN
    [k \in DOMAIN begin |->
        SubSeq(group, begin[k], IF k < Len(begin) THEN begin[k + 1] - 1 ELSE Len(group))]

(* select: the earliest of the reads the rule would have.                  *)
Select(burst, rule) ==
    LET wanted == {i \in DOMAIN burst :
            CASE rule.is = "first" -> TRUE
              [] rule.is = "first above" -> burst[i].rssi >= rule.floor
              [] rule.is = "peak" -> \A j \in DOMAIN burst : burst[j].rssi <= burst[i].rssi}
    IN  IF wanted = {} THEN None ELSE burst[CHOOSE i \in wanted : \A j \in wanted : i <= j]

(* on_the_race_side: its reads were still arriving when the gun went.      *)
OnTheRaceSide(burst, gun) == Some(gun) => Last(burst).at >= gun

(* A lap credited sooner than is plausible is a re-read; a warm-up is not  *)
(* the start of a lap, and is measured against nothing after the gun.      *)
TooSoon(minLap, last, at, raceSide) ==
    Some(minLap) /\ Some(last) /\ (last.raceSide \/ ~raceSide) /\ at - last.at < minLap

(* The burst credited before the k-th, if one was: the loop's last_credited. *)
Credits(policy, gun, choices, bursts) ==
    LET last[k \in 0..Len(bursts)] ==
            IF k = 0 THEN None
            ELSE LET earlier == last[k - 1] IN
                 IF ~Some(choices[k])
                    \/ TooSoon(policy.minLap, earlier, choices[k].at, OnTheRaceSide(bursts[k], gun))
                 THEN earlier
                 ELSE [burst |-> k, at |-> choices[k].at, raceSide |-> OnTheRaceSide(bursts[k], gun)]
    IN  {last[k].burst : k \in {i \in DOMAIN bursts : Some(last[i])}}

Rejected(burst, reason, by) ==
    {[read |-> read.seq, reason |-> reason, by |-> by] : read \in burst}

(* What becomes of one group's bursts, by what was chosen from each and    *)
(* which of them are credited.                                             *)
Outcome(input, chip, checkpoint, bursts, choices, credits) ==
    LET Crossing(k) ==
            [chip |-> chip, checkpoint |-> checkpoint, at |-> choices[k].at,
             participant |-> ParticipantAt(input.chips, chip, choices[k].at),
             source |-> choices[k].seq, burst |-> {r.seq : r \in Range(bursts[k])},
             raceSide |-> OnTheRaceSide(bursts[k], input.gun)]
        Left(k) ==
            IF ~Some(choices[k]) THEN Rejected(Range(bursts[k]), "below the floor", None)
            ELSE IF k \notin credits THEN Rejected(Range(bursts[k]), "below the minimum lap", None)
            ELSE Rejected(Range(bursts[k]) \ {choices[k]}, "duplicate", choices[k].seq)
    IN  [accepted |-> {Crossing(k) : k \in credits},
         rejected |-> UNION {Left(k) : k \in DOMAIN bursts}]

(* Bursts: chosen from, credited, and accounted for.                       *)
CreditedOf(input, chip, checkpoint, bursts) ==
    LET choices == [k \in DOMAIN bursts |-> Select(bursts[k], RuleFor(input.policy, checkpoint))]
    IN  Outcome(input, chip, checkpoint, bursts, choices,
                Credits(input.policy, input.gun, choices, bursts))

Credited(input, chip, checkpoint) ==
    CreditedOf(input, chip, checkpoint,
               Bursts(Group(input, chip, checkpoint), WindowFor(input.policy, checkpoint)))
-----------------------------------------------------------------------------
(* Both kinds of evidence, merged by time; a crossing goes before an entry *)
(* of the same instant.                                                    *)
Sources(input, accepted) ==
    LET crossed == {[at |-> c.at, participant |-> c.participant, checkpoint |-> c.checkpoint,
                     raceSide |-> c.raceSide, manual |-> FALSE, id |-> c.source]
                        : c \in {a \in accepted : Some(a.participant)}}
        written == {[at |-> e.at, participant |-> e.participant, checkpoint |-> e.checkpoint,
                     raceSide |-> Some(input.gun) => e.at >= input.gun,
                     manual |-> TRUE, id |-> e.seq] : e \in Range(input.manual)}
        Before(s, t) ==
            \/ s.at < t.at
            \/ s.at = t.at /\ ~s.manual /\ t.manual
            \/ s.at = t.at /\ s.manual = t.manual /\ s.id < t.id
    IN  InOrder(crossed \cup written, Pairs(crossed \cup written, Before))

(* Mutant: a warm-up takes a lap number.                                   *)
LapFromFirst(sources, i) ==
    1 + Cardinality({j \in 1..(i - 1) : sources[j].participant = sources[i].participant
                                        /\ sources[j].checkpoint = sources[i].checkpoint})

(* Laps count per runner, whichever chip or hand, and from the gun.        *)
Lap(sources, i) ==
    IF ~sources[i].raceSide THEN 0
    ELSE 1 + Cardinality({j \in 1..(i - 1) : sources[j].participant = sources[i].participant
                                             /\ sources[j].checkpoint = sources[i].checkpoint
                                             /\ sources[j].raceSide})

Events(sources) ==
    [i \in DOMAIN sources |->
        [participant |-> sources[i].participant, checkpoint |-> sources[i].checkpoint,
         at |-> sources[i].at, manual |-> sources[i].manual, id |-> sources[i].id,
         lap |-> Lap(sources, i)]]

(* derive: what became of every read, and the events in their order.       *)
Derive(input) ==
    LET unmapped == {r \in Range(input.reads) : ~Some(Resolve(input.antennas, r))}
        groups == {<<r.chip, Resolve(input.antennas, r)>> : r \in Range(input.reads) \ unmapped}
        credited == {Credited(input, g[1], g[2]) : g \in groups}
        accepted == UNION {c.accepted : c \in credited}
    IN  [accepted |-> accepted,
         rejected |-> (UNION {c.rejected : c \in credited}) \cup Rejected(unmapped, "unmapped", None),
         events |-> Events(Sources(input, accepted))]
=============================================================================
