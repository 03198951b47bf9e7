---------------------------- MODULE Publication ----------------------------
(***************************************************************************)
(* What was derived, as RaceDay Connect reads it: the course with its mats *)
(* in metres, every runner's crossings and what of them to send again, and *)
(* the rows of a revision.                                                 *)
(*                                                                         *)
(* A race says here how it is published: its meters and laps, and for each *)
(* checkpoint its place among them, its key and, if a split, its meters.   *)
(* Two names may reduce to one key, and keys and bibs are numbers: only    *)
(* their order matters, and that a bib can be too long.                    *)
(***************************************************************************)
EXTENDS Scoring

CONSTANT LastBib    \* the last bib RaceDay Connect can store: the others are too long

LapsOf(race) == Max({race.laps, 1})

LapLength(race) == race.meters \div LapsOf(race)

(* The operator places the splits; the start and the finish place          *)
(* themselves.                                                             *)
Meters(race, checkpoint) ==
    CASE race.course[checkpoint] = "start" -> 0
      [] race.course[checkpoint] \in {"finish", "lap"} -> LapLength(race)
      [] OTHER -> race.splits[checkpoint]

(* A split that is not placed, or not on a lap.                          *)
Misplaced(race, split) ==
    split \notin DOMAIN race.splits \/ race.splits[split] \notin 0..LapLength(race)

(* Names that reduce to one key.                                         *)
KeysCollide(race) ==
    \E c, d \in DOMAIN race.course : c # d /\ race.key[c] = race.key[d]

(* PublishError: why neither course nor crossings nor results can go.    *)
CannotBePlaced(race) ==
    \/ race.meters <= 0
    \/ \E split \in OfKind(race.course, "split") : Misplaced(race, split)
    \/ KeysCollide(race)

(* in_course_order: along the course, and as the operator numbered them    *)
(* where they share a place.  Where they share a number too the code has   *)
(* their identifiers, whose order is chance: here their keys.              *)
AlongTheCourse(race, c, d) ==
    \/ Meters(race, c) < Meters(race, d)
    \/ Meters(race, c) = Meters(race, d) /\ race.sequence[c] < race.sequence[d]
    \/ Meters(race, c) = Meters(race, d) /\ race.sequence[c] = race.sequence[d]
            /\ race.key[c] < race.key[d]

(* manifest: the mats along the course.                                    *)
Manifest(race, gun) ==
    LET Before(c, d) == AlongTheCourse(race, c, d)
        mats == InOrder(DOMAIN race.course, Pairs(DOMAIN race.course, Before))
    IN  [meters |-> race.meters, gun |-> gun, laps |-> LapsOf(race),
         points |-> [i \in DOMAIN mats |->
                        [key |-> race.key[mats[i]], meters |-> Meters(race, mats[i])]]]
-----------------------------------------------------------------------------
(* A crossing of the race may begin a moment before the gun.               *)
Elapsed(from, to) == IF Some(from) THEN Max({to - from, 0}) ELSE None

CrossedBefore(one, other) ==
    \/ one.at < other.at
    \/ one.at = other.at /\ one.lap < other.lap
    \/ one.at = other.at /\ one.lap = other.lap /\ one.point < other.point

(* SkipReason, and the mats of other races.                                *)
IsPublished(race, event) ==
    /\ event.checkpoint \in DOMAIN race.course
    /\ event.lap # 0
    /\ event.participant \in DOMAIN race.roster
    /\ race.roster[event.participant] <= LastBib

(* crossings: every runner's, in the order they happened.                  *)
Published(race, gun, events) ==
    LET shown == {e \in events : IsPublished(race, e)}
        Crossing(e) == [bib |-> race.roster[e.participant], point |-> race.key[e.checkpoint],
                        at |-> e.at, lap |-> e.lap, elapsed |-> Elapsed(gun, e.at)]
        theirs(bib) == {Crossing(e) : e \in {f \in shown : race.roster[f.participant] = bib}}
    IN  [bib \in {race.roster[e.participant] : e \in shown} |->
            InOrder(theirs(bib), Pairs(theirs(bib), CrossedBefore))]

(* Mutant: a runner who has no crossings any more is not restated.         *)
DifferingNow(sent, now) == {bib \in DOMAIN now : bib \notin DOMAIN sent \/ sent[bib] # now[bib]}

(* changed: the runners to state anew, those with none any more included.  *)
Differing(sent, now) ==
    {bib \in DOMAIN now : bib \notin DOMAIN sent \/ sent[bib] # now[bib]} \cup (DOMAIN sent \ DOMAIN now)

ToRestate(sent, now) == InOrder(Differing(sent, now), Pairs(Differing(sent, now), <))

NoBatch == [crossings |-> <<>>, replaces |-> <<>>]

CrossingsBy(now, bib) == IF bib \in DOMAIN now THEN now[bib] ELSE <<>>

(* One runner more, with all their crossings.                              *)
WithRunner(now, batch, bib) ==
    [crossings |-> batch.crossings \o CrossingsBy(now, bib), replaces |-> Append(batch.replaces, bib)]

IsFull(now, batch, bib, max) ==
    \/ Len(batch.replaces) >= max
    \/ Len(batch.crossings) + Len(CrossingsBy(now, bib)) > max

(* The loop of batches: into the batch at hand, or into the next.          *)
Pack(now, packed, bib, max) ==
    IF packed.batch.replaces # <<>> /\ IsFull(now, packed.batch, bib, max)
    THEN [done |-> Append(packed.done, packed.batch), batch |-> WithRunner(now, NoBatch, bib)]
    ELSE [done |-> packed.done, batch |-> WithRunner(now, packed.batch, bib)]

(* batches: each runner whole, as many to a batch as fit, and one at least.*)
Batches(now, runners, max) ==
    LET packed[i \in 0..Len(runners)] ==
            IF i = 0 THEN [done |-> <<>>, batch |-> NoBatch]
            ELSE Pack(now, packed[i - 1], runners[i], max)
        all == packed[Len(runners)]
    IN  all.done \o (IF all.batch.replaces = <<>> THEN <<>> ELSE <<all.batch>>)

(* What RaceDay Connect does with a batch: the runners it restates keep    *)
(* what it holds of them, and a crossing takes the place of one of the     *)
(* same runner, mat and lap.                                               *)
Take(page, batch) ==
    LET Same(c, d) == c.bib = d.bib /\ c.point = d.point /\ c.lap = d.lap
        brought == {batch.crossings[i] : i \in {j \in DOMAIN batch.crossings :
                        \A k \in (j + 1)..Len(batch.crossings) :
                            ~Same(batch.crossings[j], batch.crossings[k])}}
        kept == {c \in page : c.bib \notin Range(batch.replaces) /\ \A d \in brought : ~Same(c, d)}
    IN  kept \cup brought

(* ... and with one batch after the other.                                 *)
PageAfter(page, batches) ==
    LET after[i \in 0..Len(batches)] == IF i = 0 THEN page ELSE Take(after[i - 1], batches[i])
    IN  after[Len(batches)]

OnThePage(published) == UNION {Range(published[bib]) : bib \in DOMAIN published}
-----------------------------------------------------------------------------
(* splits: a mat is listed once, at the last lap it read the runner, and   *)
(* of the events only those the entry rests on.                            *)
SplitsOf(race, from, entry, events) ==
    LET here(c) == {e \in events \cap entry.rests : e.checkpoint = c /\ e.lap # 0}
        last(c) == CHOOSE e \in here(c) : \A f \in here(c) :
                        f.lap < e.lap \/ (f.lap = e.lap /\ f.at <= e.at)
        Before(one, other) == \/ one.meters < other.meters
                              \/ one.meters = other.meters /\ one.key < other.key
        listed == {[key |-> race.key[c], meters |-> Meters(race, c),
                    elapsed |-> Elapsed(from, last(c).at)] :
                        c \in {d \in OfKind(race.course, "split") : here(d) # {}}}
    IN  IF ~Some(from) THEN <<>> ELSE InOrder(listed, Pairs(listed, Before))

(* A row of a revision.                                                    *)
Row(race, gun, entry, events) ==
    [bib |-> entry.bib, status |-> entry.status, place |-> entry.place,
     gunTime |-> Minus(entry.finishAt, gun), chipTime |-> Minus(entry.finishAt, entry.startAt),
     splits |-> SplitsOf(race, IF race.mode = "chip" /\ Some(entry.startAt) THEN entry.startAt
                               ELSE gun, entry, events)]

(* revision: one bib that cannot be stored, and none of it is sent.        *)
RowsOf(race, gun, sheet, events) ==
    IF \E i \in DOMAIN sheet : sheet[i].bib > LastBib THEN None
    ELSE [i \in DOMAIN sheet |-> Row(race, gun, sheet[i], events)]
=============================================================================
