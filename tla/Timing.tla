------------------------------- MODULE Timing -------------------------------
(***************************************************************************)
(* A race as the evidence comes in: reads in whatever order they arrive,   *)
(* entries written by hand, a gun that is recorded or corrected, statuses  *)
(* declared.  Everything else is derived anew from all of it, whenever it  *)
(* is asked for.                                                           *)
(***************************************************************************)
EXTENDS Publication

CONSTANTS
    Setups,       \* courses, rosters and rules: see MCTiming
    Readings,     \* the reads that can arrive
    Hands,        \* the entries an operator can write
    Words,        \* the statuses that can be declared
    Guns,         \* when the race can be recorded to have started
    MaxReads,     \* bounds on the evidence
    MaxLate,      \*   ... and on the reads that arrive after a later one
    MaxHands,
    MaxWords,
    MaxGuns,
    MaxRows       \*   ... and on all of it together

VARIABLES
    setup,        \* the configuration, with the scheduled start
    journal,      \* raw_reads, in the order of seq
    written,      \* manual_entries, in the order of seq
    declared,     \* status_declarations, in the order of seq
    started       \* race_sessions: the starts recorded, oldest first

timingVars == <<setup, journal, written, declared, started>>

ASSUME Bounded == {MaxReads, MaxLate, MaxHands, MaxWords, MaxGuns, MaxRows} \subseteq Nat

(* TimingEvent: what can become one.                                       *)
EventsOf(setting) ==
    [participant : {w.participant : w \in setting.chips} \cup {h.participant : h \in Hands},
     checkpoint : {m.checkpoint : m \in setting.antennas} \cup {h.checkpoint : h \in Hands},
     at : Int, manual : BOOLEAN, id : Int, lap : Nat]

(* A course: a finite one, of the kinds there are, each checkpoint with a  *)
(* key and a number.  How long it is is a number too.                      *)
IsCourse(setting) ==
    /\ IsFiniteSet(DOMAIN setting.course)
    /\ Range(setting.course) \subseteq {"start", "split", "finish", "lap"}
    /\ \A c \in DOMAIN setting.course : setting.key[c] \in Int /\ setting.sequence[c] \in Int
    /\ setting.meters \in Int /\ setting.laps \in Nat

(* What is read back from the database: a roster of whole bibs, no window  *)
(* of less than no time, rows with an instant, and words that say what;    *)
(* and none of it is None.                                                 *)
ASSUME Given ==
    /\ \A s \in Setups :
          /\ IsRoster(s.roster) /\ s.scheduled \in Int \cup {None} /\ s.handsFirst \in BOOLEAN
          /\ s.policy.minLap \in Int \cup {None} /\ s.policy.window \in Nat
          /\ \A c \in DOMAIN s.policy.own : s.policy.own[c].window \in Nat
          /\ None \notin EventsOf(s)
          /\ IsCourse(s)
    /\ Guns \subseteq Int
    /\ \A row \in Readings : "at" \in DOMAIN row /\ row.at \in Int
    /\ \A row \in Hands : {"at", "participant", "checkpoint"} \subseteq DOMAIN row /\ row.at \in Int
    /\ \A row \in Readings, n \in 1..MaxReads : Having(row, "seq", n) # None
    /\ \A word \in Words : word.status # None

(* gun_time: the most recent start, or else the scheduled one.             *)
GunOf(setting, starts) == IF starts = <<>> THEN setting.scheduled ELSE Last(starts)

DerivationOf(reads, entries, starts) ==
    Derive([reads |-> reads, policy |-> setup.policy, chips |-> setup.chips,
            antennas |-> setup.antennas, manual |-> entries, gun |-> GunOf(setup, starts)])

derivation == DerivationOf(journal, written, started)

ScoreOf(events, words, starts) ==
    Score([events |-> events, roster |-> setup.roster, course |-> setup.course,
           mode |-> setup.mode, declarations |-> words, gun |-> GunOf(setup, starts),
           handsFirst |-> setup.handsFirst])

SheetOf(events, words) == ScoreOf(events, words, started)

results == SheetOf(Range(derivation.events), declared)
-----------------------------------------------------------------------------
TimingInit ==
    /\ setup \in Setups
    /\ journal = <<>> /\ written = <<>> /\ declared = <<>> /\ started = <<>>

WithSeq(log, row) == Append(log, Having(row, "seq", Len(log) + 1))

Without(log) == {[f \in DOMAIN log[i] \ {"seq"} |-> log[i][f]] : i \in DOMAIN log}

Late(log) == {i \in DOMAIN log : \E j \in 1..(i - 1) : log[j].at > log[i].at}

(* The evidence is within its bound.                                       *)
HasRoom == Len(journal) + Len(written) + Len(declared) + Len(started) < MaxRows

(* A read reaches the journal, live or from the sidecar.                   *)
ReadIsStored ==
    /\ HasRoom /\ Len(journal) < MaxReads
    /\ \E reading \in Readings \ Without(journal) : journal' = WithSeq(journal, reading)
    /\ Cardinality(Late(journal')) <= MaxLate
    /\ UNCHANGED <<setup, written, declared, started>>

(* manual add.                                                             *)
EntryIsWritten ==
    /\ HasRoom /\ Len(written) < MaxHands
    /\ \E hand \in Hands : written' = WithSeq(written, hand)
    /\ UNCHANGED <<setup, journal, declared, started>>

(* results status.                                                         *)
StatusIsDeclared ==
    /\ HasRoom /\ Len(declared) < MaxWords
    /\ \E word \in Words : declared' = Append(declared, word)
    /\ UNCHANGED <<setup, journal, written, started>>

(* race start.                                                             *)
GunIsRecorded ==
    /\ HasRoom /\ Len(started) < MaxGuns
    /\ \E at \in Guns : started' = Append(started, at)
    /\ UNCHANGED <<setup, journal, written, declared>>

TimingNext == ReadIsStored \/ EntryIsWritten \/ StatusIsDeclared \/ GunIsRecorded

TimingSpec == TimingInit /\ [][TimingNext]_timingVars
-----------------------------------------------------------------------------
(***************************************************************************)
(* What must hold.                                                         *)
(***************************************************************************)

Gun == GunOf(setup, started)

Checkpoint(read) == Resolve(setup.antennas, read)

SameLine(r, s) == r.chip = s.chip /\ Checkpoint(r) = Checkpoint(s)

(* Nowhere between two reads is the chip unseen for more than the window.  *)
Together(r, s) ==
    LET seen == {t \in Range(journal) : SameLine(r, t)}
        window == WindowFor(setup.policy, Checkpoint(r))
    IN  SameLine(r, s) /\ \A t \in seen :
            (r.at <= t.at /\ t.at < s.at) \/ (s.at <= t.at /\ t.at < r.at)
                => \E u \in seen : t.at < u.at /\ u.at <= t.at + window

BurstOf(read) == {s \in Range(journal) : Together(read, s)}

Wanted(burst, rule) ==
    {r \in burst : CASE rule.is = "first" -> TRUE
                     [] rule.is = "first above" -> r.rssi >= rule.floor
                     [] rule.is = "peak" -> \A s \in burst : s.rssi <= r.rssi}

(* What becomes of a read depends on the reads and not on how they came:   *)
(* those between which the chip was never unseen for longer than a window  *)
(* are one crossing at the first instant the rule accepts, or none; none   *)
(* only where the rule accepts nothing, or where a crossing that stands    *)
(* was less than a lap ago and not a warm-up to this one's race; and every *)
(* read is either what a crossing rests on or refused for one reason.      *)
BurstsBecomeCrossings ==
    LET found == derivation
        why(read) == {x \in found.rejected : x.read = read.seq}
        crossing(read) == {c \in found.accepted : read.seq \in c.burst}
    IN  \A read \in Range(journal) :
            LET wanted == Wanted(BurstOf(read), RuleFor(setup.policy, Checkpoint(read)))
                at == CHOOSE t \in {r.at : r \in wanted} : \A r \in wanted : t <= r.at
                inTheRace == Some(Gun) => \E r \in BurstOf(read) : r.at >= Gun
                soon(c) == /\ c.chip = read.chip /\ c.checkpoint = Checkpoint(read)
                           /\ c.at < at /\ at - c.at < setup.policy.minLap
                           /\ c.raceSide \/ ~inTheRace
                refused == \/ wanted = {}
                           \/ Some(setup.policy.minLap) /\ \E c \in found.accepted : soon(c)
            IN  IF ~Some(Checkpoint(read)) THEN {x.reason : x \in why(read)} = {"unmapped"}
                ELSE IF refused THEN crossing(read) = {} /\ Cardinality(why(read)) = 1
                ELSE \E c \in found.accepted :
                        /\ crossing(read) = {c} /\ c.at = at
                        /\ c.burst = {s.seq : s \in BurstOf(read)}
                        /\ c.source \in {s.seq : s \in wanted}
                        /\ why(read) = IF c.source = read.seq THEN {} ELSE
                              {[read |-> read.seq, reason |-> "duplicate", by |-> c.source]}

(* What was found counts a runner's laps from 1 and without a gap, but for *)
(* what was over before the gun.                                           *)
CountsLaps(found) ==
    LET events == found.events
        over(e) == Some(Gun) /\ IF e.manual THEN e.at < Gun
                   ELSE \A c \in found.accepted : c.source = e.id =>
                        \A r \in Range(journal) : r.seq \in c.burst => r.at < Gun
    IN  \A i \in DOMAIN events :
            LET ofRunner == {j \in DOMAIN events :
                                /\ events[j].participant = events[i].participant
                                /\ events[j].checkpoint = events[i].checkpoint
                                /\ ~over(events[j])}
            IN  /\ (events[i].lap = 0) = over(events[i])
                /\ {events[j].lap : j \in ofRunner} = 1..Cardinality(ofRunner)
                /\ \A j, k \in ofRunner : events[j].lap < events[k].lap => events[j].at <= events[k].at

(* A runner's laps are counted from the gun without a gap, in the order of *)
(* time, over swapped chips and entries by hand; and lap 0 is for what was *)
(* over before the gun.                                                    *)
LapsCountTheRace == CountsLaps(derivation)

Scorable == ~Unscorable(setup.course, setup.mode)

(* A place is one more than the number of runners who were faster and      *)
(* hold one, for those who finished in a time that can be defended, and    *)
(* nobody else has one; the sheet has a line for everybody, the placed     *)
(* before the others, by place (PlacedByTime).                             *)
PlacesFollowTimes ==
    Scorable => Len(results) = Cardinality(DOMAIN setup.roster) /\ PlacedByTime(results)

LineOf(sheet, participant) == CHOOSE e \in Range(sheet) : e.participant = participant

HandFlagged(entry) ==
    entry.flags \cap {"manual start", "manual finish"} # {}

(* No hand changes a result in silence: where the entries written make a   *)
(* runner's time, or the lack of one, another than the chips say, the line *)
(* says that a hand was used; and if a chip has a time of its own for that *)
(* line, that it was passed over.                                          *)
NoSilentHand ==
    Scorable /\ written # <<>> =>
        LET byChips == SheetOf(Range(DerivationOf(journal, <<>>, started).events), declared) IN
        \A e \in Range(results) :
            LET chips == LineOf(byChips, e.participant) IN
            /\ e.time # chips.time => HandFlagged(e)
            /\ Some(chips.finishAt) /\ e.finishAt # chips.finishAt
                  => "manual finish over chip" \in e.flags

(* What was over before the gun is no part of the race: but for a start it *)
(* proves and the flag that mentions it, nobody's line depends on it.      *)
WarmUpsCountForNothing ==
    Scorable /\ Some(Gun) =>
        LET inTheRace == {e \in Range(derivation.events) :
                            e.at >= Gun \/ e.checkpoint = Sole(setup.course, "start")}
            plain(sheet) == [i \in DOMAIN sheet |->
                [sheet[i] EXCEPT !.flags = @ \ {"finish read before gun"}]]
        IN  plain(results) = plain(SheetOf(inTheRace, declared))

(* Of those the diff of two sheets names, but for one, only the places     *)
(* moved, all one way and by one.                                          *)
OthersMove(then, now, bib) ==
    LET others == {c \in Diff(then, now) : c.bib # bib}
        moves == UNION {{is.place - was.place : is \in c.to, was \in c.from} : c \in others}
    IN  /\ moves \subseteq {1} \/ moves \subseteq {-1}
        /\ {c.change : c \in others} \subseteq {"placement"}

(* Who was spoken of has that status and their time, and nobody else's     *)
(* line is another but for its place.                                      *)
LinesAgree(then, now, word) ==
    \A e \in Range(now) :
        LET was == LineOf(then, e.participant) IN
        IF e.participant = word.participant
        THEN e.status = word.status /\ e.time = was.time
        ELSE [e EXCEPT !.place = None] = [was EXCEPT !.place = None]

(* Declaring a status is about one runner: against the sheet without the   *)
(* last word, their line says so and keeps its times, and of the others    *)
(* only places move, all one way and by one; and those are what the diff   *)
(* of the two sheets names.                                                *)
DeclarationMovesOnlyPlaces ==
    Scorable /\ declared # <<>> =>
        LET word == Last(declared)
            before == SheetOf(Range(derivation.events), Front(declared))
        IN  /\ OthersMove(before, results, setup.roster[word.participant])
            /\ LinesAgree(before, results, word)

PublishedOf(reads, entries, starts) ==
    Published(setup, GunOf(setup, starts), Range(DerivationOf(reads, entries, starts).events))

(* What is true now, for a page that holds what was true of less.          *)
IsKeptUp(now, held, max) ==
    PageAfter(OnThePage(held), Batches(now, ToRestate(held, now), max)) = OnThePage(now)

(* A crossing of the finish at the time a line is scored by.               *)
ShowsTheFinish(now, e) ==
    \E c \in Range(now[e.bib]) :
        /\ c.point = setup.key[Sole(setup.course, "finish")]
        /\ c.at = e.finishAt /\ c.elapsed = Minus(e.finishAt, Gun)

(* The public page keeps up with the evidence: whatever it held before the *)
(* last read, the entries by hand or the start recorded, the batches of    *)
(* what changed leave it with what is true now and nothing else, however   *)
(* small they are; a crossing is at a mat of the manifest; and the board   *)
(* shows the finish, and its time from the gun, that the sheet scores.     *)
PageKeepsUp ==
    ~CannotBePlaced(setup) =>
        LET now == PublishedOf(journal, written, started)
            earlier == {PublishedOf(journal, written, <<>>), PublishedOf(journal, <<>>, started)}
                \cup {PublishedOf(Front(journal), written, started) : i \in {1} \cap DOMAIN journal}
            mats == {point.key : point \in Range(Manifest(setup, Gun).points)}
        IN  /\ \A held \in earlier, max \in {1, 3} : IsKeptUp(now, held, max)
            /\ \A crossing \in OnThePage(now) : crossing.point \in mats
            /\ Scorable => \A e \in Range(results) :
                    Some(e.finishAt) /\ e.bib <= LastBib => ShowsTheFinish(now, e)

Rows == RowsOf(setup, Gun, results, Range(derivation.events))

(* What publish.rs says of a row: its splits are the runner's intermediate *)
(* crossings, so every split mat that read them in the race is listed.     *)
SplitsAreTold ==
    ~CannotBePlaced(setup) /\ Scorable /\ Some(Gun) /\ Some(Rows) =>
        \A e \in Range(derivation.events) :
            IsPublished(setup, e) /\ setup.course[e.checkpoint] = "split" =>
                \E row \in Range(Rows) :
                    /\ row.bib = setup.roster[e.participant]
                    /\ setup.key[e.checkpoint] \in {split.key : split \in Range(row.splits)}

(* What the scoring says of a time that cannot be: it is reported, and not *)
(* published as a negative one, which RaceDay Connect refuses.             *)
NoNegativeTimes ==
    ~CannotBePlaced(setup) /\ Scorable /\ Some(Rows) =>
        \A i \in DOMAIN Rows :
            \A time \in {Rows[i].gunTime, Rows[i].chipTime} : Some(time) => time >= 0
=============================================================================
