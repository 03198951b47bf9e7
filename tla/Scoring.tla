------------------------------ MODULE Scoring ------------------------------
(***************************************************************************)
(* From timing events to a results sheet: a line for everybody registered, *)
(* the time it is scored by, its status, its flags and its place.          *)
(***************************************************************************)
EXTENDS Derivation

Statuses == {"finished", "dns", "dnf", "dq"}

(* The order a sheet lists the unplaced in: ResultStatus derives its own.  *)
Rank(status) == CASE status = "finished" -> 0 [] status = "dns" -> 1
                  [] status = "dnf" -> 2 [] OTHER -> 3

IsPlaced(status) == status = "finished"
-----------------------------------------------------------------------------
(* sole_checkpoint: the one of its kind.                                   *)
OfKind(course, kind) == {c \in DOMAIN course : course[c] = kind}

(* Why a race cannot be scored at all.                                     *)
Unscorable(course, mode) ==
    \/ Cardinality(OfKind(course, "finish")) # 1
    \/ Cardinality(OfKind(course, "start")) > 1
    \/ mode = "chip" /\ OfKind(course, "start") = {}

Sole(course, kind) ==
    IF OfKind(course, kind) = {} THEN None ELSE CHOOSE c \in OfKind(course, kind) : TRUE

DuringTheRace(gun, at) == Some(gun) => at >= gun

(* By time, then by identifier.  These are hashes: which of two is lower   *)
(* is chance, and for a hand and a chip it is handsFirst that says.        *)
Sooner(handsFirst, e, f) ==
    \/ e.at < f.at
    \/ e.at = f.at /\ e.manual # f.manual /\ e.manual = handsFirst
    \/ e.at = f.at /\ e.manual = f.manual /\ e.id < f.id

FirstOf(handsFirst, events) ==
    IF events = {} THEN None
    ELSE CHOOSE e \in events : \A f \in events \ {e} : Sooner(handsFirst, e, f)

LastOf(handsFirst, events) ==
    IF events = {} THEN None
    ELSE CHOOSE e \in events : \A f \in events \ {e} : Sooner(handsFirst, f, e)

(* Mutant: whatever crossed the line first counts, before the gun or after.*)
CrossingsWarmedUp(input, participant, checkpoint) ==
    LET here == {e \in input.events : e.participant = participant /\ e.checkpoint = checkpoint}
    IN  [counted |-> FirstOf(input.handsFirst, here), beforeGun |-> None,
         countedChip |-> FirstOf(input.handsFirst, {e \in here : ~e.manual})]

(* Crossings: the first from the gun on, the last before it, and the first *)
(* of a chip from the gun on.                                              *)
Crossings(input, participant, checkpoint) ==
    LET here == {e \in input.events : e.participant = participant /\ e.checkpoint = checkpoint}
        racing == {e \in here : DuringTheRace(input.gun, e.at)}
    IN  [counted |-> FirstOf(input.handsFirst, racing),
         beforeGun |-> LastOf(input.handsFirst, here \ racing),
         countedChip |-> FirstOf(input.handsFirst, {e \in racing : ~e.manual})]

(* Started: at the start line at any time, or anywhere after the gun.      *)
Started(input, participant) ==
    \E e \in input.events :
        /\ e.participant = participant
        /\ DuringTheRace(input.gun, e.at) \/ e.checkpoint = Sole(input.course, "start")

(* Mutant: the first word on a runner stands.                              *)
FirstDeclaration(declarations, participant) ==
    LET about == {i \in DOMAIN declarations : declarations[i].participant = participant} IN
    IF about = {} THEN None ELSE declarations[CHOOSE i \in about : \A j \in about : i <= j].status

(* latest_declarations: the newest row about a runner is in force.         *)
LatestDeclaration(declarations, participant) ==
    LET about == {i \in DOMAIN declarations : declarations[i].participant = participant} IN
    IF about = {} THEN None ELSE declarations[CHOOSE i \in about : \A j \in about : j <= i].status

Minus(to, from) == IF Some(to) /\ Some(from) THEN to - from ELSE None

Flag(name, condition) == IF condition THEN {name} ELSE {}

(* ResultFlag: how a line says that a hand was used, and over a chip.      *)
ByHand == [start |-> "manual start", finish |-> "manual finish"]
OverChip == [start |-> "manual start over chip", finish |-> "manual finish over chip"]

(* Mutant: only a hand that no chip contradicts is said to be one.         *)
HandFlagsAlone(crossings, used, line) ==
    Flag(ByHand[line], Some(used) /\ used.manual /\ ~Some(crossings.countedChip))

(* manual_flags: the event used was typed, and a chip was passed over.     *)
HandFlags(crossings, used, line) ==
    Flag(ByHand[line], Some(used) /\ used.manual)
    \cup Flag(OverChip[line],
              /\ Some(used) /\ used.manual
              /\ used = crossings.counted /\ Some(crossings.countedChip))

NoCrossings == [counted |-> None, beforeGun |-> None, countedChip |-> None]

(* At the line; at the gun, if it was only crossed before; or nowhere.     *)
StartOf(atStart, gun) ==
    LET fromGun == ~Some(atStart.counted) /\ Some(atStart.beforeGun) /\ Some(gun)
        event == IF fromGun THEN atStart.beforeGun ELSE atStart.counted
    IN  [fromGun |-> fromGun, event |-> event,
         at |-> IF fromGun THEN gun ELSE IF Some(event) THEN event.at ELSE None]

(* build_entry.                                                            *)
Entry(input, participant, start, atStart, atFinish) ==
    LET finishEvent == atFinish.counted
        finishAt == IF Some(finishEvent) THEN finishEvent.at ELSE None
        gunTime == Minus(finishAt, input.gun)
        chipTime == Minus(finishAt, start.at)
        byChip == input.mode = "chip" /\ Some(chipTime)
        measured == IF byChip THEN chipTime ELSE gunTime
        impossible == Some(measured) /\ measured < 0
        declared == LatestDeclaration(input.declarations, participant)
        status == IF Some(declared) THEN declared
                  ELSE IF Some(finishAt) THEN "finished"
                  ELSE IF Started(input, participant) THEN "dnf" ELSE "dns"
    IN  [participant |-> participant, status |-> status, declared |-> Some(declared),
         startAt |-> start.at, finishAt |-> finishAt,
         time |-> IF impossible THEN None ELSE measured,
         rests |-> {e \in {start.event, finishEvent} : Some(e)},
         flags |->
            Flag("start read before gun", start.fromGun)
            \cup HandFlags(atStart, start.event, "start")
            \cup HandFlags(atFinish, finishEvent, "finish")
            \cup Flag("finish read before gun", ~Some(finishEvent) /\ Some(atFinish.beforeGun))
            \cup Flag("no start read under chip time",
                      input.mode = "chip" /\ Some(finishAt) /\ ~Some(chipTime))
            \cup Flag("no gun time", Some(finishAt) /\ ~byChip /\ ~Some(gunTime))
            \cup Flag("finish before start", impossible)
            \cup Flag("declared finished without finish read",
                      declared = "finished" /\ ~Some(finishAt))]

(* score: the line of one runner, before placement.                        *)
EntryOf(input, participant) ==
    LET line == Sole(input.course, "start")
        atStart == IF Some(line) THEN Crossings(input, participant, line) ELSE NoCrossings
    IN  Entry(input, participant, StartOf(atStart, input.gun), atStart,
              Crossings(input, participant, Sole(input.course, "finish")))
-----------------------------------------------------------------------------
(* bib_order; a bib is a number here.                                      *)
Faster(one, other) == one.time < other.time \/ (one.time = other.time /\ one.bib < other.bib)

(* Mutant: the places two runners share are not used up.                   *)
PlaceAfterDense(offset, before) == before + 1

(* The place of who is not level with the runner before: as many have been *)
(* used up as there are runners before.                                    *)
PlaceAfter(offset, before) == offset + 1

(* The place of each of them: equal times share one.                       *)
PlacesDown(placeable) ==
    LET place[i \in 0..Len(placeable)] ==
            IF i = 0 THEN 0
            ELSE IF i > 1 /\ placeable[i].time = placeable[i - 1].time THEN place[i - 1]
            ELSE PlaceAfter(i - 1, place[i - 1])
    IN  place

(* assign_places: whoever finished in a time is placed, in that order.     *)
Places(entries) ==
    LET timed == {e \in entries : IsPlaced(e.status) /\ Some(e.time)}
        placeable == InOrder(timed, Pairs(timed, Faster))
        at(e) == {i \in DOMAIN placeable : placeable[i] = e}
    IN  [e \in entries |-> IF at(e) = {} THEN None ELSE PlacesDown(placeable)[CHOOSE i \in at(e) : TRUE]]

(* sort_for_publication: the placed by place, then the others by status.   *)
Listed(one, other) ==
    LET Key(e) == <<IF Some(e.place) THEN 0 ELSE 1, IF Some(e.place) THEN e.place ELSE 0,
                    Rank(e.status), e.bib>>
    IN  \E i \in 1..4 : /\ Key(one)[i] < Key(other)[i]
                        /\ \A j \in 1..(i - 1) : Key(one)[j] = Key(other)[j]

(* The schema keeps a bib for one runner of a race.                        *)
IsRoster(roster) == IsFiniteSet(DOMAIN roster) /\ Range(roster) \subseteq Int /\ IsInjective(roster)

(* score: the sheet, in the order it is published in.                      *)
Score(input) ==
    LET entries == {Having(EntryOf(input, p), "bib", input.roster[p]) : p \in DOMAIN input.roster}
        places == Places(entries)
        lines == {Having(e, "place", places[e]) : e \in entries}
    IN  InOrder(lines, Pairs(lines, Listed))
-----------------------------------------------------------------------------
(* What a sheet must be.  A place is one more than the number of runners   *)
(* who were faster and hold one, for those who finished in a time that can *)
(* be defended, and nobody else has one; the placed come before the        *)
(* others, and in the order of their places.                               *)
PlacedByTime(sheet) ==
    LET placeable == {e \in Range(sheet) : e.status = "finished" /\ Some(e.time)} IN
    /\ \A e \in Range(sheet) : e.place =
          IF e \in placeable THEN 1 + Cardinality({f \in placeable : f.time < e.time}) ELSE None
    /\ \A i, j \in DOMAIN sheet : i < j /\ Some(sheet[j].place) =>
          Some(sheet[i].place) /\ sheet[i].place <= sheet[j].place
-----------------------------------------------------------------------------
(* What a sheet tells of a runner, if it lists them.                       *)
Told(sheet, bib) ==
    {[status |-> e.status, place |-> e.place, time |-> e.time] : e \in {f \in Range(sheet) : f.bib = bib}}

Change(was, is) ==
    LET statuses(lines) == {line.status : line \in lines} IN
    CASE was = {} -> "added"
      [] is = {} -> "removed"
      [] statuses(was) # statuses(is) -> "status"
      [] OTHER -> "placement"

(* results diff: what one revision tells otherwise than another.           *)
Diff(earlier, later) ==
    {[bib |-> bib, change |-> Change(Told(earlier, bib), Told(later, bib)),
      from |-> Told(earlier, bib), to |-> Told(later, bib)] :
        bib \in {b \in {e.bib : e \in Range(earlier) \cup Range(later)} :
                    Told(earlier, b) # Told(later, b)}}
=============================================================================
