------------------------------- MODULE Doctor -------------------------------
(***************************************************************************)
(* What doctor says of a device before a race: errors, which will lose     *)
(* data or make wrong results, and warnings, which the operator should     *)
(* know of before the gun.  It only reads.                                 *)
(***************************************************************************)
EXTENDS Scoring

Daemon == INSTANCE TimeSource
Api == INSTANCE Health

Error(check) == [severity |-> "error", check |-> check]
Warning(check) == [severity |-> "warning", check |-> check]

Say(finding, condition) == IF condition THEN {finding} ELSE {}

IsAbove(space, floor) == space >= floor

(* storage.free_space: half as much again as the floor is near it, and a   *)
(* disk that cannot be measured is only worth a warning.                   *)
SpaceFindings(space, floor) ==
    Say(Error("storage.free_space"), Some(space) /\ ~IsAbove(space, floor))
    \cup Say(Warning("storage.free_space"),
             Some(space) => IsAbove(space, floor) /\ space < (floor * 3) \div 2)

(* JournalSummary: where the numbers skip, and whom the reads came from.   *)
SequenceGaps(reads) == {i \in 2..Len(reads) : reads[i].seq # reads[i - 1].seq + 1}
SourcesIn(reads) == {[reader |-> r.reader, antenna |-> r.antenna] : r \in Range(reads)}

(* journal.sequence.                                                       *)
SequenceFindings(reads) ==
    Say(Warning("journal.sequence"), reads # <<>> /\ Head(reads).seq # 1)
    \cup Say(Error("journal.sequence"), SequenceGaps(reads) # {})

(* config.checkpoints, scoring.finish, scoring.start.                      *)
CourseFindings(course, mode) ==
    LET count(kind) == Cardinality(OfKind(course, kind)) IN
    Say(Error("config.checkpoints"), DOMAIN course = {})
    \cup Say(Warning("config.checkpoints"), DOMAIN course # {} /\ count("finish") + count("lap") = 0)
    \cup Say(Error("scoring.finish"), count("finish") > 1)
    \cup Say(Error("scoring.start"), count("start") > 1 \/ (mode = "chip" /\ count("start") = 0))

(* config.roster, config.chips.                                            *)
EntryFindings(roster, chips) ==
    Say(Warning("config.roster"), roster = {})
    \cup Say(Error("config.chips"), ~Registry(SetToSeq(chips)))
    \cup Say(Warning("config.chips"), ~(roster \subseteq {w.participant : w \in chips}))

(* Mutant: a reader that is mapped for one antenna is mapped.              *)
ReaderFindingsByName(antennas, reads) ==
    Say(Error("config.readers"),
        antennas = {} \/ \E source \in SourcesIn(reads) : \A m \in antennas : m.reader # source.reader)

(* config.readers: reads that came, and are mapped to no line.             *)
ReaderFindings(antennas, reads) ==
    Say(Error("config.readers"),
        antennas = {} \/ \E source \in SourcesIn(reads) : ~Some(Resolve(antennas, source)))

(* scoring.gun, config.gun_time.                                           *)
GunFindings(mode, gun) ==
    Say(Warning("scoring.gun"), mode = "gun" /\ ~Some(gun))
    \cup Say(Warning("config.gun_time"), ~Some(gun))

(* findings_for: a clock that is not to be trusted, a daemon that does not *)
(* answer, a leap second to come; and nothing where there is no daemon.    *)
ClockFindings(reading) ==
    Say(Warning("clock.source"),
        CASE reading.is = "Tracking" ->
                \/ ~Daemon!IsTrustworthy(Daemon!DeviceClockState(reading.line))
                \/ Daemon!LeapPending(reading.line.leap)
          [] reading.is \in {"DaemonUnreachable", "Unreadable"} -> TRUE
          [] OTHER -> FALSE)

(* What it says of the tables, whatever the disk and the clock are.        *)
TableFindings(tables, gun) ==
    SequenceFindings(tables.reads)
    \cup CourseFindings(tables.course, tables.mode)
    \cup EntryFindings(tables.roster, tables.chips)
    \cup ReaderFindings(tables.antennas, tables.reads)
    \cup GunFindings(tables.mode, gun)

(* doctor.                                                                 *)
Diagnosis(tables, gun, space, reading) ==
    SpaceFindings(space, tables.floor) \cup TableFindings(tables, gun) \cup ClockFindings(reading)

Errors(findings) == {f \in findings : f.severity = "error"}
=============================================================================
