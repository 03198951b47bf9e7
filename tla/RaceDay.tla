------------------------------ MODULE RaceDay ------------------------------
(***************************************************************************)
(* Race day at the console: operators run commands of splitforge beside    *)
(* one another and beside the service, over one database.  A command is a  *)
(* process: it reads what it needs table by table, decides, writes, and    *)
(* then writes its row of the audit trail, each in a transaction of its    *)
(* own.  Between any two of them somebody else may commit, and a command   *)
(* may be killed.                                                          *)
(***************************************************************************)
EXTENDS Doctor

CONSTANTS
    Operators,    \* who is at a console
    ImportsAlone, \* whether only one of them at a time imports chips
    Commands,     \* what they can type: see MCRaceDay
    Setup,        \* the bibs, and when the race was to start
    Stored,       \* what is set up, and has been read, before
    Arriving,     \* the reads the service has yet to store
    Times,        \* what the wall clock can say when the gun goes
    Spaces,       \* how much the disk can have left
    Situations,   \* what the time daemon can be like
    MaxCommands,  \* bounds: on commands run
    MaxKills      \*   ... on commands killed

VARIABLES
    db,           \* the tables
    trail,        \* audit_log, in the order of seq
    console,      \* what the command at each console has come to
    commits,      \* history: what was written, by whom, in the order of the commits
    killed,       \* history: the commands that were killed
    begun         \* how many commands there have been

vars == <<db, trail, console, commits, killed, begun>>

ASSUME Bounds == {MaxCommands, MaxKills} \subseteq Nat /\ ImportsAlone \in BOOLEAN

(* What has been read before is a sequence.                                *)
ASSUME StoredReads == Stored.reads \in Seq(Range(Stored.reads))

Idle == [is |-> "idle"]

Busy(o) == console[o] # Idle

(* Mutant: the journal is opened first.                                    *)
ReadOrderEvidenceFirst ==
    <<"reads", "manual", "declared",
      "course", "roster", "chips", "antennas", "policy", "mode", "sessions">>

(* What publish derives results from, in the order it reads it: load, the  *)
(* race as configured and started, and then scoreboard, what happened.     *)
ReadOrder ==
    <<"course", "roster", "chips", "antennas", "policy", "mode", "sessions",
      "reads", "manual", "declared">>

OnlyMode(command) == ~Some(command.window) /\ ~Some(command.minLap)

(* A command is a sequence of statements, each a transaction of its own.   *)
(* A race or a reader is written as it is named.                         *)
PlainStatements(command) == <<command.is, "audit">>

(* device set: each setting is written, and has a row of the trail.      *)
DeviceStatements == <<"set floor", "audit">>

(* A start now asks the clock; one recorded afterwards, with --at, does    *)
(* not.  Both ask the disk, and only then which race is meant.             *)
StartStatements(command) ==
    IF Some(command.at) THEN <<"floor", "space", "races", "start", "audit">>
    ELSE <<"floor", "space", "clock", "races", "start", "audit">>

StopStatements == <<"races", "stop", "audit">>

(* Who is entered is looked up, and written by bib whatever was found.     *)
RosterStatements == <<"races", "roster", "import roster", "audit">>

CheckpointStatements == <<"races", "course", "add checkpoint", "audit">>
MapStatements == <<"races", "readers", "course", "map reader", "audit">>
ChipStatements == <<"races", "roster", "chips", "import chips", "audit">>

(* manual add: the checkpoint and the bib are looked up in what load finds.*)
ManualStatements == <<"races", "course", "roster", "manual add", "audit">>

(* results status looks the bib up.                                      *)
DeclareStatements == <<"races", "roster", "declare", "audit">>

(* policy set: the start mode is written before the policy is read, and    *)
(* the policy is not, if the mode was all that was asked for.              *)
PolicyStatements(command) ==
    CASE ~Some(command.mode) -> <<"races", "policy", "set policy", "audit">>
      [] Some(command.mode) /\ OnlyMode(command) -> <<"races", "set mode", "policy", "audit">>
      [] OTHER -> <<"races", "set mode", "policy", "set policy", "audit">>

(* publish: the number is taken, and the results compared, before the write.*)
RevisionStatements == <<"number", "latest", "publish">>

PublishStatements == <<"races">> \o ReadOrder \o RevisionStatements \o <<"audit">>

(* Of what an operator can type, what changes the tables.                *)
Kinds ==
    {"start", "stop", "create race", "add checkpoint", "import roster", "import chips",
     "add reader", "map reader", "policy", "publish", "declare", "set floor", "manual add"}

(* A policy command that sets nothing is refused before it reads anything. *)
ASSUME Known == \A command \in Commands :
    /\ command.is \in Kinds
    /\ command.is = "policy" => Some(command.mode) \/ ~OnlyMode(command)

(* Everybody who is entered has a bib, and nobody else has that one.       *)
ASSUME Entrants ==
    /\ IsRoster(Setup.bibs) /\ Stored.roster \subseteq DOMAIN Setup.bibs
    /\ \A command \in Commands :
            command.is = "import roster" => command.file \subseteq DOMAIN Setup.bibs

(* The disk is measured in numbers, and the checkpoints can be counted.    *)
ASSUME Measures ==
    /\ Spaces \cup {Stored.floor} \subseteq Nat /\ None \notin Spaces
    /\ \A command \in Commands : command.is = "set floor" => command.to \in Nat
    /\ IsFiniteSet(DOMAIN Stored.course)

Script(command) ==
    CASE command.is = "start" -> StartStatements(command)
      [] command.is = "stop" -> StopStatements
      [] command.is = "import roster" -> RosterStatements
      [] command.is = "add checkpoint" -> CheckpointStatements
      [] command.is = "map reader" -> MapStatements
      [] command.is = "import chips" -> ChipStatements
      [] command.is = "manual add" -> ManualStatements
      [] command.is = "declare" -> DeclareStatements
      [] command.is = "policy" -> PolicyStatements(command)
      [] command.is = "publish" -> PublishStatements
      [] command.is = "set floor" -> DeviceStatements
      [] command.is \in {"create race", "add reader"} -> PlainStatements(command)

Due(o) == Script(console[o].command)[console[o].step]

Looks ==
    Range(ReadOrder) \cup {"races", "readers", "floor", "space", "clock", "number", "latest"}
-----------------------------------------------------------------------------
(* gun_time: the most recent start, or else the scheduled one.             *)
GunIn(sessions) ==
    LET starts == SelectSeq(sessions, LAMBDA s : s.action = "start") IN
    IF starts = <<>> THEN Setup.scheduled ELSE Last(starts).at

(* scoreboard: the results of what was found.                              *)
Scoreboard(seen) ==
    LET gun == GunIn(seen.sessions)
        derived == Derive([reads |-> seen.reads, policy |-> seen.policy, chips |-> seen.chips,
                           antennas |-> seen.antennas, manual |-> seen.manual, gun |-> gun])
    IN  Score([events |-> Range(derived.events),
               roster |-> [p \in seen.roster |-> Setup.bibs[p]], course |-> seen.course,
               mode |-> seen.mode, declarations |-> seen.declared, gun |-> gun,
               handsFirst |-> FALSE])

(* ... as far as its digest covers them.                                   *)
Digest(scored) ==
    [i \in DOMAIN scored |-> [bib |-> scored[i].bib, status |-> scored[i].status,
                              time |-> scored[i].time, place |-> scored[i].place]]

Sheet(seen) == Digest(Scoreboard(seen))

(* import_assignments: keyed on the chip and the start of its window.      *)
Import(chips, file) ==
    {w \in chips : \A v \in Range(file) : <<v.chip, v.from>> # <<w.chip, w.from>>} \cup Range(file)

(* Mutant: the file is checked alone, and not with what is stored.         *)
OverlappingAlone(chips, file) == ~Registry(file)

(* chips import: the stored rows and the file's, together.                 *)
Overlapping(chips, file) == ~Registry(SetToSeq(chips) \o file)

(* next_revision_number: MAX(number) + 1.                                  *)
NextNumber(revisions) == 1 + Max({0} \cup {r.number : r \in Range(revisions)})

(* latest_revision, as far as publish compares it.                         *)
LatestSheet(revisions) ==
    LET latest == {r \in Range(revisions) : \A s \in Range(revisions) : s.number <= r.number} IN
    IF latest = {} THEN None ELSE (CHOOSE r \in latest : TRUE).sheet

(* A query finds what is committed.                                        *)
Query(table) == {db[table]}

(* What a command can find when it looks: the disk has what it has left,   *)
(* and the time daemon may say anything, or nothing.                       *)
Findings(what) ==
    CASE what = "space" -> Spaces
      [] what = "clock" -> {Daemon!ReadTracking(s) : s \in Situations}
      [] what = "number" -> {NextNumber(db.revisions)}
      [] what = "latest" -> {LatestSheet(db.revisions)}
      [] OTHER -> Query(what)

(* check_free_space: the gate before a start.                              *)
TooLittleSpace(command, space, floor) == ~IsAbove(space, floor) /\ ~command.forced

(* check_start: only a measurement that says so, not the lack of one.      *)
ClockIsBad(command, clock) == Daemon!RefusesStart(clock, command.forced)

(* resolve_race: with one race, it need not be named.                      *)
WhichRace(races) == Cardinality(races) # 1

(* A reader nobody added.                                                  *)
NoSuchReader(command, readers) == command.reader \notin readers

(* A bib nobody on the roster has.                                         *)
NotEntered(command, roster) == ~(command.bibs \subseteq roster)

(* A checkpoint to add that is there, or one to map or enter that is not.*)
WrongName(command, course) ==
    (command.checkpoint \in DOMAIN course) = (command.is = "add checkpoint")

(* scoreboard fails on chips that overlap and on a course without a finish.*)
CannotBeScored(seen) == ~Registry(SetToSeq(seen.chips)) \/ Unscorable(seen.course, seen.mode)

(* publish: the results are those of the latest revision.                  *)
NothingNew(command, latest, seen) == latest = Sheet(seen) /\ ~command.allowUnchanged

(* What makes a command give up, having found it.                          *)
GivesUp(command, what, found, seen) ==
    CASE what = "space" -> TooLittleSpace(command, found, seen.floor)
      [] what = "clock" -> ClockIsBad(command, found)
      [] what = "races" -> WhichRace(found)
      [] what = "readers" -> NoSuchReader(command, found)
      [] what = "roster" /\ command.is \notin {"publish", "import roster"} -> NotEntered(command, found)
      [] what = "course" /\ command.is # "publish" -> WrongName(command, found)
      [] what = "chips" /\ command.is = "import chips" -> Overlapping(found, command.file)
      [] what = "number" -> CannotBeScored(seen)
      [] what = "latest" -> NothingNew(command, found, seen)
      [] OTHER -> FALSE
-----------------------------------------------------------------------------
Init ==
    /\ db = [races |-> Stored.races, readers |-> Stored.readers, course |-> Stored.course,
             roster |-> Stored.roster, antennas |-> Stored.antennas, chips |-> Stored.chips,
             policy |-> Stored.policy, mode |-> Stored.mode, floor |-> Stored.floor,
             sessions |-> <<>>, reads |-> Stored.reads, manual |-> <<>>, declared |-> <<>>,
             revisions |-> <<>>]
    /\ trail = <<>> /\ commits = <<>> /\ killed = {}
    /\ console = [o \in Operators |-> Idle]
    /\ begun = 0

(* A command is typed.                                                     *)
Begin(o) ==
    /\ ~Busy(o) /\ begun < MaxCommands
    /\ \E command \in Commands :
        /\ ImportsAlone /\ command.is = "import chips" =>
                \A p \in Operators : Busy(p) => console[p].command.is # "import chips"
        /\ console' = [console EXCEPT ![o] =
              [id |-> begun + 1, command |-> command, step |-> 1, seen |-> <<>>,
               asOf |-> <<>>, said |-> None]]
    /\ begun' = begun + 1
    /\ UNCHANGED <<db, trail, commits, killed>>

(* It reads one table, or asks the device, and goes on.                    *)
Look(o) ==
    /\ Busy(o) /\ Due(o) \in Looks
    /\ LET what == Due(o) IN \E found \in Findings(what) :
        /\ ~GivesUp(console[o].command, what, found, console[o].seen)
        /\ console' = [console EXCEPT ![o].step = @ + 1,
                                      ![o].seen = Having(@, what, found),
                                      ![o].asOf = Having(@, what, Len(commits))]
    /\ UNCHANGED <<db, trail, commits, killed, begun>>

(* ... or it ends with an error, having changed nothing more.              *)
GiveUp(o) ==
    /\ Busy(o) /\ Due(o) \in Looks
    /\ \E found \in Findings(Due(o)) :
            GivesUp(console[o].command, Due(o), found, console[o].seen)
    /\ console' = [console EXCEPT ![o] = Idle]
    /\ UNCHANGED <<db, trail, commits, killed, begun>>

(* Mutant: nothing keeps two revisions from one number.                    *)
ClashesByName(o) ==
    \/ Due(o) = "create race" /\ console[o].command.race \in db.races
    \/ Due(o) = "add checkpoint" /\ console[o].command.checkpoint \in DOMAIN db.course

(* UNIQUE (race_id, number), (race_id, name) and (event_id, name).         *)
Clashes(o) ==
    \/ Due(o) = "create race" /\ console[o].command.race \in db.races
    \/ Due(o) = "publish" /\ \E r \in Range(db.revisions) : r.number = console[o].seen.number
    \/ Due(o) = "add checkpoint" /\ console[o].command.checkpoint \in DOMAIN db.course

(* A statement commits; what the trail will say is what was written.       *)
Commit(o, table, row, stored) ==
    /\ db' = [db EXCEPT ![table] = stored]
    /\ commits' = Append(commits, [table |-> table, by |-> console[o].id, row |-> row])
    /\ console' = [console EXCEPT ![o].step = @ + 1, ![o].said = row]
    /\ UNCHANGED <<trail, killed, begun>>

Insert(o, table, row) == Commit(o, table, row, Append(db[table], row))

(* race create, in the one event there is.                                 *)
CreateRace(o) ==
    /\ Busy(o) /\ Due(o) = "create race" /\ ~Clashes(o)
    /\ LET race == console[o].command.race IN Commit(o, "races", race, db.races \cup {race})

(* reader add: one that is there is changed, and stays what it is here.    *)
AddReader(o) ==
    /\ Busy(o) /\ Due(o) = "add reader"
    /\ LET reader == console[o].command.reader
       IN  Commit(o, "readers", reader, db.readers \cup {reader})

(* race start, race stop: the gun is now, or when --at says.               *)
RecordSession(o) ==
    /\ Busy(o) /\ Due(o) \in {"start", "stop"}
    /\ \E at \in IF Some(console[o].command.at) THEN {console[o].command.at} ELSE Times :
        Insert(o, "sessions", [action |-> Due(o), at |-> at])

(* roster import: by bib, so whoever is entered stays who they are.        *)
ImportRoster(o) ==
    /\ Busy(o) /\ Due(o) = "import roster"
    /\ LET file == console[o].command.file IN Commit(o, "roster", file, db.roster \cup file)

(* checkpoint add.                                                         *)
AddCheckpoint(o) ==
    /\ Busy(o) /\ Due(o) = "add checkpoint" /\ ~Clashes(o)
    /\ LET name == console[o].command.checkpoint
           kind == console[o].command.kind
       IN  Commit(o, "course", [checkpoint |-> name, kind |-> kind], Having(db.course, name, kind))

(* reader map: map_antenna takes the line out that it replaces.            *)
MapReader(o) ==
    /\ Busy(o) /\ Due(o) = "map reader"
    /\ LET row == [reader |-> console[o].command.reader, antenna |-> console[o].command.antenna,
                   checkpoint |-> console[o].command.checkpoint]
           others == {m \in db.antennas : m.reader # row.reader \/ m.antenna # row.antenna}
       IN  Commit(o, "antennas", row, others \cup {row})

(* chips import.                                                           *)
ImportChips(o) ==
    /\ Busy(o) /\ Due(o) = "import chips"
    /\ LET file == console[o].command.file IN Commit(o, "chips", file, Import(db.chips, file))

(* policy set: the mode is a column of its own.                            *)
SetMode(o) ==
    /\ Busy(o) /\ Due(o) = "set mode"
    /\ LET mode == console[o].command.mode IN Commit(o, "mode", mode, mode)

Changed(policy, command) ==
    [policy EXCEPT !.window = IF Some(command.window) THEN command.window ELSE @,
                   !.minLap = IF Some(command.minLap) THEN command.minLap ELSE @]

(* ... and the rest is rewritten as it was read, with what was asked for.  *)
SetPolicy(o) ==
    /\ Busy(o) /\ Due(o) = "set policy"
    /\ LET policy == Changed(console[o].seen.policy, console[o].command)
       IN  Commit(o, "policy", policy, policy)

(* device set.                                                             *)
SetFloor(o) ==
    /\ Busy(o) /\ Due(o) = "set floor"
    /\ LET floor == console[o].command.to IN Commit(o, "floor", floor, floor)

(* manual add: record_manual_entry.                                        *)
AddManual(o) ==
    /\ Busy(o) /\ Due(o) = "manual add"
    /\ Insert(o, "manual", Having(console[o].command.row, "seq", Len(db.manual) + 1))

(* results status: declare_status.                                         *)
Declare(o) ==
    /\ Busy(o) /\ Due(o) = "declare"
    /\ Insert(o, "declared", Having(console[o].command.row, "seq", Len(db.declared) + 1))

(* results publish: a revision is inserted whole, or not at all.           *)
Publish(o) ==
    /\ Busy(o) /\ Due(o) = "publish" /\ ~Clashes(o)
    /\ Insert(o, "revisions",
              [number |-> console[o].seen.number, sheet |-> Sheet(console[o].seen),
               allowUnchanged |-> console[o].command.allowUnchanged,
               asOf |-> console[o].asOf])

(* Another command took the number, or the name, after this one looked.    *)
Conflict(o) ==
    /\ Busy(o) /\ Due(o) \in {"publish", "add checkpoint", "create race"} /\ Clashes(o)
    /\ console' = [console EXCEPT ![o] = Idle]
    /\ UNCHANGED <<db, trail, commits, killed, begun>>

(* Mutant: the policy of the trail is the one that was there before.       *)
AuditAsRead(o) ==
    /\ Busy(o) /\ Due(o) = "audit"
    /\ trail' = Append(trail, [by |-> console[o].id, action |-> console[o].command.is,
                               detail |-> IF console[o].command.is = "policy"
                                          THEN console[o].seen.policy
                                          ELSE console[o].said])
    /\ console' = [console EXCEPT ![o] = Idle]
    /\ UNCHANGED <<db, commits, killed, begun>>

(* record_audit, the last thing a command does.                            *)
Audit(o) ==
    /\ Busy(o) /\ Due(o) = "audit"
    /\ trail' = Append(trail, [by |-> console[o].id, action |-> console[o].command.is,
                               detail |-> IF console[o].command.is = "policy"
                                          THEN Changed(console[o].seen.policy, console[o].command)
                                          ELSE console[o].said])
    /\ console' = [console EXCEPT ![o] = Idle]
    /\ UNCHANGED <<db, commits, killed, begun>>

(* The terminal is closed, or the device loses power.                      *)
Kill(o) ==
    /\ Busy(o) /\ Cardinality(killed) < MaxKills
    /\ killed' = killed \cup {console[o].id}
    /\ console' = [console EXCEPT ![o] = Idle]
    /\ UNCHANGED <<db, trail, commits, begun>>

(* The service stores the next read.                                       *)
ReadArrives ==
    /\ \E reading \in Arriving :
       LET read == Having(reading, "seq", Len(db.reads) + 1) IN
        /\ \A stored \in Range(db.reads) : stored.at # read.at
        /\ db' = [db EXCEPT !.reads = Append(@, read)]
        /\ commits' = Append(commits, [table |-> "reads", by |-> 0, row |-> read])
    /\ UNCHANGED <<trail, console, killed, begun>>

Next ==
    \/ \E o \in Operators :
        \/ Begin(o) \/ Look(o) \/ GiveUp(o) \/ Audit(o) \/ Kill(o)
        \/ RecordSession(o) \/ ImportChips(o) \/ SetMode(o) \/ SetPolicy(o) \/ SetFloor(o)
        \/ ImportRoster(o) \/ AddCheckpoint(o) \/ MapReader(o) \/ AddManual(o) \/ Declare(o)
        \/ CreateRace(o) \/ AddReader(o)
        \/ Publish(o) \/ Conflict(o)
    \/ ReadArrives

Spec == Init /\ [][Next]_vars
-----------------------------------------------------------------------------
(***************************************************************************)
(* What must hold.                                                         *)
(***************************************************************************)

(* A race has one history of results, however many publish it at once: the *)
(* revisions are 1, 2, 3, ..., published in that order, and each says      *)
(* something else than the one before it unless it was allowed not to, so  *)
(* that the diff of the two names somebody.                                *)
RevisionsAreOneHistory ==
    \A i \in DOMAIN db.revisions :
        LET revision == db.revisions[i] IN
        /\ revision.number = i
        /\ i > 1 /\ ~revision.allowUnchanged => Diff(db.revisions[i - 1].sheet, revision.sheet) # {}

KnownOf(revision, table) ==
    {k \in 1..revision.asOf[table] : commits[k].table = table}

Rules == {"course", "roster", "chips", "antennas", "policy", "mode", "sessions"}
Evidence == {"reads", "manual", "declared"}

(* A revision never applies a rule, a chip or a gun to less than what was  *)
(* in evidence when it was made: whatever read, entry or declaration was   *)
(* committed before the last change of the configuration it knows of, it   *)
(* knows of too.                                                           *)
RulesMeetTheirEvidence ==
    \A i \in DOMAIN db.revisions : \A rule \in Rules, table \in Evidence :
        LET revision == db.revisions[i] IN
        \A k \in KnownOf(revision, rule) : \A m \in 1..k :
            commits[m].table = table => m \in KnownOf(revision, table)

(* While one operator imports the chips, no instant finds one on two       *)
(* runners: nothing the others do between the check and the write, and no  *)
(* kill, leaves chips with which the race cannot be scored.  Every window  *)
(* of the commands ends after it begins: the check compares neighbours.    *)
OneRunnerPerChip ==
    \A v, w \in db.chips : v.chip = w.chip /\ v # w => ~Overlaps(v, w)

Running == {console[o].id : o \in {p \in Operators : Busy(p)}}

(* The trail tells of every command that changed something, once, and of   *)
(* no other, but for those still running and those killed; the evidence it *)
(* tells of is what is stored, and so is, when all have ended and none was *)
(* killed, the policy and the floor.                                       *)
TrailTellsTheRace ==
    LET by(id) == {i \in DOMAIN trail : trail[i].by = id}
        wrote(id) == {k \in DOMAIN commits : commits[k].by = id}
        told(values) == {trail[i].detail : i \in {j \in DOMAIN trail : trail[j].action \in values}}
    IN  /\ \A id \in 1..begun :
            /\ Cardinality(by(id)) <= 1
            /\ wrote(id) = {} => by(id) = {}
            /\ wrote(id) # {} /\ id \notin Running \cup killed => by(id) # {}
        /\ told({"start", "stop"}) \subseteq Range(db.sessions)
        /\ told({"manual add"}) \subseteq Range(db.manual)
        /\ told({"declare"}) \subseteq Range(db.declared)
        /\ told({"publish"}) \subseteq Range(db.revisions)
        /\ Running = {} /\ killed = {} =>
            /\ db.floor \in told({"set floor"}) \cup {Stored.floor}
            /\ db.policy \in told({"policy"}) \cup {Stored.policy}

(* What doctor clears goes well: where it finds no error, a race with a    *)
(* finish can be scored and no read that has come is turned away as        *)
(* unmapped; and the gates of a start refuse nothing doctor has not told   *)
(* of, whatever is left on the disk and whatever the time daemon says.     *)
(* /health, which says a start will refuse for space, is right each time.  *)
DoctorVouches ==
    LET start == [is |-> "start", at |-> None, forced |-> FALSE]
        vouched == Errors(TableFindings(db, GunIn(db.sessions))) = {}
    IN  /\ vouched =>
            /\ OfKind(db.course, "finish") # {} => ~CannotBeScored(db)
            /\ \A read \in Range(db.reads) : Some(Resolve(db.antennas, read))
        /\ \A space \in Spaces :
                /\ TooLittleSpace(start, space, db.floor) => Errors(SpaceFindings(space, db.floor)) # {}
                /\ (Api!SpaceReasons(space, db.floor) # {}) = TooLittleSpace(start, space, db.floor)
        /\ \A situation \in Situations :
                LET reading == Daemon!ReadTracking(situation) IN
                ClockIsBad(start, reading) => ClockFindings(reading) # {}

(* What doctor says it checks before the race: that it can be scored.      *)
DoctorChecksScoring ==
    \A space \in Spaces, situation \in Situations :
        LET said == Diagnosis(db, GunIn(db.sessions), space, Daemon!ReadTracking(situation)) IN
        Errors(said) = {} /\ Warning("config.checkpoints") \notin said => ~CannotBeScored(db)

(* What config.rs says of an import: handing a chip to somebody else for   *)
(* the window it had is an update, and the same file again changes         *)
(* nothing.  A file is refused only if the chips it would leave overlap.   *)
ReimportIsAnUpdate ==
    \A o \in Operators :
        Busy(o) /\ Due(o) = "chips" /\ console[o].command.is = "import chips" =>
            LET file == console[o].command.file IN
            Overlapping(db.chips, file) => ~Registry(SetToSeq(Import(db.chips, file)))
=============================================================================
