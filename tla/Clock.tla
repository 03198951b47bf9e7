------------------------------- MODULE Clock -------------------------------
(***************************************************************************)
(* The device's two clocks, the watch kept on the one that can be moved,   *)
(* the answers of the time daemon that are stamped on reads, and what a    *)
(* result is flagged for because of either.                                *)
(*                                                                         *)
(* The machine keeps a monotonic time, now, and a wall clock that is ahead *)
(* of it by an amount anybody may change.  Every step of the model takes a *)
(* tick of the monotonic time, so now orders what really happened.         *)
(***************************************************************************)
EXTENDS TimeSource, FiniteSets

CONSTANTS
    Forward, Back,  \* by how much the wall clock can be moved at once
    Threshold,      \* STEP_THRESHOLD_MS, in ticks
    Situations,     \* what the time daemon can be like, among Known
    Readers,        \* how far the readers' own clocks are out, those that have one
    Trust,          \* TimestampTrust of the readers
    MaxOffset,      \* DEFAULT_MAX_OFFSET_MS, in ticks
    Interval,       \* SAMPLE_INTERVAL_MS, in ticks
    MaxNow,         \* ticks the model lasts for
    MaxJumps,       \* times the wall clock is moved
    MaxKills        \* times the service dies

ASSUME ClockAssumption ==
    /\ Situations \subseteq Known
    /\ Readers \subseteq Int
    /\ Trust \in {"trusted", "untrusted", "auto"}
    /\ Forward \cup Back \subseteq Nat \ {0}
    /\ \E most \in Forward \cup Back : \A by \in Forward \cup Back : by <= most
    /\ {Threshold, Interval, MaxOffset, MaxNow, MaxJumps, MaxKills} \subseteq Nat

None == [none |-> TRUE]
Some(v) == v # None

VARIABLES
    now,            \* monotonic time, and true time for what is said of it
    ahead,          \* wall clock minus now
    baseline,       \* the watch's last sample; None while the service is down
    steps,          \* clock_steps
    slot,           \* Device.clock: the last reading, if there is one
    reading,        \* the read path runs
    ends,           \* gun, start and finish: what the result is timed between
    jumps,          \* history: when the wall clock was moved
    watched,        \* history: samples it was moved between, when a write worked
    heard,          \* history: whether the daemon followed a source when last asked
    kills

clockVars == <<now, ahead, baseline, steps, slot, reading, ends, jumps, watched, heard, kills>>
-----------------------------------------------------------------------------
Wall == now + ahead

(* sample: both clocks at once.                                            *)
Sampled == [wall |-> Wall, mono |-> now]

Least(S) == CHOOSE i \in S : \A j \in S : i <= j
Greatest(S) == CHOOSE i \in S : \A j \in S : j <= i

(* Mutant: only a clock moved forward is a step.                           *)
IsForwardStep(before, after) ==
    (after.wall - before.wall) - (after.mono - before.mono) > Threshold

(* ClockStep::detect: how far the wall moved, against how far time did.    *)
IsStep(before, after) ==
    Abs((after.wall - before.wall) - (after.mono - before.mono)) > Threshold

(* clock_state_for_evidence: before the first reading, nothing is trusted. *)
StateToStamp == IF Some(slot) THEN StateForEvidence(slot) ELSE "Unsynced"
-----------------------------------------------------------------------------
TimePasses == now < MaxNow /\ now' = now + 1

ClockInit ==
    /\ now = 0 /\ ahead = 0
    /\ baseline = Sampled /\ steps = {}
    /\ slot = None /\ reading = FALSE
    /\ ends = [gun |-> None, start |-> None, finish |-> None]
    /\ jumps = {} /\ watched = {} /\ heard = "not asked" /\ kills = 0

(* NTP finds a network, an RTC is read, an operator types a date.          *)
Jump ==
    /\ TimePasses
    /\ Cardinality(jumps) < MaxJumps
    /\ \/ \E by \in Forward : ahead' = ahead + by
       \/ \E by \in Back : ahead' = ahead - by
    /\ jumps' = jumps \cup {now}
    /\ UNCHANGED <<baseline, steps, slot, reading, ends, watched, heard, kills>>

(* main: the watch takes its baseline; the daemon has not been asked yet.  *)
StartService ==
    /\ TimePasses
    /\ baseline = None
    /\ baseline' = Sampled
    /\ slot' = None
    /\ reading' = FALSE
    /\ heard' = "not asked"
    /\ UNCHANGED <<ahead, steps, ends, jumps, watched, kills>>

(* record_clock_step: the two wall readings.                               *)
Observed(before, after) == [before |-> before.wall, after |-> after.wall]

(* watch_the_clock, one tick of it, as late as it comes: a step is         *)
(* recorded, or logged when that fails, and the sample is the next         *)
(* baseline in every case.                                                 *)
SampleTheClock ==
    /\ TimePasses
    /\ Some(baseline)
    /\ now - baseline.mono >= Interval
    /\ \E written \in BOOLEAN :
        /\ steps' = steps \cup {o \in {Observed(baseline, Sampled)} :
                                   written /\ IsStep(baseline, Sampled)}
        /\ watched' = watched \cup
               {w \in {[from |-> baseline.mono, to |-> now]} :
                   /\ written
                   /\ Abs(ahead - (baseline.wall - baseline.mono)) > Threshold}
    /\ baseline' = Sampled
    /\ UNCHANGED <<ahead, slot, reading, ends, jumps, heard, kills>>

(* sample_the_time_source: asked once before the read path is started, and *)
(* from then on beside it.  A thread that fails leaves what was known.     *)
AskTheDaemon ==
    /\ TimePasses
    /\ Some(baseline)
    /\ \/ \E situation \in Situations :
            /\ slot' = ReadTracking(situation)
            /\ heard' = IF situation \in Following THEN "follows" ELSE "does not"
       \/ /\ UNCHANGED slot
          /\ heard' = IF heard = "not asked" THEN "failed" ELSE heard
    /\ reading' = TRUE
    /\ UNCHANGED <<ahead, baseline, steps, ends, jumps, watched, kills>>

(* race start records the gun by the same clock, whoever serves reads.     *)
FireTheGun ==
    /\ TimePasses
    /\ ends.gun = None
    /\ ends' = [ends EXCEPT !.gun = [at |-> Wall, real |-> now, by |-> "device"]]
    /\ UNCHANGED <<ahead, baseline, steps, slot, reading, jumps, watched, heard, kills>>

(* What a reader says of the time: nothing, its uptime, or what its own    *)
(* clock shows.                                                            *)
Said ==
    {[kind |-> "absent"], [kind |-> "uptime"]} \cup
    {[kind |-> "utc", at |-> now + out] : out \in Readers}

(* read_into_journal: a read is stamped, as it is received, with what the  *)
(* device knows of its clock.                                              *)
Received(timestamp) ==
    LET read == Normalize(timestamp, Wall, Trust, MaxOffset) IN
    IF read.source = "ReaderUtc"
    THEN [at |-> read.at, real |-> now, by |-> "reader"]
    ELSE [at |-> read.at, real |-> now, by |-> "device",
          trusted |-> IsTrustworthy(StateToStamp), heard |-> heard]

(* A crossing is read, or typed in from a watch.                           *)
Cross(line) ==
    /\ TimePasses
    /\ ends[line] = None
    /\ \/ reading /\ \E timestamp \in Said : ends' = [ends EXCEPT ![line] = Received(timestamp)]
       \/ ends' = [ends EXCEPT ![line] = [at |-> now, real |-> now, by |-> "hand"]]
    /\ UNCHANGED <<ahead, baseline, steps, slot, reading, jumps, watched, heard, kills>>

(* What was running is gone; what is in the database is not.               *)
Kill ==
    /\ TimePasses
    /\ Some(baseline) /\ kills < MaxKills
    /\ kills' = kills + 1
    /\ baseline' = None
    /\ reading' = FALSE
    /\ slot' = None
    /\ UNCHANGED <<ahead, steps, ends, jumps, watched, heard>>

ClockNext ==
    \/ Jump
    \/ StartService
    \/ SampleTheClock
    \/ AskTheDaemon
    \/ FireTheGun
    \/ Cross("start")
    \/ Cross("finish")
    \/ Kill

ClockSpec == ClockInit /\ [][ClockNext]_clockVars
-----------------------------------------------------------------------------
(* The crossings of the result's line, and the span its time is measured   *)
(* across: from the earlier of the gun and its start, by the wall.  A      *)
(* crossing of the line before the gun is no finish (score).               *)
Crossed == {line \in {"start", "finish"} : Some(ends[line])}

Since == {ends[line] : line \in {l \in {"gun", "start"} : Some(ends[l])}}

HasFinish ==
    /\ Some(ends.finish)
    /\ Some(ends.gun) => ends.finish.at >= ends.gun.at

From == CHOOSE e \in Since : \A f \in Since : e.at <= f.at

(* Mutant: the span of a step is what the clock said after it.             *)
OverlapsAfterwards(step, from, finish) == step.after <= finish /\ step.after >= from

(* flag_clock: the span a step was observed across, whichever way it went. *)
Overlaps(step, from, finish) ==
    /\ Least({step.before, step.after}) <= finish
    /\ Greatest({step.before, step.after}) >= from

(* untrusted_events: an end the device timed on a clock it did not trust.  *)
Untrusted == \E line \in Crossed : ends[line].by = "device" /\ ~ends[line].trusted

Stepped ==
    /\ HasFinish /\ Since # {}
    /\ \E step \in steps : Overlaps(step, From.at, ends.finish.at)
-----------------------------------------------------------------------------
(* Every time the wall clock was moved while the result was being timed,   *)
(* was it to be seen: by two samples further apart than the threshold,     *)
(* none of whose writes failed, with the result begun before the first and *)
(* finished after the second.                                              *)
MovedDuring == {t \in jumps : From.real < t /\ t < ends.finish.real}

Bracketed(t) ==
    \E w \in watched : /\ From.real <= w.from /\ w.from < t
                       /\ t < w.to /\ w.to <= ends.finish.real

(* A result whose two ends the device timed, and whose clock was moved     *)
(* between them by moves the watch saw, is flagged, whatever the wall said *)
(* before and after and however often it was moved: the watch knows its    *)
(* steps by wall readings only, and the flag has to find them by those     *)
(* (watch_the_clock, ClockStep::detect, flag_clock).  A clock nobody moved *)
(* flags nothing.                                                          *)
StepsAreSaid ==
    /\ (/\ HasFinish /\ Since # {}
        /\ ends.finish.by = "device" /\ From.by = "device"
        /\ From.at <= ends.finish.at
        /\ MovedDuring # {} /\ \A t \in MovedDuring : Bracketed(t))
       => Stepped
    /\ jumps = {} => ~Stepped

(* How far from the truth the device's own clock can get.                  *)
FarthestAhead == MaxJumps * Greatest(Forward \cup Back)

(* A crossing the device timed is doubted unless the daemon followed a     *)
(* source when it was last asked, in this life of the service, whatever    *)
(* chronyc made of it; none is doubted, or trusted, because nobody had     *)
(* asked yet; and no crossing has the time of a reader that is far out     *)
(* (sample_the_time_source before the read path, read_tracking,            *)
(* untrusted_events, Ingest::normalize).                                   *)
DoubtsAreSaid ==
    LET device == {line \in Crossed : ends[line].by = "device"} IN
    /\ Untrusted <=> \E line \in device : ends[line].heard # "follows"
    /\ \A line \in device : ends[line].heard # "not asked"
    /\ Trust = "auto" =>
        \A line \in Crossed : ends[line].by = "reader" =>
            Abs(ends[line].at - ends[line].real) <= MaxOffset + FarthestAhead

(* Whatever chronyc answers, or fails to, the clock is trusted only if the *)
(* daemon follows a source.  A daemon told to vouch for itself is left     *)
(* out: it says it follows one (classify, ClockTracking).                  *)
AnswersAreRead ==
    \A situation \in Known \ {"localStratum"} :
        IsTrustworthy(StateForEvidence(ReadTracking(situation))) <=> situation \in Following

FlagsTellTheClock == StepsAreSaid /\ DoubtsAreSaid /\ AnswersAreRead
============================================================================
