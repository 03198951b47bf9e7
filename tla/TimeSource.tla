----------------------------- MODULE TimeSource -----------------------------
(***************************************************************************)
(* What the service makes of the time daemon.  chronyc is run and given    *)
(* ten seconds; what it prints is parsed by position, checked for values   *)
(* that cannot be, and turned into a reading; the reading says what to     *)
(* stamp on a read.  And what it makes of a reader's own time.             *)
(***************************************************************************)
EXTENDS Integers

Abs(i) == IF i < 0 THEN -i ELSE i

(* LeapStatus: the last column of a tracking line.                         *)
LeapStatus == {"Normal", "InsertSecond", "DeleteSecond", "NotSynchronised"}

IsSynchronized(leap) == leap # "NotSynchronised"
LeapPending(leap) == leap \in {"InsertSecond", "DeleteSecond"}

(* A tracking line whose columns are what they are read as.  The name is a *)
(* driver's, an address or empty; signs says that nothing is negative that *)
(* cannot be.                                                              *)
Line(reference_id, name, stratum, leap) ==
    [is |-> "line", reference_id |-> reference_id, reference_name |-> name,
     stratum |-> stratum, leap |-> leap, signs |-> TRUE]

(* What the daemon can be like, and what chronyc then does: it may never   *)
(* end, and what it prints may be a line, a complaint or nothing.          *)
Ends(succeeded, said) == [is |-> "ends", succeeded |-> succeeded, said |-> said]
Complaint == [is |-> "complaint"]

Chronyc ==
    [gps           |-> Ends(TRUE, Line(1, "PPS", 1, "Normal")),
     network       |-> Ends(TRUE, Line(2, "address", 3, "Normal")),
     leapAhead     |-> Ends(TRUE, Line(2, "address", 3, "InsertSecond")),
     lostIt        |-> Ends(TRUE, Line(1, "PPS", 1, "NotSynchronised")),
     neverHadOne   |-> Ends(TRUE, Line(0, "", 0, "NotSynchronised")),
     columnsMoved  |-> Ends(TRUE, Line(2, "address", 143, "Normal")),
     columnsSwapped |-> Ends(TRUE, [Line(2, "address", 3, "Normal") EXCEPT !.signs = FALSE]),
     cutShort      |-> Ends(TRUE, [is |-> "too few fields"]),
     isDown        |-> Ends(FALSE, Complaint),
     isDownPolitely |-> Ends(TRUE, Complaint),
     neverReplies  |-> Ends(FALSE, [is |-> "nothing"]),
     isWedged      |-> [is |-> "never ends"],
     notInstalled  |-> [is |-> "not found"],
     mayNotBeRun   |-> [is |-> "cannot be run"],
     localStratum  |-> Ends(TRUE, Line(3, "", 1, "Normal"))]

Known == DOMAIN Chronyc

(* The daemons that follow a source.                                       *)
Following == {"gps", "network", "leapAhead"}

IsLocalReference(line) == line.reference_name \notin {"", "address"}
IsGpsReference(line) ==
    IsLocalReference(line) /\ line.reference_name \in {"PPS", "GPS", "NMEA", "GPSD", "SHM", "SOCK"}

(* Mutant: a reference with a name is believed before the leap status is   *)
(* looked at.                                                              *)
DeviceClockStateByName(line) ==
    CASE IsGpsReference(line) -> "GpsLocked"
      [] ~IsSynchronized(line.leap) \/ line.stratum = 0 \/ line.reference_id = 0 -> "Unsynced"
      [] OTHER -> "NtpSynced"

(* ClockTracking::device_clock_state: the reference is looked at last, for *)
(* a daemon that lost its source can still name it.                        *)
DeviceClockState(line) ==
    CASE ~IsSynchronized(line.leap) \/ line.stratum = 0 \/ line.reference_id = 0 -> "Unsynced"
      [] OTHER -> IF IsGpsReference(line) THEN "GpsLocked" ELSE "NtpSynced"

IsTrustworthy(state) == state \in {"GpsLocked", "Rtc", "NtpSynced"}

(* Mutant: whatever parses is believed.                                    *)
LooksPlausibleAlways(line) == line.is = "line"

(* looks_plausible: parsing by position cannot tell that a column moved.   *)
LooksPlausible(line) == line.stratum <= 16 /\ line.signs

(* parse_chrony_tracking: too few fields, and fields that are not numbers, *)
(* are errors; the first non-empty line is the answer.                     *)
Parses(said) == said.is = "line"

(* classify.                                                               *)
Classify(succeeded, said) ==
    CASE ~succeeded \/ said = Complaint -> [is |-> "DaemonUnreachable"]
      [] succeeded /\ Parses(said) ->
            IF LooksPlausible(said) THEN [is |-> "Tracking", line |-> said]
                                    ELSE [is |-> "Unreadable"]
      [] OTHER -> [is |-> "Unreadable"]

(* run_bounded: what has not ended by the deadline is killed.              *)
RunBounded(outcome) == IF outcome.is = "never ends" THEN [is |-> "killed"] ELSE outcome

(* read_tracking: an answer in every case.                                 *)
ReadTracking(situation) ==
    LET ran == RunBounded(Chronyc[situation]) IN
    CASE ran.is = "ends" -> Classify(ran.succeeded, ran.said)
      [] ran.is = "killed" -> [is |-> "DaemonUnreachable"]
      [] ran.is = "not found" -> [is |-> "NoDaemonTool"]
      [] ran.is = "cannot be run" -> [is |-> "Unreadable"]

(* Mutant: what is not measured is taken for a clock somebody set.         *)
StateForEvidenceOnTrust(reading) ==
    IF reading.is = "Tracking" THEN DeviceClockState(reading.line) ELSE "Rtc"

(* state_for_evidence: what is not measured is not trusted.                *)
StateForEvidence(reading) ==
    IF reading.is = "Tracking" THEN DeviceClockState(reading.line) ELSE "Unsynced"

(* check_start: a start is refused for a measurement that says so, and for *)
(* no lack of one.                                                         *)
RefusesStart(reading, force) ==
    /\ reading.is = "Tracking" /\ ~IsTrustworthy(DeviceClockState(reading.line))
    /\ ~force
-----------------------------------------------------------------------------
(* Mutant: an offset is how far the reader is behind.                      *)
WithinSigned(offset, max_offset) == offset <= max_offset

(* TimestampTrust::Auto: it catches a clock that is categorically wrong,   *)
(* in either direction.                                                    *)
Within(offset, max_offset) == Abs(offset) <= max_offset

(* Ingest::normalize: whose time a read has, and why.  A time since boot   *)
(* is no date, and the receipt stands in for whatever is not believed.     *)
Normalize(timestamp, received_at, trust, max_offset) ==
    LET receipt(reason) ==
            [at |-> received_at, source |-> "DeviceReceipt", reason |-> reason]
    IN  CASE timestamp.kind = "absent" -> receipt("NoReaderTimestamp")
          [] timestamp.kind = "uptime" -> receipt("ReaderUptimeOnly")
          [] timestamp.kind = "utc" ->
                CASE trust = "untrusted" -> receipt("ReaderUntrusted")
                  [] trust = "auto" /\ ~Within(received_at - timestamp.at, max_offset) ->
                        receipt("OffsetExceededThreshold")
                  [] OTHER -> [at |-> timestamp.at, source |-> "ReaderUtc"]
=============================================================================
