----------------------------- MODULE ReaderGaps -----------------------------
(***************************************************************************)
(* How splitforge-edge records that a reader went away and came back.      *)
(*                                                                         *)
(* Three threads share the reader's status and the journal's handle, each  *)
(* under a lock of its own that is never held together with the other.     *)
(* The provider reads the port and sends events through a bounded channel. *)
(* The read thread takes them: a connection and its loss are written as    *)
(* the edges of a gap, a read is stored, retried until it lands.  The      *)
(* watchdog looks every ten seconds: it copies the status, lets go of it,  *)
(* and then decides and writes under the other lock.  It infers, from      *)
(* quiet, what the transport did not say.                                  *)
(*                                                                         *)
(* Time is two flags.  An instant is "fresh" until the threshold it is     *)
(* compared with has passed, and "old" after.                              *)
(***************************************************************************)
EXTENDS Naturals, Sequences

Api == INSTANCE Health

CONSTANTS
    Capacity,         \* bound on the channel between provider and read thread
    Disturbances,     \* which of the disturbances below can happen
    MaxDisturbances   \* how many of them, in all

(* overlap: a tick of the watchdog and the recording of a connection run   *)
(* side by side.  late: a tick waits for the journal past a threshold.     *)
(* failure: a row cannot be written.  restart: the process ends and is *)
(* started again.  raised: an operator raises a threshold, and what was    *)
(* silence for too long is so no more.                                     *)
AllDisturbances == {"overlap", "late", "failure", "restart", "raised"}

ASSUME CapacityAndBounds ==
    /\ Capacity \in Nat \ {0}
    /\ Disturbances \subseteq AllDisturbances
    /\ MaxDisturbances \in Nat

Events == {"connected", "disconnected", "read", "alive"}

VARIABLES
    port,         \* what the provider holds
    channel,      \* the events sent and not yet taken
    status,       \* ReaderStatus, behind the reader's lock
    hand,         \* what the read thread is in the middle of
    look,         \* where a tick of the watchdog is, and what it copied
    gap,          \* whether a gap is open, and who wrote its latest edge
    config,       \* the checks an operator has in force
    excuse,       \* why the open gap might be closed, as the threads know it
    missed,       \* whether the latest edge could not be written
    beside,       \* whether the latest connection or loss was recorded beside a tick
    disturbances  \* how many disturbances there have been

vars == <<port, channel, status, hand, look, gap, config, excuse, missed, beside, disturbances>>

provider == <<port, channel>>
evidence == <<gap, excuse, missed, beside>>

Detectors == {"transport", "silence", "heartbeat"}
Instants == {"never", "fresh", "old"}

Statuses == [watching : BOOLEAN, transportDown : BOOLEAN, lastMessage : Instants,
             lastHeard : Instants, heartbeatGap : BOOLEAN, fault : BOOLEAN]

NoReader == [watching |-> FALSE, transportDown |-> FALSE, lastMessage |-> "never",
             lastHeard |-> "never", heartbeatGap |-> FALSE, fault |-> FALSE]

(* since: what has been taken since the tick copied the status, a read or  *)
(* connection, or only something else.                                     *)
Looks == [at : {"away", "heartbeat", "flag", "silence"}, opened : BOOLEAN,
          since : {"nothing", "other", "return"}, lastMessage : Instants, lastHeard : Instants, heartbeatGap : BOOLEAN]

Away == [at |-> "away", opened |-> FALSE, since |-> "nothing", lastMessage |-> "never",
         lastHeard |-> "never", heartbeatGap |-> FALSE]

(* silence: a race is running and its threshold is not zero.  heartbeat:   *)
(* its threshold is not zero.                                              *)
Configs == [silence : BOOLEAN, heartbeat : BOOLEAN]

(* reader_gap_events: an opened edge with no closed one is the open gap,   *)
(* and by is who wrote the latest edge.                                    *)
Gaps == [open : BOOLEAN, by : Detectors]

TypeOK ==
    /\ port \in {"closed", "opening", "open"}
    /\ channel \in Seq(Events) /\ Len(channel) <= Capacity
    /\ status \in Statuses
    /\ hand \in {"nothing", "read", "connected", "disconnected"}
    /\ look \in Looks
    /\ gap \in Gaps
    /\ config \in Configs
    /\ excuse \in {"nothing", "other", "return"}
    /\ {missed, beside} \subseteq BOOLEAN
    /\ disturbances \in 0..MaxDisturbances

Init ==
    /\ port = "closed"
    /\ channel = <<>>
    /\ status = NoReader
    /\ hand = "nothing"
    /\ look = Away
    /\ gap = [open |-> FALSE, by |-> "transport"]
    /\ config \in Configs
    /\ excuse = "nothing"
    /\ missed = FALSE
    /\ beside = FALSE
    /\ disturbances = 0

Calm == UNCHANGED disturbances

Disturb(kind) ==
    /\ kind \in Disturbances
    /\ disturbances < MaxDisturbances
    /\ disturbances' = disturbances + 1

(* What may run while the other thread is between its two locks.           *)
TickMayRun == "overlap" \in Disturbances \/ hand \notin {"connected", "disconnected"}
ConnectionMayRun == "overlap" \in Disturbances \/ look.at = "away"
-----------------------------------------------------------------------------
(***************************************************************************)
(* The gap a reader has open, in reader_gap_events.                        *)
(***************************************************************************)

(* open_reader_gap: the gap already open stays, as it was first detected.  *)
Open(by) ==
    IF gap.open THEN UNCHANGED <<gap, excuse>>
    ELSE /\ gap' = [open |-> TRUE, by |-> by]
         /\ excuse' = IF by # "transport" /\ look.since = "return" THEN "return" ELSE "nothing"

(* close_reader_gap: nothing is written when none is open.                 *)
Close(by) ==
    IF gap.open THEN gap' = [open |-> FALSE, by |-> by] /\ excuse' = "nothing"
    ELSE UNCHANGED <<gap, excuse>>

(* The open gap has a reason to be closed that is not the reader's return: *)
(* a restart, a raised threshold, an edge that was not written.            *)
Excused == excuse' = IF gap.open /\ excuse = "nothing" THEN "other" ELSE excuse

(* An edge that cannot be written is said on stderr and not tried again.   *)
NotWritten ==
    /\ Disturb("failure")
    /\ missed' = TRUE
    /\ Excused
    /\ UNCHANGED gap

OpenOrMiss(by) == (Calm /\ Open(by) /\ missed' = FALSE) \/ NotWritten
CloseOrMiss(by) == (Calm /\ Close(by) /\ missed' = FALSE) \/ NotWritten
-----------------------------------------------------------------------------
(***************************************************************************)
(* The provider: run and pump.  A send waits while the channel is full.    *)
(***************************************************************************)

Send(event) ==
    /\ Len(channel) < Capacity
    /\ channel' = Append(channel, event)

PortOpens ==
    /\ status.watching
    /\ port = "closed"
    /\ port' = "opening"
    /\ Calm
    /\ UNCHANGED <<channel, status, hand, look, config, evidence>>

(* The module accepted the start command: only now is it announced.        *)
Started ==
    /\ port = "opening"
    /\ Send("connected")
    /\ port' = "open"
    /\ Calm
    /\ UNCHANGED <<status, hand, look, config, evidence>>

(* The port did not open, the module refused to start, or the connection   *)
(* ended; every failed attempt is reported.                                *)
Lost ==
    /\ status.watching
    /\ Send("disconnected")
    /\ port' = "closed"
    /\ Calm
    /\ UNCHANGED <<status, hand, look, config, evidence>>

(* A tag report, or a frame without one; also from a stream the last       *)
(* connection left running.                                                *)
Reports ==
    /\ port # "closed"
    /\ \E event \in {"read", "alive"} : Send(event)
    /\ Calm
    /\ UNCHANGED <<port, status, hand, look, config, evidence>>
-----------------------------------------------------------------------------
(***************************************************************************)
(* The read thread: read_into_journal, record_connection and store.        *)
(***************************************************************************)

IsReturn(event) == event \in {"read", "connected"}

Take(event) ==
    /\ status.watching
    /\ hand = "nothing"
    /\ channel # <<>>
    /\ Head(channel) = event
    /\ channel' = Tail(channel)
    /\ excuse' = IF gap.open /\ IsReturn(event) THEN "return" ELSE excuse
    /\ look' = IF look.at = "away" THEN look ELSE
                  [look EXCEPT !.since = IF IsReturn(event) \/ @ = "return" THEN "return" ELSE "other"]
    /\ Calm
    /\ UNCHANGED <<port, gap, config, missed>>

(* record_connection, under the reader's lock.  A connection is a sign of  *)
(* life; either edge disarms the heartbeat.                                *)
TakeConnected ==
    /\ ConnectionMayRun
    /\ Take("connected")
    /\ status' = [status EXCEPT !.transportDown = FALSE, !.lastHeard = "never",
                                !.heartbeatGap = FALSE, !.lastMessage = "fresh"]
    /\ hand' = "connected"
    /\ beside' = (look.at # "away")

(* Mutant: a loss of the port does not stand the watchdog down.            *)
TakeDisconnectedUnsaid ==
    /\ ConnectionMayRun
    /\ Take("disconnected")
    /\ status' = [status EXCEPT !.lastHeard = "never", !.heartbeatGap = FALSE]
    /\ hand' = "disconnected"
    /\ beside' = (look.at # "away")

TakeDisconnected ==
    /\ ConnectionMayRun
    /\ Take("disconnected")
    /\ status' = [status EXCEPT !.transportDown = TRUE, !.lastHeard = "never",
                                !.heartbeatGap = FALSE]
    /\ hand' = "disconnected"
    /\ beside' = (look.at # "away")

(* Mutant: a loss of the port writes no edge.                              *)
RecordNothing ==
    /\ hand \in {"connected", "disconnected"}
    /\ IF hand = "connected" THEN CloseOrMiss("transport") ELSE Calm /\ UNCHANGED evidence
    /\ hand' = "nothing"
    /\ UNCHANGED <<provider, status, look, config, beside>>

(* record_connection, under the journal's lock.                            *)
RecordConnection ==
    /\ hand \in {"connected", "disconnected"}
    /\ IF hand = "connected" THEN CloseOrMiss("transport") ELSE OpenOrMiss("transport")
    /\ hand' = "nothing"
    /\ UNCHANGED <<provider, status, look, config, beside>>

TakeRead ==
    /\ Take("read")
    /\ status' = [status EXCEPT !.lastMessage = "fresh", !.lastHeard = "fresh"]
    /\ hand' = "read"
    /\ UNCHANGED beside

(* store: an append that fails is said, and tried again.                   *)
StoreFails ==
    /\ hand = "read"
    /\ Disturb("failure")
    /\ status' = [status EXCEPT !.fault = TRUE]
    /\ UNCHANGED <<provider, hand, look, config, evidence>>

(* Mutant: the fault outlives the write that lands.                        *)
StoredAndStillSaid ==
    /\ hand = "read"
    /\ hand' = "nothing"
    /\ Calm
    /\ UNCHANGED <<provider, status, look, config, evidence>>

(* store returns; until it does, it holds the read thread.                 *)
Stored ==
    /\ hand = "read"
    /\ hand' = "nothing"
    /\ status' = [status EXCEPT !.fault = FALSE]
    /\ Calm
    /\ UNCHANGED <<provider, look, config, evidence>>

TakeAlive ==
    /\ Take("alive")
    /\ status' = [status EXCEPT !.lastHeard = "fresh"]
    /\ UNCHANGED <<hand, beside>>
-----------------------------------------------------------------------------
(***************************************************************************)
(* The watchdog: check_for_silence.                                        *)
(***************************************************************************)

(* Mutant: the tick goes on while the transport says it is down.           *)
TickRegardless ==
    /\ look.at = "away"
    /\ TickMayRun
    /\ status.watching
    /\ look' = [at |-> "heartbeat", opened |-> FALSE, since |-> "nothing",
                lastMessage |-> status.lastMessage, lastHeard |-> status.lastHeard,
                heartbeatGap |-> status.heartbeatGap]
    /\ beside' = (beside \/ hand \in {"connected", "disconnected"})
    /\ Calm
    /\ UNCHANGED <<provider, status, hand, config, gap, excuse, missed>>

(* Under the reader's lock, which is then let go.  While the transport has *)
(* said it is down, or with nothing to watch, the tick ends here.          *)
Tick ==
    /\ look.at = "away"
    /\ TickMayRun
    /\ status.watching /\ ~status.transportDown
    /\ look' = [at |-> "heartbeat", opened |-> FALSE, since |-> "nothing",
                lastMessage |-> status.lastMessage, lastHeard |-> status.lastHeard,
                heartbeatGap |-> status.heartbeatGap]
    /\ beside' = (beside \/ hand \in {"connected", "disconnected"})
    /\ Calm
    /\ UNCHANGED <<provider, status, hand, config, gap, excuse, missed>>

(* assess_heartbeat, with what the tick copied.                            *)
HeartbeatVerdict ==
    IF config.heartbeat /\ look.lastHeard = "old" THEN "open"
    ELSE IF look.heartbeatGap THEN "close" ELSE "idle"

(* Mutant: any sign of life counts as a read.                              *)
SilenceVerdictIfUnheard ==
    IF ~config.silence THEN "idle"
    ELSE IF look.lastMessage = "old" /\ look.lastHeard # "fresh" THEN "open" ELSE "close"

(* Mutant: a reader that reads again closes nothing.                       *)
SilenceVerdictNeverCloses ==
    IF config.silence /\ look.lastMessage = "old" THEN "open" ELSE "idle"

(* assess_silence.                                                         *)
SilenceVerdict ==
    IF ~config.silence THEN "idle"
    ELSE IF look.lastMessage = "old" THEN "open" ELSE "close"

(* The heartbeat's edge, written with the journal's lock held once.        *)
Heartbeat ==
    /\ look.at = "heartbeat"
    /\ HeartbeatVerdict # "idle"
    /\ IF HeartbeatVerdict = "open" THEN OpenOrMiss("heartbeat") ELSE CloseOrMiss("heartbeat")
    /\ look' = [look EXCEPT !.at = "flag", !.opened = (HeartbeatVerdict = "open")]
    /\ UNCHANGED <<provider, status, hand, config, beside>>

(* The flag, under the reader's lock again, whether or not the row was     *)
(* written.  The silence check is left for when there is no such gap.      *)
Flag ==
    /\ look.at = "flag"
    /\ status' = [status EXCEPT !.heartbeatGap = look.opened]
    /\ look' = IF look.opened THEN Away ELSE [look EXCEPT !.at = "silence"]
    /\ Calm
    /\ UNCHANGED <<provider, hand, config, evidence>>

(* The silence check, at once when the heartbeat had nothing to say.  It   *)
(* closes whatever is open: not silent long enough yet reads as resumed.   *)
Silence ==
    /\ look.at = "silence" \/ (look.at = "heartbeat" /\ HeartbeatVerdict = "idle")
    /\ \/ SilenceVerdict = "idle" /\ Calm /\ UNCHANGED evidence
       \/ SilenceVerdict = "open" /\ OpenOrMiss("silence")
       \/ SilenceVerdict = "close" /\ CloseOrMiss("silence")
    /\ look' = Away
    /\ UNCHANGED <<provider, status, hand, config, beside>>
-----------------------------------------------------------------------------
(***************************************************************************)
(* Time, the operator and the process.                                     *)
(***************************************************************************)

Aged(instant) == IF instant = "fresh" THEN "old" ELSE instant

(* A threshold passes since the last read, and since the reader was last   *)
(* heard.  An instant the watchdog copied is no later than the one it      *)
(* copied it from.                                                         *)
SilencePasses ==
    /\ status.lastMessage = "fresh"
    /\ status' = [status EXCEPT !.lastMessage = "old"]
    /\ look' = [look EXCEPT !.lastMessage = Aged(@)]
    /\ Calm
    /\ UNCHANGED <<provider, hand, config, evidence>>

HeartbeatPasses ==
    /\ status.lastHeard = "fresh"
    /\ status' = [status EXCEPT !.lastHeard = "old"]
    /\ look' = [look EXCEPT !.lastHeard = Aged(@)]
    /\ Calm
    /\ UNCHANGED <<provider, hand, config, evidence>>

(* The status has moved on from the instant the tick copied.               *)
MovedOn(instant) ==
    look.since \in (IF instant = "lastMessage" THEN {"return"} ELSE {"return", "other"})

(* The tick waited so long that such an instant is older than a threshold. *)
TickIsLate ==
    /\ Disturb("late")
    /\ \E instant \in {"lastMessage", "lastHeard"} :
          /\ MovedOn(instant)
          /\ look[instant] = "fresh"
          /\ look' = [look EXCEPT ![instant] = "old"]
    /\ UNCHANGED <<provider, status, hand, config, evidence>>

(* race start and stop, and device set; each tick reads them afresh.       *)
Configure ==
    /\ \E key \in DOMAIN config : config' = [config EXCEPT ![key] = ~@]
    /\ Calm
    /\ UNCHANGED <<provider, status, hand, look, evidence>>

(* A threshold is raised past how long it has been quiet.                  *)
ThresholdRaised ==
    /\ Disturb("raised")
    /\ \E instant \in {"lastMessage", "lastHeard"} :
          /\ status[instant] = "old"
          /\ status' = [status EXCEPT ![instant] = "fresh"]
          /\ look' = IF look.at = "away" \/ MovedOn(instant) THEN look
                     ELSE [look EXCEPT ![instant] = "fresh"]
    /\ Excused
    /\ UNCHANGED <<provider, hand, config, gap, missed, beside>>

(* The process is gone, with its status; the rows are not.                 *)
Restart ==
    /\ status.watching
    /\ Disturb("restart")
    /\ port' = "closed"
    /\ channel' = <<>>
    /\ status' = NoReader
    /\ hand' = "nothing"
    /\ look' = Away
    /\ Excused
    /\ UNCHANGED <<config, gap, missed, beside>>

(* compose_serial_reader: silence is measured from here.                   *)
Compose ==
    /\ ~status.watching
    /\ status' = [status EXCEPT !.watching = TRUE, !.lastMessage = "fresh"]
    /\ Calm
    /\ UNCHANGED <<provider, hand, look, config, evidence>>
-----------------------------------------------------------------------------
Provider == PortOpens \/ Started \/ Lost \/ Reports

ReadThread == TakeConnected \/ TakeDisconnected \/ RecordConnection \/ TakeRead \/ StoreFails \/ Stored \/ TakeAlive

Watchdog == Tick \/ Heartbeat \/ Flag \/ Silence

Next ==
    \/ Provider \/ ReadThread \/ Watchdog
    \/ SilencePasses \/ HeartbeatPasses \/ TickIsLate
    \/ Configure \/ ThresholdRaised \/ Restart \/ Compose

Spec == Init /\ [][Next]_vars

(* The threads run, and a process that ended is started again.  An attempt *)
(* to connect ends, by an answer or its deadline, however much a reader    *)
(* reports meanwhile and however often the channel is full: the provider   *)
(* is one thread, and sends one thing at a time.  Nothing obliges a reader *)
(* to report, a threshold to pass or an operator to act.                   *)
FairSpec ==
    /\ Spec
    /\ WF_vars(Compose)
    /\ SF_vars(port # "open" /\ (Started \/ Lost))
    /\ WF_vars(ReadThread)
    /\ WF_vars(Watchdog)
-----------------------------------------------------------------------------
(***************************************************************************)
(* What must hold.                                                         *)
(***************************************************************************)

(* While the read thread knows the port is gone, or the heartbeat check    *)
(* believes the reader is, a gap is open: no tick of the watchdog closes   *)
(* it.  Except where the edge could not be written, or where the loss was  *)
(* recorded while a tick was under way.                                    *)
LossStaysRecorded ==
    hand = "nothing" /\ ~missed /\ ~beside =>
        /\ status.transportDown => gap.open
        /\ status.heartbeatGap /\ look.at = "away" => gap.open

Closes(by) == gap.open /\ ~gap'.open /\ gap'.by = by

(* The watchdog writes "reads resumed" only once a read has been taken, or *)
(* a connection, since the gap was opened; or, with neither, once the      *)
(* process was restarted, a threshold raised, or an edge left unwritten,   *)
(* or the loss was recorded beside the tick.                               *)
ResumedHasAReason == [][Closes("silence") => excuse # "nothing" \/ beside]_vars

(* The watchdog writes "reads resumed" only once the reader has come back. *)
ResumedMeansResumed == [][Closes("silence") => excuse = "return"]_vars

(* The heartbeat check closes the gap it opened, and no other.             *)
HeartbeatClosesItsOwn == [][Closes("heartbeat") => gap.by = "heartbeat"]_vars

(* What /health reports of this reader: its status, and its rows.          *)
Device ==
    [Api!Well EXCEPT
        !.fault = status.fault,
        !.gaps = IF gap.open
                 THEN {[reader |-> "this", detection |-> IF gap.by = "transport" THEN "confirmed"
                                                                                 ELSE "suspected"]}
                 ELSE {}]

Degraded == Api!Answer(Device) = 503

(* A reader that stays lost is in the end recorded as lost, whatever a     *)
(* stale tick or a failed write did to the edge before; and a monitor that *)
(* polls /health sees that.                                                *)
LossIsRecorded == <>[](port # "open") => <>[](gap.open /\ Degraded)

(* A reader that is there and reads nothing through a race is recorded as  *)
(* silent, again and again if something goes on closing that gap; and a    *)
(* monitor sees that too, though nothing confirms it.                      *)
Deaf == /\ status.watching /\ port = "open" /\ status.lastMessage = "old"
        /\ config.silence

DeafnessIsRecorded == <>[]Deaf => []<>(gap.open /\ Degraded)

(* A reader that goes on reading through a race is not left in a gap, and  *)
(* /health answers that again and again, once its reads are stored.        *)
Reading == /\ status.watching /\ port = "open" /\ config.silence
           /\ status.lastMessage = "fresh" /\ status.lastHeard # "old"

ReturnIsRecorded == <>[]Reading => <>[]~gap.open /\ []<>~Degraded
=============================================================================
