---------------------------- MODULE SerialReader ----------------------------
(***************************************************************************)
(* The serial reader's provider: the thread that opens the port, asks the  *)
(* module to stream, and turns what arrives into events, for as long as    *)
(* there is somebody to take them.                                         *)
(*                                                                         *)
(* On every connection it sends eight commands, each after the answer to   *)
(* the one before.  Nothing on the wire says which connection an answer    *)
(* belongs to: what the last connection asked for, and its stream, arrive  *)
(* in the middle of this one's start, and answers come after the host has  *)
(* stopped waiting.  The module at the other end is external: it takes     *)
(* commands in order and answers in order, and may refuse, stay silent,    *)
(* lose a frame or its power.                                              *)
(*                                                                         *)
(* A turn is one pass of pump's loop: a read of the port, the deadline of  *)
(* the answer awaited, and the events of both, sent one at a time.         *)
(***************************************************************************)
EXTENDS Naturals, Sequences, SequencesExt

CONSTANTS
    MaxReports,        \* bound on the tag reports the module makes
    Wire,              \* bound on the frames on their way to the host
    Chunk,             \* the most frames one read of the port yields
    MostFailures,      \* where counting failed attempts stops
    Disturbances,      \* which of the disturbances below can happen
    MaxDisturbances    \* how many of them, in all

(* refused: the module refuses a command it has to accept.  unanswered: it *)
(* takes one and says nothing.  late: an answer comes after its deadline.  *)
(* garbled: a frame to the host is lost.  ended: the port goes away.       *)
(* unopened: it does not open.  cycled: the module loses its power.        *)
AllDisturbances ==
    {"refused", "unanswered", "late", "garbled", "ended", "unopened", "cycled"}

ASSUME Bounds ==
    /\ MaxReports \in Nat /\ MaxDisturbances \in Nat
    /\ Wire \in Nat \ {0} /\ Chunk \in Nat \ {0} /\ MostFailures \in Nat
    /\ Disturbances \subseteq AllDisturbances

(* StartSequence::gen2.                                                    *)
Steps == <<"stop", "version", "gen2", "region", "power", "limits", "filter", "start">>
Commands == Range(Steps)
Settings == {"gen2", "region", "power", "filter"}

(* Mutant: the stop has to succeed like every other command.               *)
MustSucceedStop(command) == command # "limits"

MustSucceed(command) == command \notin {"stop", "limits"}

(* Stop and start share an opcode, and the answer to either says which by  *)
(* the option it echoes; a refusal may echo nothing.                       *)
Opcode(command) == IF command \in {"stop", "start"} THEN "tag operation" ELSE command

(* own: the answer is to a command of the connection now open.             *)
Frames ==
    [kind : {"answer"}, to : Commands, own : BOOLEAN, ok : BOOLEAN, echoes : BOOLEAN]
        \cup [kind : {"report"}, number : 1..MaxReports]
        \cup [kind : {"cycle", "odd"}]

Events ==
    {<<name, 0>> : name \in {"connected", "power", "faults", "alive", "disconnected"}}
        \cup ({"read"} \X (1..MaxReports))

VARIABLES
    port,          \* closed, open, ending (its last turn is over) or left
    start,         \* the next step, how the sequence stands, and whether announced
    out,           \* the events of this turn not yet sent
    toReader,      \* commands on their way to the module, and whose they are
    toHost,        \* frames on their way to the host
    reader,        \* the module: its stream, its settings and its reports
    backlog,       \* connections in a row that found answers outstanding, up to 2
    told,          \* what the events sent add up to
    dropped,       \* the reports that never reached an open port
    disturbances   \* how many disturbances there have been

vars == <<port, start, out, toReader, toHost, reader, backlog, told, dropped, disturbances>>

host == <<port, start, out, backlog, told>>

TypeOK ==
    /\ port \in {"closed", "open", "ending", "left"}
    /\ start \in [step : 1..(Len(Steps) + 1), progress : {"waiting", "started", "refused"},
                  announced : BOOLEAN]
    /\ out \in Seq(Events)
    /\ toReader \in Seq([command : Commands, own : BOOLEAN])
    /\ toHost \in Seq(Frames) /\ Len(toHost) <= Wire
    /\ reader \in [stream : {"off", "own", "stale"}, settings : SUBSET Settings,
                   cycled : BOOLEAN, reports : 0..MaxReports]
    /\ backlog \in 0..2
    /\ told \in [link : {"up", "down"}, power : BOOLEAN, reads : Seq(1..MaxReports),
                 failures : 0..MostFailures]
    /\ dropped \subseteq 1..MaxReports
    /\ disturbances \in 0..MaxDisturbances

NotStarted == [step |-> 1, progress |-> "waiting", announced |-> FALSE]

(* The process has just started.  The module may have been left streaming  *)
(* by the one before.                                                      *)
Init ==
    /\ port = "closed"
    /\ start = NotStarted
    /\ out = <<>>
    /\ toReader = <<>>
    /\ toHost = <<>>
    /\ reader \in [stream : {"off", "stale"}, settings : {{}}, cycled : {FALSE}, reports : {0}]
    /\ backlog = 0
    /\ told = [link |-> "down", power |-> FALSE, reads |-> <<>>, failures |-> 0]
    /\ dropped = {}
    /\ disturbances = 0

Calm == UNCHANGED disturbances

Disturb(kind) ==
    /\ kind \in Disturbances
    /\ disturbances < MaxDisturbances
    /\ disturbances' = disturbances + 1

Reports(frames) == {f.number : f \in {g \in Range(frames) : g.kind = "report"}}
-----------------------------------------------------------------------------
(***************************************************************************)
(* The start sequence: Starting.                                           *)
(***************************************************************************)

(* The answer awaited is known by its opcode and, where two commands share *)
(* it, by the option echoed; nothing says on which connection it was asked.*)
Claims(t, frame) ==
    /\ frame.kind = "answer"
    /\ t.step <= Len(Steps)
    /\ Opcode(frame.to) = Opcode(Steps[t.step])
    /\ Opcode(frame.to) = "tag operation" => frame.echoes /\ frame.to = Steps[t.step]

(* The step is behind, and the next command goes out, if there is one.     *)
Advance(t) ==
    IF t.step = Len(Steps) THEN [t EXCEPT !.step = @ + 1, !.progress = "started"]
    ELSE [t EXCEPT !.step = @ + 1, !.progress = "waiting",
                   !.sent = Append(@, [command |-> Steps[t.step + 1], own |-> TRUE])]

(* Starting::answer.                                                       *)
Answer(t, frame) ==
    IF MustSucceed(Steps[t.step]) /\ ~frame.ok THEN [t EXCEPT !.progress = "refused"]
    ELSE Advance([t EXCEPT !.power = @ \/ (Steps[t.step] = "limits" /\ frame.ok)])

(* Starting::tick, past the deadline.                                      *)
PastDeadline(t) ==
    IF MustSucceed(Steps[t.step]) THEN [t EXCEPT !.progress = "refused"] ELSE Advance(t)

(* StreamDecoder: a tag report is a read, a frame it accepts without one a *)
(* sign of life, and an answer nobody waits for a fault like any other.    *)
Decode(t, frame) ==
    CASE frame.kind = "report" -> [t EXCEPT !.reads = Append(@, frame.number)]
      [] frame.kind = "cycle" -> [t EXCEPT !.heard = TRUE]
      [] OTHER -> [t EXCEPT !.faults = TRUE]

(* Mutant: until the stream has started, nothing is a report.              *)
HandleOnlyAnswers(t, frame) ==
    IF Claims(t, frame) THEN Answer(t, frame)
    ELSE IF t.progress = "started" THEN Decode(t, frame) ELSE t

Handle(t, frame) == IF Claims(t, frame) THEN Answer(t, frame) ELSE Decode(t, frame)
-----------------------------------------------------------------------------
(***************************************************************************)
(* A turn: ThingMagicReader::pump.                                         *)
(***************************************************************************)

NewTurn ==
    [step |-> start.step, progress |-> start.progress, sent |-> <<>>, power |-> FALSE,
     reads |-> <<>>, heard |-> FALSE, faults |-> FALSE]

(* The turn that has taken the first n frames in, one after the other.     *)
Turns(n) ==
    LET turn[i \in 0..n] == IF i = 0 THEN NewTurn ELSE Handle(turn[i - 1], toHost[i])
    IN turn[n]

(* Mutant: a connection is announced once the module answers at all.       *)
AnnouncesAtOnce(t) == ~start.announced /\ t.step > 2

(* established, with a start sequence: only the start being accepted.      *)
Announces(t) == ~start.announced /\ t.progress = "started"

If(condition, name) == IF condition THEN << <<name, 0>> >> ELSE <<>>

ReadsOf(t) == [i \in DOMAIN t.reads |-> <<"read", t.reads[i]>>]

(* Mutant: the connection is announced after what it has brought.          *)
EventsAnnouncedLast(t, lost) ==
    ReadsOf(t) \o If(t.faults, "faults") \o If(t.heard, "alive") \o If(lost, "disconnected")
        \o If(Announces(t), "connected") \o If(t.power, "power")

EventsOf(t, lost) ==
    If(Announces(t), "connected") \o If(t.power, "power") \o ReadsOf(t)
        \o If(t.faults, "faults") \o If(t.heard, "alive") \o If(lost, "disconnected")

(* The turn is taken in, and the connection goes on or ends.               *)
Conclude(t, n, ended, reached) ==
    LET lost == ended \/ t.progress = "refused" IN
    /\ start' = [step |-> t.step, progress |-> t.progress,
                 announced |-> start.announced \/ Announces(t)]
    /\ out' = EventsOf(t, lost)
    /\ port' = IF lost THEN "ending" ELSE "open"
    /\ toReader' = IF reached THEN toReader \o t.sent ELSE toReader
    /\ toHost' = SubSeq(toHost, n + 1, Len(toHost))
    /\ UNCHANGED <<reader, backlog, told, dropped>>

Taking == port = "open" /\ out = <<>>

Chunks == 0..(IF Len(toHost) < Chunk THEN Len(toHost) ELSE Chunk)

Read ==
    /\ Taking
    /\ \E n \in Chunks \ {0} : Conclude(Turns(n), n, FALSE, TRUE)
    /\ Calm

(* A command is not yet answered, or an answer not yet taken.              *)
Outstanding(commands, frames) ==
    commands # <<>> \/ \E i \in 1..Len(frames) : frames[i].kind = "answer"

(* The deadline passes; the read before it may have brought other frames.  *)
TimeOut ==
    /\ Taking
    /\ start.progress = "waiting"
    /\ \E n \in Chunks :
          LET t == Turns(n) IN
          /\ t.step = start.step /\ t.progress = "waiting"
          /\ Conclude(PastDeadline(t), n, FALSE, TRUE)
    /\ IF Outstanding(toReader, toHost) THEN Disturb("late") ELSE Calm

(* The port goes away: what it had is taken in first, and what is written  *)
(* to it may be lost.                                                      *)
PortEnds ==
    /\ Taking
    /\ \E n \in Chunks, reached \in BOOLEAN : Conclude(Turns(n), n, TRUE, reached)
    /\ Disturb("ended")
-----------------------------------------------------------------------------
(***************************************************************************)
(* Connections: ThingMagicReader::run.                                     *)
(***************************************************************************)

(* A fresh connection starts from no partial frame, at the first step.     *)
(* What arrived while the port was closed may be kept for it or not.       *)
Open ==
    /\ port = "closed"
    /\ port' = "open"
    /\ start' = NotStarted
    /\ toReader' = Append(toReader, [command |-> Steps[1], own |-> TRUE])
    /\ \E n \in 0..Len(toHost) :
          /\ toHost' = SubSeq(toHost, n + 1, Len(toHost))
          /\ dropped' = dropped \cup Reports(SubSeq(toHost, 1, n))
    /\ backlog' = IF ~Outstanding(toReader, toHost') THEN 0
                  ELSE IF backlog < 2 THEN backlog + 1 ELSE backlog
    /\ reader' = [reader EXCEPT !.cycled = FALSE]
    /\ Calm
    /\ UNCHANGED <<out, told>>

(* It does not open, or the first command cannot be written.               *)
OpenFails ==
    /\ port = "closed"
    /\ port' = "ending"
    /\ start' = NotStarted
    /\ out' = If(TRUE, "disconnected")
    /\ Disturb("unopened")
    /\ UNCHANGED <<toReader, toHost, reader, backlog, told, dropped>>

Failures ==
    IF start.announced THEN 0
    ELSE IF told.failures < MostFailures THEN told.failures + 1 ELSE told.failures

(* One event is sent: blocking_send waits until there is room for it.      *)
Send ==
    /\ out # <<>>
    /\ out' = Tail(out)
    /\ told' = CASE Head(out)[1] = "connected" -> [told EXCEPT !.link = "up"]
                 [] Head(out)[1] = "power" -> [told EXCEPT !.power = TRUE]
                 [] Head(out)[1] = "disconnected" ->
                       [told EXCEPT !.link = "down", !.power = FALSE, !.failures = Failures]
                 [] Head(out)[1] = "read" -> [told EXCEPT !.reads = Append(@, Head(out)[2])]
                 [] OTHER -> told
    /\ Calm
    /\ UNCHANGED <<port, start, toReader, toHost, reader, backlog, dropped>>

Disowned(messages) == [i \in DOMAIN messages |->
    IF "own" \in DOMAIN messages[i] THEN [messages[i] EXCEPT !.own = FALSE] ELSE messages[i]]

(* The back-off is slept out, and the port closed.  What was asked for on  *)
(* this connection is the last connection's from here on.                  *)
BackOff ==
    /\ port = "ending" /\ out = <<>>
    /\ port' = "closed"
    /\ start' = NotStarted
    /\ toReader' = Disowned(toReader)
    /\ toHost' = Disowned(toHost)
    /\ reader' = [reader EXCEPT !.stream = IF @ = "own" THEN "stale" ELSE @, !.settings = {}]
    /\ Calm
    /\ UNCHANGED <<out, backlog, told, dropped>>

(* Nobody takes the events any more: the thread returns.                   *)
ConsumerLeaves ==
    /\ port # "left"
    /\ port' = "left"
    /\ Calm
    /\ UNCHANGED <<start, out, toReader, toHost, reader, backlog, told, dropped>>
-----------------------------------------------------------------------------
(***************************************************************************)
(* The module, external: what start.rs and command.rs expect of it.        *)
(***************************************************************************)

Reply(request, ok, echoes) ==
    Append(toHost, [kind |-> "answer", to |-> request.command, own |-> request.own,
                    ok |-> ok, echoes |-> echoes])

(* It does as it is told.  Settings that matter are this connection's.     *)
Obeyed(request) ==
    [reader EXCEPT
        !.stream = CASE request.command = "stop" -> "off"
                     [] request.command = "start" -> (IF request.own THEN "own" ELSE "stale")
                     [] OTHER -> @,
        !.settings = IF request.own THEN @ \cup ({request.command} \cap Settings) ELSE @]

ReaderAnswers ==
    /\ toReader # <<>>
    /\ Len(toHost) < Wire
    /\ toReader' = Tail(toReader)
    /\ \/ reader' = Obeyed(Head(toReader)) /\ toHost' = Reply(Head(toReader), TRUE, TRUE) /\ Calm
       \/ reader' = Obeyed(Head(toReader)) /\ UNCHANGED toHost /\ Disturb("unanswered")
       \/ /\ MustSucceed(Head(toReader).command)
          /\ \E echoes \in BOOLEAN : toHost' = Reply(Head(toReader), FALSE, echoes)
          /\ UNCHANGED reader
          /\ Disturb("refused")
    /\ UNCHANGED <<host, dropped>>

(* With nothing to stop, or nothing to say of its power, it may refuse or  *)
(* say nothing.                                                            *)
ReaderDeclines ==
    /\ toReader # <<>>
    /\ Len(toHost) < Wire
    /\ \/ Head(toReader).command = "limits"
       \/ Head(toReader).command = "stop" /\ reader.stream = "off"
    /\ toReader' = Tail(toReader)
    /\ \/ UNCHANGED toHost
       \/ \E echoes \in BOOLEAN : toHost' = Reply(Head(toReader), FALSE, echoes)
    /\ Calm
    /\ UNCHANGED <<host, reader, dropped>>

(* A tag is read, a search cycle ends, or a frame nobody has captured.     *)
ReaderReports ==
    /\ reader.stream # "off"
    /\ reader.reports < MaxReports
    /\ Len(toHost) < Wire
    /\ reader' = [reader EXCEPT !.reports = @ + 1]
    /\ \/ toHost' = Append(toHost, [kind |-> "report", number |-> reader.reports + 1])
          /\ UNCHANGED dropped
       \/ \E kind \in {"cycle", "odd"} : toHost' = Append(toHost, [kind |-> kind])
          /\ dropped' = dropped \cup {reader.reports + 1}
    /\ Calm
    /\ UNCHANGED <<host, toReader>>

(* A frame is lost on the line; what is left of it is a framing fault.     *)
Garbled ==
    /\ \E i \in 1..Len(toHost) :
          /\ toHost' = RemoveAt(toHost, i)
          /\ dropped' = dropped \cup Reports(<<toHost[i]>>)
    /\ Disturb("garbled")
    /\ UNCHANGED <<host, toReader, reader>>

PowerCycled ==
    /\ reader' = [reader EXCEPT !.stream = "off", !.settings = {}, !.cycled = TRUE]
    /\ toReader' = <<>>
    /\ Disturb("cycled")
    /\ UNCHANGED <<host, toHost, dropped>>
-----------------------------------------------------------------------------
Provider == Read \/ TimeOut \/ PortEnds \/ Open \/ OpenFails \/ Send \/ BackOff

Module == ReaderAnswers \/ ReaderDeclines \/ ReaderReports \/ Garbled \/ PowerCycled

Next == (port # "left" /\ Provider) \/ ConsumerLeaves \/ Module

Spec == Init /\ [][Next]_vars

(* The thread runs, the port can be opened again, and the module takes the *)
(* commands it is sent.  Disturbances end, since they are bounded; that it *)
(* reports anything, nothing obliges it to.                                *)
FairSpec ==
    /\ Spec
    /\ WF_vars(port # "left" /\ (Read \/ TimeOut))
    /\ WF_vars(port # "left" /\ (Open \/ Send \/ BackOff))
    /\ WF_vars(ReaderAnswers \/ ReaderDeclines)
-----------------------------------------------------------------------------
(***************************************************************************)
(* What must hold.                                                         *)
(***************************************************************************)

(* The module streams because of this connection and accepted its settings.*)
Streaming == reader.stream = "own" /\ reader.settings = Settings

Announced == start.announced /\ port = "open" /\ ~reader.cycled

(* A connection is announced only when the module streams because of it,   *)
(* with every setting of this connection accepted: an answer left from the *)
(* last connection stands for none of them.  Until the module loses power, *)
(* and as long as no two connections in a row found answers outstanding.   *)
AnnouncedIsStreaming == Announced /\ backlog < 2 => Streaming

(* The same, however many connections in a row found answers outstanding.  *)
(* "A module that refuses a step ends the connection as NotStarted."       *)
AnnouncedAlwaysStreams == Announced => Streaming

(* Every tag report that arrives on an open port is sent on, in order and  *)
(* once, whichever connection's stream it is of, whatever the start        *)
(* sequence is waiting for, and also when the connection ends in the turn  *)
(* that took it in.                                                        *)
ReportsReachTheChannel ==
    LET pending == {event[2] : event \in {e \in Range(out) : e[1] = "read"}} IN
    Range(told.reads) \cup pending = (1..reader.reports) \ (dropped \cup Reports(toHost))

Latest == IF told.reads = <<>> THEN 0 ELSE Last(told.reads)

(* The transmit power is sent while the reader is not announced.           *)
(* "Before the reads, and before the connection is announced below it."    *)
PowerIsToldFirst == out # <<>> /\ Head(out)[1] = "power" => told.link = "down"

(* The events sent are a provider's: see ReaderLink.                       *)
Link == INSTANCE ReaderLink WITH link <- told.link, power <- told.power,
                                 latest <- Latest, failures <- told.failures

KeepsTheLink == Link!Spec

(* However a start was disturbed, and whatever an earlier connection left  *)
(* on the wire, a module that answers is announced in the end.             *)
ComesBack == []<>(told.link = "up" \/ port = "left")
=============================================================================
