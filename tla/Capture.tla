------------------------------ MODULE Capture ------------------------------
(***************************************************************************)
(* A serial session kept byte for byte beside the evidence, read back, and *)
(* held against the journal.                                               *)
(*                                                                         *)
(* The port is wrapped: what it carries is recorded on its way to the      *)
(* reassembler, through a bounded queue to a thread that writes the file.  *)
(* The reading thread never waits for it: a record that finds the queue    *)
(* full is dropped and counted, and the next one that does not says how    *)
(* many went before it.  What the check reads back is kept here as it      *)
(* stands at the file's end: of the file's lines only their effect on the  *)
(* replay of the connection that is up is kept.                            *)
(***************************************************************************)
EXTENDS Framing

CONSTANTS
    Queue,      \* records that may wait for the writer
    MaxDropped  \* bound on the records dropped between two that are not

ASSUME CaptureAssumption == Queue \in Nat \ {0} /\ MaxDropped \in Nat

VARIABLES
    tape,       \* Capture: the queue, the records dropped since, and whether it stopped
    replayed    \* replay, at the end of the file: its reassembler, and what it found

captured == <<tape, replayed>>
-----------------------------------------------------------------------------
(* Mutant: a record that is dropped forgets those dropped before it.       *)
KeepForgetting(t, record) ==
    IF t.stopped THEN t
    ELSE IF Len(t.queue) < Queue
    THEN [t EXCEPT !.queue = Append(@, [record EXCEPT !.droppedBefore = t.dropped]), !.dropped = 0]
    ELSE [t EXCEPT !.dropped = 0]

(* Capture::record, which never waits.                                     *)
Keep(t, record) ==
    IF t.stopped THEN t
    ELSE IF Len(t.queue) < Queue
    THEN [t EXCEPT !.queue = Append(@, [record EXCEPT !.droppedBefore = t.dropped]), !.dropped = 0]
    ELSE [t EXCEPT !.dropped = @ + 1]

Mark(kind) == [is |-> kind, from |-> 0, to |-> 0, droppedBefore |-> 0]
Received(from, to) == [Mark("received") EXCEPT !.from = from, !.to = to]

(* A record of a connection that is over has nothing left to say but what  *)
(* was dropped before it.                                                  *)
Outdated(queue) == [i \in DOMAIN queue |-> [queue[i] EXCEPT !.is = "before"]]

(* No connection, or one of before.                                        *)
NothingReplayed == [here |-> FALSE, told |-> FALSE, from |-> 0, buffer |-> <<>>, frames |-> <<>>]

CaptureInit ==
    /\ Init
    /\ tape = [queue |-> <<Mark("open")>>, dropped |-> 0, stopped |-> FALSE]
    /\ replayed = NothingReplayed
-----------------------------------------------------------------------------
(***************************************************************************)
(* replay: the file's next line.                                           *)
(***************************************************************************)

(* What the replay's reassembler makes of more bytes, or of their end.     *)
Replayed(input, giveUp) ==
    LET scanned == Scan(input, replayed.from, giveUp) IN
    [replayed EXCEPT !.frames = @ \o scanned.frames, !.from = @ + scanned.at,
                     !.buffer = SubSeq(input, scanned.at + 1, Len(input))]

(* A comment says what was dropped, open begins with a new reassembler,    *)
(* bytes are fed to it, and eof, error and close flush it.  Of a           *)
(* connection with something dropped nothing more is kept.                 *)
ReplayLine(record) ==
    IF record.is = "open" THEN [NothingReplayed EXCEPT !.here = TRUE]
    ELSE IF replayed.told \/ record.droppedBefore > 0
    THEN [NothingReplayed EXCEPT !.told = TRUE]
    ELSE IF ~replayed.here THEN replayed
    ELSE CASE record.is = "received" ->
                Replayed(replayed.buffer \o SubSeq(stream, record.from + 1, record.to), FALSE)
           [] record.is = "end" -> Replayed(replayed.buffer, TRUE)
           [] OTHER -> replayed
-----------------------------------------------------------------------------
(***************************************************************************)
(* The port, wrapped, and the writer.                                      *)
(***************************************************************************)

(* Tee::read: what the port brought is recorded on its way.                *)
FeedRecorded ==
    /\ tape.dropped < MaxDropped
    /\ Feed
    /\ tape' = Keep(tape, Received(taken, taken'))
    /\ UNCHANGED replayed

(* An error or the end of the port, and the port let go of.                *)
CutRecorded ==
    /\ tape.dropped + 1 < MaxDropped
    /\ Cut
    /\ tape' = Keep(Keep(tape, Mark("end")), Mark("close"))
    /\ UNCHANGED replayed

(* Capturing::open, once the port of before was let go of, which is        *)
(* recorded too.                                                           *)
ReopenRecorded ==
    /\ tape.dropped + 1 < MaxDropped
    /\ Reopen
    /\ tape' = Keep(Keep([tape EXCEPT !.queue = Outdated(@)], Mark("close")), Mark("open"))
    /\ replayed' = NothingReplayed

(* write_records: the queue's next record becomes a line.                  *)
WriteRecord ==
    /\ tape.queue # <<>>
    /\ tape' = [tape EXCEPT !.queue = Tail(@)]
    /\ replayed' = ReplayLine(Head(tape.queue))
    /\ UNCHANGED vars

(* A write fails: the thread ends, with what it had not written, and the   *)
(* file stays as it is.                                                    *)
WriteFails ==
    /\ ~tape.stopped
    /\ tape' = [queue |-> <<>>, dropped |-> 0, stopped |-> TRUE]
    /\ UNCHANGED <<vars, replayed>>

CaptureNext ==
    \/ FrameIsSent /\ UNCHANGED captured
    \/ NoiseArrives /\ UNCHANGED captured
    \/ FeedRecorded
    \/ Quiet /\ UNCHANGED captured
    \/ CutRecorded
    \/ ReopenRecorded
    \/ WriteRecord
    \/ WriteFails

CaptureSpec == CaptureInit /\ [][CaptureNext]_<<vars, captured>>
-----------------------------------------------------------------------------
(***************************************************************************)
(* splitforge-capture check, of the connection that is up: the reads in    *)
(* the capture against those the service decoded and stored.               *)
(***************************************************************************)

IsRead(f) == Meaning(stream[f.from + 3], SubSeq(stream, f.from + 4, f.to - 1)).is = "read"

InJournal == {f \in {frames[i] : i \in DOMAIN frames} : IsRead(f)}

(* At the end of the file the replay's connection is ended like any other. *)
Played == LET end == Replayed(replayed.buffer, TRUE) IN {end.frames[i] : i \in DOMAIN end.frames}

InCapture == {f \in Played : IsRead(f)}

(* Of a file with a record in it, and no line that cannot be read.         *)
Verdict ==
    IF InCapture \ InJournal # {} THEN "disagree"
    ELSE IF replayed.told THEN "incomplete"
    ELSE IF InJournal \ InCapture # {} THEN "disagree"
    ELSE "agree"

(* Noise has made no frame of its own, for the service or for the replay.  *)
NoAccident ==
    \A f \in {frames[i] : i \in DOMAIN frames} \cup Played :
        \E g \in sent : f = At(g)

(* A journal that has every read the service decoded is not said to lack   *)
(* one, unless the capture is said to be incomplete, whatever was recorded *)
(* in which pieces, dropped or never written, and though the service gives *)
(* up waiting at every silence and the replay only at the end.  And with   *)
(* nothing waiting, dropped or unwritten, the two are said to agree        *)
(* (replay, Capture::record, run of splitforge-capture).                   *)
CheckIsFair ==
    LET atRest == taken = Len(stream) /\ buffer = <<>> IN
    atRest /\ NoAccident =>
        /\ ~replayed.told => InCapture \subseteq InJournal
        /\ replayed.here /\ tape = [queue |-> <<>>, dropped |-> 0, stopped |-> FALSE]
           /\ ~replayed.told => Verdict = "agree"
============================================================================
