------------------------------ MODULE Framing ------------------------------
(***************************************************************************)
(* From the bytes of a serial line to reads: the reassembler that finds    *)
(* frames in whatever each read of the port happens to bring, and the      *)
(* decoder that takes a read out of a frame, or refuses it.                *)
(*                                                                         *)
(* Bytes are small numbers and frames are short.  A frame is the start     *)
(* byte, the length of its data, an opcode that stands for opcode and      *)
(* status, the data, and a checksum.  Data of a tag report is its kind, a  *)
(* flags byte, the fields flagged, and the chip behind its length in bits. *)
(* What the checksum is does not matter, only that it is a function of     *)
(* what it covers and that noise may happen to satisfy it.                 *)
(***************************************************************************)
EXTENDS Naturals, Sequences

CONSTANTS
    Records,     \* the chip records the module can read, as bytes
    Noise,       \* the bytes a disturbed line can add
    MaxStream,   \* bound on the bytes of a connection
    MaxDamage    \* bound on noise, frames corrupted and connections cut

SOH == 9               \* no legal length, and free to occur in a payload
MaxData == 8
HeaderLen == 3
MaxFrame == HeaderLen + MaxData + 1
Bytes == 0..SOH

ASSUME Recorded ==
    /\ \A r \in Records : r \in Seq(Bytes) /\ Len(r) > 0 /\ 2 * Len(r) \in Bytes
    /\ Noise \subseteq Bytes /\ MaxStream \in Nat /\ MaxDamage \in Nat

VARIABLES
    stream,     \* the bytes the module wrote on this connection
    sent,       \* the intact frames among them: where they are, what they mean
    taken,      \* how many bytes of the stream have been read from the port
    settled,    \* how many had been read when the reassembler last gave up waiting
    buffer,     \* the bytes it holds back
    frames,     \* the frames it handed over: where they were
    damage      \* how often the line was disturbed, and whether on this connection

vars == <<stream, sent, taken, settled, buffer, frames, damage>>

CheckOf(bytes) ==
    LET sum[i \in 0..Len(bytes)] ==
            IF i = 0 THEN 0 ELSE (sum[i - 1] * 3 + bytes[i] + 1) % 7
    IN  sum[Len(bytes)]
-----------------------------------------------------------------------------
(***************************************************************************)
(* frame.rs: one buffer, and whether it begins with a frame.               *)
(***************************************************************************)

Decode(input) ==
    IF input = <<>> THEN [is |-> "incomplete"]
    ELSE IF input[1] # SOH THEN [is |-> "unsynchronized"]
    ELSE IF Len(input) = 1 THEN [is |-> "incomplete"]
    ELSE IF input[2] > MaxData THEN [is |-> "overlong"]
    ELSE IF Len(input) < HeaderLen + input[2] + 1 THEN [is |-> "incomplete"]
    ELSE IF input[HeaderLen + input[2] + 1] # CheckOf(SubSeq(input, 2, HeaderLen + input[2]))
         THEN [is |-> "corrupt"]
    ELSE [is |-> "frame", consumed |-> HeaderLen + input[2] + 1]

(* Mutant: a false header takes the bytes it claimed with it.              *)
SkipClaimed(input) ==
    IF Len(input) > 1 /\ input[1] = SOH /\ HeaderLen + input[2] + 1 < Len(input)
    THEN HeaderLen + input[2] + 1 ELSE Len(input)

(* The next start byte after the first; the rest, if there is none.        *)
Resynchronize(input) ==
    LET starts == {i \in 2..Len(input) : input[i] = SOH} IN
    IF starts = {} THEN Len(input) ELSE (CHOOSE i \in starts : \A j \in starts : i <= j) - 1

(* encode_command's layout, which a response shares but for its status.    *)
Frame(opcode, data) ==
    LET covered == <<Len(data), opcode>> \o data IN
    <<SOH>> \o covered \o <<CheckOf(covered)>>
-----------------------------------------------------------------------------
(***************************************************************************)
(* tag_report.rs: what a frame says.                                       *)
(***************************************************************************)

ReadAnswer == 0      \* opcode 0x22, status success
OtherAnswer == 1     \* any other opcode, or any other status
NoTags == 2          \* opcode 0x22, status 0x0400

TagKind == 1         \* the response types; End and Status carry no tag
AliveKinds == {0, 2}

(* Two of the nine flagged fields stand for them all: one of fixed width,  *)
(* on which the chip's layout depends, and one that brings its length.     *)
ProtocolFlag == 1
DataFlag == 2
Decodable == 0..(ProtocolFlag + DataFlag)
Gen2 == 5

Has(flags, flag) == (flags \div flag) % 2 = 1

(* Whatever there is to refuse, there is no read, and the stream goes on.*)
Fault == [is |-> "fault"]

(* bit_counted: the bytes a number of bits takes, two bits to a byte here. *)
BytesOf(bits) == (bits + 1) \div 2

(* Mutant: what the walk leaves over is not looked at.                     *)
EndsAtChipTrailing(data, at) == at <= Len(data) /\ at + BytesOf(data[at]) <= Len(data)

(* The chip's record must end where the payload does.                      *)
EndsAtChip(data, at) == at <= Len(data) /\ at + BytesOf(data[at]) = Len(data)

(* chip_id: a Gen2 record has a word before the chip and one after.        *)
Chip(record, gen2) ==
    IF gen2 /\ Len(record) >= 2 THEN SubSeq(record, 2, Len(record) - 1) ELSE record

(* read_tag: the flagged fields in the order of their flags, then the chip *)
(* behind its length.                                                      *)
ReadTag(data) ==
    LET flags == data[2]
        protocol == 3
        embedded == IF Has(flags, ProtocolFlag) THEN 4 ELSE 3
        at == IF ~Has(flags, DataFlag) \/ embedded > Len(data) THEN embedded
              ELSE embedded + 1 + BytesOf(data[embedded])
    IN  IF ~EndsAtChip(data, at) THEN Fault
        ELSE [is |-> "read",
              chip |-> Chip(SubSeq(data, at + 1, at + BytesOf(data[at])),
                            Has(flags, ProtocolFlag) /\ data[protocol] = Gen2)]

(* classify, before any of the fields is read.                             *)
Meaning(opcode, data) ==
    IF opcode = NoTags /\ data = <<>> THEN [is |-> "alive"]
    ELSE IF opcode # ReadAnswer \/ data = <<>> THEN Fault
    ELSE IF data[1] \in AliveKinds THEN [is |-> "alive"]
    ELSE IF data[1] # TagKind \/ Len(data) < 2 THEN Fault
    ELSE IF data[2] \notin Decodable THEN Fault
    ELSE ReadTag(data)
-----------------------------------------------------------------------------
(***************************************************************************)
(* reassembly.rs: a buffer, scanned from the front.                        *)
(***************************************************************************)

(* scan, from each place on: what is handed over, the input's first byte   *)
(* being stream's at base, and how far it got.  Every step consumes.       *)
ScanFrom(input, base, giveUp) ==
    LET scan[at \in 0..Len(input)] ==
            LET rest == SubSeq(input, at + 1, Len(input))
                found == Decode(rest)
            IN  CASE rest = <<>> -> [frames |-> <<>>, at |-> at]
                  [] rest # <<>> /\ found.is = "frame" ->
                        LET after == scan[at + found.consumed] IN
                        [after EXCEPT !.frames = <<[from |-> base + at, to |-> base + at + found.consumed]>> \o @]
                  [] rest # <<>> /\ found.is = "incomplete" /\ ~giveUp ->
                        [frames |-> <<>>, at |-> at]
                  [] OTHER -> scan[at + Resynchronize(rest)]
    IN  scan

Scan(input, base, giveUp) == ScanFrom(input, base, giveUp)[0]

(* Where the buffer's first byte is in the stream, with n bytes taken.     *)
Base(n) == n - Len(buffer)

(* What the decoder made of the frames handed to it.                       *)
decoded ==
    [i \in DOMAIN frames |->
        Meaning(stream[frames[i].from + 3], SubSeq(stream, frames[i].from + 4, frames[i].to - 1))]

(* A scan hands its frames over and keeps what it is waiting for.          *)
HandOver(input, base, giveUp) ==
    LET scanned == Scan(input, base, giveUp) IN
    /\ frames' = frames \o scanned.frames
    /\ buffer' = SubSeq(input, scanned.at + 1, Len(input))
-----------------------------------------------------------------------------
Init ==
    /\ stream = <<>> /\ sent = {} /\ taken = 0 /\ settled = 0
    /\ buffer = <<>> /\ frames = <<>>
    /\ damage = [count |-> 0, here |-> FALSE]

(* The module writes a frame, and what it says is as it is meant: a chip   *)
(* under some flags, a sign of life, or something no decoder has seen.     *)
Payload(flags, record) ==
    <<TagKind, flags>> \o (IF Has(flags, ProtocolFlag) THEN <<Gen2>> ELSE <<>>)
        \o (IF Has(flags, DataFlag) THEN <<1, SOH>> ELSE <<>>)
        \o <<2 * Len(record)>> \o record

Meant ==
    {[opcode |-> ReadAnswer, data |-> Payload(flags, record),
      means |-> [is |-> "read", chip |-> Chip(record, Has(flags, ProtocolFlag))]]
        : flags \in Decodable, record \in Records}
    \cup {[opcode |-> NoTags, data |-> <<>>, means |-> [is |-> "alive"]]}
    \cup {[opcode |-> OtherAnswer, data |-> Payload(0, record), means |-> Fault]
        : record \in Records}
    \cup {[opcode |-> ReadAnswer, data |-> <<TagKind, 4, 0>> \o Tail(Tail(Payload(0, record))),
           means |-> Fault] : record \in Records}
    \cup {[opcode |-> ReadAnswer, data |-> Append(Payload(0, record), 0),
           means |-> Fault] : record \in Records}

Damage == damage' = [count |-> damage.count + 1, here |-> TRUE]

FrameIsSent ==
    /\ \E item \in Meant :
          LET bytes == Frame(item.opcode, item.data) IN
          /\ Len(item.data) <= MaxData
          /\ Len(stream) + Len(bytes) <= MaxStream
          /\ stream' = stream \o bytes
          /\ sent' = sent \cup {[from |-> Len(stream), to |-> Len(stream) + Len(bytes),
                                 means |-> item.means]}
    /\ UNCHANGED <<taken, settled, buffer, frames, damage>>

(* A byte of noise, or what is left of a frame that lost its tail.         *)
NoiseArrives ==
    /\ damage.count < MaxDamage
    /\ \/ \E byte \in Noise : stream' = Append(stream, byte)
       \/ \E record \in Records, cut \in 2..MaxFrame :
             LET bytes == Frame(ReadAnswer, Payload(0, record)) IN
             cut < Len(bytes) /\ stream' = stream \o SubSeq(bytes, 1, cut)
    /\ Len(stream') <= MaxStream
    /\ Damage
    /\ UNCHANGED <<sent, taken, settled, buffer, frames>>

(* Mutant: what a read leaves behind is dropped.                           *)
FeedForgetting ==
    \E n \in (taken + 1)..Len(stream) :
        /\ frames' = frames \o Scan(SubSeq(stream, taken + 1, n), taken, FALSE).frames
        /\ buffer' = <<>>
        /\ taken' = n
        /\ UNCHANGED <<stream, sent, settled, damage>>

(* Reassembler::feed: a read of the port brings any number of bytes.       *)
Feed ==
    \E n \in (taken + 1)..Len(stream) :
        /\ HandOver(buffer \o SubSeq(stream, taken + 1, n), Base(taken), FALSE)
        /\ taken' = n
        /\ UNCHANGED <<stream, sent, settled, damage>>

(* Reassembler::flush: a whole read timeout without a byte.  A frame in    *)
(* flight does not pause.                                                  *)
Quiet ==
    /\ taken = Len(stream) /\ buffer # <<>>
    /\ HandOver(buffer, Base(taken), TRUE)
    /\ settled' = taken
    /\ UNCHANGED <<stream, sent, taken, damage>>

(* The connection ends, anywhere in a frame: flush, and a new one.         *)
Cut ==
    /\ damage.count < MaxDamage
    /\ taken < Len(stream)
    /\ stream' = SubSeq(stream, 1, taken)
    /\ sent' = {f \in sent : f.to <= taken}
    /\ HandOver(buffer, Base(taken), TRUE)
    /\ settled' = taken
    /\ Damage
    /\ UNCHANGED taken

(* A new connection begins with a new reassembler.                         *)
Reopen ==
    /\ taken = Len(stream) /\ buffer = <<>> /\ stream # <<>>
    /\ stream' = <<>> /\ sent' = {} /\ taken' = 0 /\ settled' = 0
    /\ buffer' = <<>> /\ frames' = <<>>
    /\ damage' = [damage EXCEPT !.here = FALSE]

Next == FrameIsSent \/ NoiseArrives \/ Feed \/ Quiet \/ Cut \/ Reopen

Spec == Init /\ [][Next]_vars
-----------------------------------------------------------------------------
(***************************************************************************)
(* What must hold.                                                         *)
(***************************************************************************)

Places == [from : 0..MaxStream, to : 0..MaxStream]

(* The types; and never more held back than one frame could need.          *)
TypeOK ==
    /\ stream \in Seq(Bytes) /\ Len(stream) <= MaxStream
    /\ taken \in 0..Len(stream) /\ settled \in 0..taken
    /\ \A f \in sent : [from |-> f.from, to |-> f.to] \in Places
    /\ frames \in Seq(Places)
    /\ buffer \in Seq(Bytes) /\ Len(buffer) < MaxFrame
    /\ damage \in [count : 0..MaxDamage, here : BOOLEAN]

(* However the port's reads cut the stream, between two silences it is     *)
(* taken apart as if it had come in one piece: that is what was handed     *)
(* over last, and exactly the rest is held back.                           *)
ChunkingDoesNotMatter ==
    LET since == SubSeq(stream, settled + 1, taken)
        whole == Scan(since, settled, FALSE)
    IN  /\ buffer = SubSeq(since, whole.at + 1, Len(since))
        /\ \E n \in 0..Len(frames) :
              /\ \A i \in 1..n : frames[i].to <= settled
              /\ SubSeq(frames, n + 1, Len(frames)) = whole.frames

At(frame) == [from |-> frame.from, to |-> frame.to]

Overlap(f, g) == f.from < g.to /\ g.from < f.to

(* Noise happened to form a frame of its own with some of another's bytes. *)
Accident(frame, other) == Overlap(frame, other) /\ \A f \in sent : frame.from # f.from

(* No frame that came through whole is lost, whatever was lost before it:  *)
(* it is handed over, in its place, unless an accident had some of it; and *)
(* nothing is handed over twice.                                           *)
NoFrameIsLost ==
    /\ \A f \in sent : f.to <= taken - Len(buffer) =>
          \E i \in DOMAIN frames : frames[i] = At(f) \/ Accident(frames[i], f)
    /\ \A i, j \in DOMAIN frames : i < j => frames[i].to <= frames[j].from

(* On a line nothing has disturbed, what is decoded is what was meant:     *)
(* nothing but what was sent, none made out of another's payload, the chip *)
(* that was read, and a fault for whatever has a layout nobody has seen.   *)
MeantAsDecoded ==
    ~damage.here =>
        \A i \in DOMAIN frames : \E f \in sent : frames[i] = At(f) /\ decoded[i] = f.means
=============================================================================
