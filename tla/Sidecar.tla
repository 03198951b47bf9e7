------------------------------ MODULE Sidecar ------------------------------
(***************************************************************************)
(* The write-ahead sidecar file of splitforge-storage, src/sidecar.rs, as  *)
(* a sequence of lines, and the passes the journal makes over it.          *)
(*                                                                         *)
(* A line is the read it carries once its digest verifies.  Two values     *)
(* stand for what does not verify: Torn, the remains of an interrupted     *)
(* write that a later line is appended onto, and Rotted, a complete line   *)
(* damaged in place.  An offset in the file is a number of lines.          *)
(***************************************************************************)
EXTENDS Integers, SequencesExt

CONSTANTS
    Reads,   \* the reads a reader can report, each under an id of its own
    NoRead,  \* the absence of a read
    Torn,    \* what an interrupted write leaves behind
    Rotted   \* a line that no longer verifies

ASSUME ReadsAreFinite == IsFiniteSet(Reads)

ASSUME MarksAreNotReads ==
    /\ NoRead \notin Reads /\ Torn \notin Reads /\ Rotted \notin Reads
    /\ NoRead # Torn /\ NoRead # Rotted /\ Torn # Rotted

Lines == Reads \cup {Torn, Rotted}

(* A line's end and the digest it carries, which is of its content and so  *)
(* stands for the read: Sidecar::tip, and what a checkpoint records.       *)
Tips == [end : Nat, read : Reads \cup {NoRead}]
NoTip == [end |-> 0, read |-> NoRead]

(* scan_from: the reads of the lines after an offset that verify.  A line  *)
(* behind a torn write is found; a damaged one is skipped.                 *)
Verified(file, from) == {file[i] : i \in (from + 1)..Len(file)} \cap Reads

(* The reads of the lines up to an offset.                                 *)
VerifiedUpTo(file, end) == {file[i] : i \in 1..end} \cap Reads

(* Mutant: every copy of a read is handed over.                            *)
EveryCopy(file, from, stored) ==
    {[end |-> i, read |-> file[i]] :
        i \in {j \in (from + 1)..Len(file) : file[j] \in Reads \ stored}}

(* Mutant: a scan ends at the first line that does not verify.             *)
CopiesBeforeDamage(file, from, stored) ==
    LET sound == {i \in (from + 1)..Len(file) : \A j \in (from + 1)..i : file[j] \in Reads}
        unstored == {i \in sound : file[i] \notin stored}
    IN  {[end |-> i, read |-> file[i]] :
            i \in {j \in unstored : \A k \in unstored : k < j => file[k] # file[j]}}

(* The lines a pass hands to the replay: those whose read is not stored,   *)
(* each read once, at its first copy.  A retried append leaves a second.   *)
FirstCopies(file, from, stored) ==
    LET unstored == {i \in (from + 1)..Len(file) : file[i] \in Reads \ stored}
    IN  {[end |-> i, read |-> file[i]] :
            i \in {j \in unstored : \A k \in unstored : k < j => file[k] # file[j]}}

(* Mutant: the last line, whether or not it verifies.                      *)
LastLine(file, from) ==
    IF Len(file) <= from THEN NoTip ELSE [end |-> Len(file), read |-> file[Len(file)]]

(* ScanTally::last_verified: the last line after an offset that verifies.  *)
LastVerified(file, from) ==
    LET good == {i \in (from + 1)..Len(file) : file[i] \in Reads}
        last == CHOOSE i \in good : \A j \in good : j <= i
    IN  IF good = {} THEN NoTip ELSE [end |-> last, read |-> file[last]]

(* ends_with_line: the file is long enough, and the line that ends there   *)
(* is the one recorded.  An offset of zero never matches.                  *)
EndsWithLine(file, tip) ==
    /\ tip.end \in 1..Len(file)
    /\ file[tip.end] = tip.read

(* append_records when write_all or sync_all fails: some of the lines are  *)
(* in the file, perhaps all, and perhaps the start of the next one.        *)
Interrupted(file, lines) ==
    {file \o SubSeq(lines, 1, n) : n \in 0..Len(lines)}
        \cup {Append(file \o SubSeq(lines, 1, n), Torn) : n \in 0..(Len(lines) - 1)}

(* What a power cut can leave of a file whose first "synced" lines have    *)
(* been through fsync.                                                     *)
AfterPowerCut(file, synced) ==
    {SubSeq(file, 1, n) : n \in synced..Len(file)}
        \cup {Append(SubSeq(file, 1, n), Torn) : n \in synced..(Len(file) - 1)}
=============================================================================
