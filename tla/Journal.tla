------------------------------ MODULE Journal ------------------------------
(***************************************************************************)
(* The write-ahead journal of splitforge-storage as splitforge-edge runs   *)
(* it: every read goes to the sidecar and through fsync, then into a       *)
(* database transaction, and is acknowledged when the commit returns.      *)
(*                                                                         *)
(* Two processes hold the files.  The service appends reads, one at a      *)
(* time, retrying the same read until it is stored, and runs recovery when *)
(* it starts.  "splitforge recover" is a second process that runs the same *)
(* recovery over the whole sidecar.  Around them the disk fills, fsync     *)
(* fails, processes die, the power fails, lines rot, and an operator takes *)
(* and restores snapshots.                                                 *)
(***************************************************************************)
EXTENDS Sidecar

CONSTANTS
    Unstorable,       \* the reads carrying a value the schema cannot hold
    Legacy,           \* the rows written before the sidecar existed, in order
    Service,          \* the process that appends: splitforge-edge
    Recover,          \* the process that repairs: splitforge recover
    Nobody,           \* holder of a write lock that is free
    RecoverMayRunBesideService,  \* whether recover is run while the service is up
    RecoverySettlesTheFile,      \* whether lines recovery has read are on the disk
    MaxDisturbances,  \* bound on failures, crashes and operator commands
    MaxLines          \* bound on the sidecar, for the retries that never end

Processes == {Service, Recover}

ASSUME ProcessesAreDistinct ==
    Service # Recover /\ Nobody \notin Processes

ASSUME LegacyIsStorable ==
    Unstorable \subseteq Reads /\ Legacy \in Seq(Reads \ Unstorable)
        /\ \A i, j \in DOMAIN Legacy : Legacy[i] = Legacy[j] => i = j

ASSUME SwitchesAndBounds ==
    /\ RecoverMayRunBesideService \in BOOLEAN
    /\ RecoverySettlesTheFile \in BOOLEAN
    /\ MaxDisturbances \in Nat /\ MaxLines \in Nat

VARIABLES
    sidecar,       \* the lines of the sidecar file
    synced,        \* how many of them have been through fsync
    db,            \* the committed database
    snapshot,      \* the database as the last backup wrote it
    writer,        \* who holds SQLite's write lock, or Nobody
    pc,            \* where each process is
    pass,          \* what each process's recovery pass found
    tip,           \* Sidecar::tip of each process's handle
    unconfirmed,   \* SqliteJournal::unconfirmed of the service's handle
    hand,          \* the read the service's store loop holds, or NoRead
    arrived,       \* the reads the reader has reported
    acknowledged,  \* the reads the service has counted as persisted
    damaged,       \* the reads one of whose lines has rotted
    disturbances   \* how many disturbances there have been

vars == <<sidecar, synced, db, snapshot, writer, pc, pass, tip, unconfirmed,
          hand, arrived, acknowledged, damaged, disturbances>>

files  == <<sidecar, synced, damaged>>
stores == <<db, snapshot, writer>>
loop   == <<hand, arrived, acknowledged>>

(* The latest row of sidecar_checkpoints: a line of the sidecar, and the   *)
(* highest raw_reads.seq when it was recorded.                             *)
Checkpoints == [at : Tips, through : Nat]
NoCheckpoint == [at |-> NoTip, through |-> 0]

(* rows is raw_reads in the order of seq; replayed and setAside are the    *)
(* reads named by an audit row, journal.replay or journal.unstorable.      *)
Databases == [rows : Seq(Reads), replayed : SUBSET Reads,
              setAside : SUBSET Reads, checkpoint : Checkpoints]
EmptyDatabase == [rows |-> <<>>, replayed |-> {}, setAside |-> {},
                  checkpoint |-> NoCheckpoint]

Stored(database) == ToSet(database.rows)

Passes == [replay : SUBSET [end : Nat, read : Reads], backfill : SUBSET Reads,
           verified : Tips]
NoPass == [replay |-> {}, backfill |-> {}, verified |-> NoTip]

Starting  == {"commit", "backfill", "checkpoint"}
Appending == {"write", "insert", "tail", "retry"}
Running   == {"idle"} \cup Appending

TypeOK ==
    /\ sidecar \in Seq(Lines)
    /\ synced \in 0..Len(sidecar)
    /\ db \in Databases
    /\ snapshot \in Databases
    /\ writer \in Processes \cup {Nobody}
    /\ pc \in [Processes -> {"down"} \cup Starting \cup Running]
    /\ pass \in [Processes -> Passes]
    /\ tip \in [Processes -> Tips]
    /\ unconfirmed \in BOOLEAN
    /\ hand \in Reads \cup {NoRead}
    /\ arrived \subseteq Reads
    /\ acknowledged \subseteq Reads
    /\ damaged \subseteq Reads
    /\ disturbances \in 0..MaxDisturbances

Init ==
    /\ sidecar = <<>>
    /\ synced = 0
    /\ db = [EmptyDatabase EXCEPT !.rows = Legacy]
    /\ snapshot = EmptyDatabase
    /\ writer = Nobody
    /\ pc = [p \in Processes |-> "down"]
    /\ pass = [p \in Processes |-> NoPass]
    /\ tip = [p \in Processes |-> NoTip]
    /\ unconfirmed = FALSE
    /\ hand = NoRead
    /\ arrived = ToSet(Legacy)
    /\ acknowledged = {}
    /\ damaged = {}
    /\ disturbances = 0

Disturb == disturbances < MaxDisturbances /\ disturbances' = disturbances + 1
Calm == UNCHANGED disturbances

Goto(p, place) == pc' = [pc EXCEPT ![p] = place]

(* A process is gone, with what it held in memory and its transaction.     *)
Gone(ps) ==
    /\ pc' = [p \in Processes |-> IF p \in ps THEN "down" ELSE pc[p]]
    /\ pass' = [p \in Processes |-> IF p \in ps THEN NoPass ELSE pass[p]]
    /\ tip' = [p \in Processes |-> IF p \in ps THEN NoTip ELSE tip[p]]
    /\ writer' = IF writer \in ps THEN Nobody ELSE writer
    /\ IF Service \in ps THEN unconfirmed' = FALSE /\ hand' = NoRead
       ELSE UNCHANGED <<unconfirmed, hand>>

(* Where a recovery that has finished leaves its process.                  *)
Done(p) == IF p = Service THEN "idle" ELSE "down"

MayWrite(p) == writer \in {Nobody, p}
-----------------------------------------------------------------------------
(***************************************************************************)
(* Checkpoints (ADR-0037).                                                 *)
(***************************************************************************)

(* usable_checkpoint: the rows still reach through_seq, and the file still *)
(* has the recorded line where it was.                                     *)
UsableCheckpoint(database, file) ==
    /\ database.checkpoint.through <= Len(database.rows)
    /\ EndsWithLine(file, database.checkpoint.at)

(* Mutant: unconfirmed is not looked at.                                   *)
CheckpointDueUnconfirmed(p) == tip[p] # NoTip /\ tip[p] # db.checkpoint.at

(* checkpoint(): nothing is recorded while a line is waiting for its row,  *)
(* by a handle that has written nothing, or where the latest already is.   *)
CheckpointDue(p) ==
    /\ ~(p = Service /\ unconfirmed)
    /\ tip[p] # NoTip
    /\ tip[p] # db.checkpoint.at

WithCheckpoint(p) ==
    IF CheckpointDue(p)
    THEN [db EXCEPT !.checkpoint = [at |-> tip[p], through |-> Len(db.rows)]]
    ELSE db
-----------------------------------------------------------------------------
(***************************************************************************)
(* Recovery: open_recovering when the service starts, reconcile when an    *)
(* operator runs recover.                                                  *)
(***************************************************************************)

(* Only the service starts from a checkpoint.                              *)
StartOf(p) ==
    IF p = Service /\ UsableCheckpoint(db, sidecar) THEN db.checkpoint ELSE NoCheckpoint

(* pass(): what is in one copy and not in the other, after the start.      *)
Found(start) ==
    LET last == LastVerified(sidecar, start.at.end)
        recent == {db.rows[n] : n \in (start.through + 1)..Len(db.rows)}
    IN  [replay   |-> FirstCopies(sidecar, start.at.end, Stored(db)),
         backfill |-> recent \ Verified(sidecar, start.at.end),
         verified |-> IF last # NoTip THEN last ELSE start.at]

OtherIsDown(p) == \A q \in Processes \ {p} : pc[q] = "down"

(* The process opens its handle, reads the rows and the lines, and inserts *)
(* what is missing.  The first insert takes the write lock.                *)
Scan(p) ==
    /\ pc[p] = "down"
    /\ RecoverMayRunBesideService \/ OtherIsDown(p)
    /\ IF p = Service THEN Calm ELSE Disturb
    /\ LET found == Found(StartOf(p))
       IN  /\ pass' = [pass EXCEPT ![p] = found]
           /\ IF found.replay = {} THEN UNCHANGED writer
              ELSE writer = Nobody /\ writer' = p
    /\ synced' = IF RecoverySettlesTheFile THEN Len(sidecar) ELSE synced
    /\ tip' = [tip EXCEPT ![p] = NoTip]
    /\ Goto(p, "commit")
    /\ UNCHANGED <<sidecar, damaged, db, snapshot, unconfirmed, loop>>

(* insert_one: raw_reads.id is unique, and every value must fit its column. *)
Refused(r) == r \in Stored(db) \cup Unstorable

Accepted(lines) ==
    /\ \A s, t \in lines : s.read = t.read => s = t
    /\ \A t \in lines : ~Refused(t.read)

(* The order of the sidecar, in which a replay inserts; and the order of   *)
(* seq, in which a backfill writes.                                        *)
InFileOrder(lines) ==
    {ls \in SetToSeqs(lines) : \A i, j \in DOMAIN ls : i < j => ls[i].end < ls[j].end}

InSeqOrder(reads) ==
    {rs \in SetToSeqs(reads) : \A i, j \in DOMAIN rs : i < j =>
        \E m, n \in DOMAIN db.rows : m < n /\ db.rows[m] = rs[i] /\ db.rows[n] = rs[j]}

(* One transaction: every read the pass found, and the audit row that      *)
(* names them.                                                             *)
CommitReplay(p) ==
    /\ pc[p] = "commit"
    /\ Accepted(pass[p].replay)
    /\ \E lines \in InFileOrder(pass[p].replay) :
          LET reads == [i \in DOMAIN lines |-> lines[i].read]
          IN  db' = [db EXCEPT !.rows = @ \o reads, !.replayed = @ \cup ToSet(reads)]
    /\ writer' = IF writer = p THEN Nobody ELSE writer
    /\ Goto(p, "backfill")
    /\ Calm
    /\ UNCHANGED <<files, snapshot, pass, tip, unconfirmed, loop>>

(* Rows the sidecar lacks are appended to it; with none, the handle's tip  *)
(* is the last line that verified.                                         *)
Backfill(p) ==
    /\ pc[p] = "backfill"
    /\ IF pass[p].backfill = {}
       THEN /\ tip' = IF pass[p].verified # NoTip
                      THEN [tip EXCEPT ![p] = pass[p].verified] ELSE tip
            /\ UNCHANGED <<sidecar, synced>>
       ELSE \E lines \in InSeqOrder(pass[p].backfill) :
            /\ sidecar' = sidecar \o lines
            /\ synced' = Len(sidecar')
            /\ tip' = [tip EXCEPT ![p] =
                          [end |-> Len(sidecar'), read |-> lines[Len(lines)]]]
    /\ Goto(p, "checkpoint")
    /\ Calm
    /\ UNCHANGED <<damaged, stores, pass, unconfirmed, loop>>

FinishRecovery(p) ==
    /\ pc[p] = "checkpoint"
    /\ CheckpointDue(p) => MayWrite(p)
    /\ db' = WithCheckpoint(p)
    /\ pass' = [pass EXCEPT ![p] = NoPass]
    /\ tip' = IF p = Service THEN tip ELSE [tip EXCEPT ![p] = NoTip]
    /\ Goto(p, Done(p))
    /\ Calm
    /\ UNCHANGED <<files, snapshot, writer, unconfirmed, loop>>

(* Any step of a recovery can fail, and the process ends: the transaction  *)
(* is rolled back, or the backfill is cut short.                           *)
RecoveryFails(p) ==
    /\ pc[p] \in Starting
    /\ IF pc[p] = "commit" /\ ~Accepted(pass[p].replay) THEN Calm ELSE Disturb
    /\ IF pc[p] = "backfill"
       THEN \E lines \in InSeqOrder(pass[p].backfill) :
                sidecar' \in Interrupted(sidecar, lines)
       ELSE UNCHANGED sidecar
    /\ Gone({p})
    /\ UNCHANGED <<synced, damaged, db, snapshot, arrived, acknowledged>>
-----------------------------------------------------------------------------
(***************************************************************************)
(* The read path: read_into_journal and its store loop, over insert_all.   *)
(***************************************************************************)

(* The next message is a read.                                             *)
TakeRead ==
    /\ pc[Service] = "idle"
    /\ \E r \in Reads \ arrived : hand' = r /\ arrived' = arrived \cup {r}
    /\ Goto(Service, "write")
    /\ Calm
    /\ UNCHANGED <<files, stores, pass, tip, unconfirmed, acknowledged>>

(* Mutant: the schema's limits are not checked before the line is written. *)
StorableUnchecked(r) == TRUE

Storable(r) == r \notin Unstorable

(* A read the schema cannot hold is refused before anything is written,    *)
(* recorded on the audit trail if that can be, and not tried again.        *)
SetAside ==
    /\ pc[Service] = "write"
    /\ ~Storable(hand)
    /\ \/ Calm /\ MayWrite(Service) /\ db' = [db EXCEPT !.setAside = @ \cup {hand}]
       \/ Disturb /\ UNCHANGED db
    /\ hand' = NoRead
    /\ Goto(Service, "idle")
    /\ UNCHANGED <<files, snapshot, writer, pass, tip, unconfirmed, arrived, acknowledged>>

(* Mutant: the line is written and not synced.                             *)
WriteLineUnsynced ==
    /\ pc[Service] = "write"
    /\ Storable(hand)
    /\ Len(sidecar) < MaxLines
    /\ unconfirmed' = TRUE
    /\ sidecar' = Append(sidecar, hand)
    /\ tip' = [tip EXCEPT ![Service] = [end |-> Len(sidecar'), read |-> hand]]
    /\ Goto(Service, "insert")
    /\ Calm
    /\ UNCHANGED <<synced, damaged, stores, pass, loop>>

(* The line is written and synced, and the handle's tip is its end.        *)
WriteLine ==
    /\ pc[Service] = "write"
    /\ Storable(hand)
    /\ Len(sidecar) < MaxLines
    /\ unconfirmed' = TRUE
    /\ sidecar' = Append(sidecar, hand)
    /\ synced' = Len(sidecar')
    /\ tip' = [tip EXCEPT ![Service] = [end |-> Len(sidecar'), read |-> hand]]
    /\ Goto(Service, "insert")
    /\ Calm
    /\ UNCHANGED <<damaged, stores, pass, loop>>

(* The write stops short or the fsync fails.                               *)
WriteFails ==
    /\ pc[Service] = "write"
    /\ Storable(hand)
    /\ unconfirmed' = TRUE
    /\ sidecar' \in Interrupted(sidecar, <<hand>>)
    /\ Goto(Service, "retry")
    /\ Disturb
    /\ UNCHANGED <<synced, damaged, stores, pass, tip, loop>>

(* The row is committed.  From here the read is durable.                   *)
InsertRow ==
    /\ pc[Service] = "insert"
    /\ ~Refused(hand)
    /\ MayWrite(Service)
    /\ db' = [db EXCEPT !.rows = Append(@, hand)]
    /\ unconfirmed' = FALSE
    /\ Goto(Service, "tail")
    /\ Calm
    /\ UNCHANGED <<files, snapshot, writer, pass, tip, loop>>

(* Mutant: a failed insert clears unconfirmed as a committed one does.     *)
InsertFailsConfirmed ==
    /\ pc[Service] = "insert"
    /\ IF Refused(hand) THEN Calm ELSE Disturb
    /\ unconfirmed' = FALSE
    /\ Goto(Service, "retry")
    /\ UNCHANGED <<files, stores, pass, tip, loop>>

(* The disk is full or the lock was held past the busy timeout; or the     *)
(* schema refuses the row, which no retry changes.                         *)
InsertFails ==
    /\ pc[Service] = "insert"
    /\ IF Refused(hand) THEN Calm ELSE Disturb
    /\ Goto(Service, "retry")
    /\ UNCHANGED <<files, stores, pass, tip, unconfirmed, loop>>

(* store sleeps with the lock released, then tries the same read again.    *)
Retry ==
    /\ pc[Service] = "retry"
    /\ Goto(Service, "write")
    /\ Calm
    /\ UNCHANGED <<files, stores, pass, tip, unconfirmed, loop>>

(* Mutant: a checkpoint that fails after the commit is returned as the     *)
(* insert's own failure.                                                   *)
AcknowledgeOrRetry ==
    /\ pc[Service] = "tail"
    /\ Calm
    /\ \/ /\ acknowledged' = acknowledged \cup {hand}
          /\ hand' = NoRead
          /\ Goto(Service, "idle")
       \/ Goto(Service, "retry") /\ UNCHANGED <<hand, acknowledged>>
    /\ UNCHANGED <<files, stores, pass, tip, unconfirmed, arrived>>

(* insert_all returns and the read is counted as persisted.  Once a minute *)
(* it records a checkpoint on its way out, and ignores a failure to.       *)
Acknowledge ==
    /\ pc[Service] = "tail"
    /\ \/ Calm /\ UNCHANGED db
       \/ Calm /\ MayWrite(Service) /\ db' = WithCheckpoint(Service)
    /\ acknowledged' = acknowledged \cup {hand}
    /\ hand' = NoRead
    /\ Goto(Service, "idle")
    /\ UNCHANGED <<files, snapshot, writer, pass, tip, unconfirmed, arrived>>
-----------------------------------------------------------------------------
(***************************************************************************)
(* What happens to the processes and the files.                            *)
(***************************************************************************)

(* checkpoint_before_exit, under the lock the store loop is not holding;   *)
(* a failure to record it is said and stops nothing.                       *)
StopService ==
    /\ pc[Service] \in {"idle", "retry"}
    /\ Disturb
    /\ \/ MayWrite(Service) /\ db' = WithCheckpoint(Service)
       \/ UNCHANGED db
    /\ Gone({Service})
    /\ UNCHANGED <<files, snapshot, arrived, acknowledged>>

(* A panic, a kill, or the exit on a poisoned lock: the files stay as they *)
(* are, synced or not.                                                     *)
ProcessDies(p) ==
    /\ pc[p] # "down"
    /\ Disturb
    /\ Gone({p})
    /\ UNCHANGED <<files, db, snapshot, arrived, acknowledged>>

(* Lines that were never synced may be gone, or end in a torn one.  What   *)
(* is left is on the disk.                                                 *)
PowerCut ==
    /\ Disturb
    /\ sidecar' \in AfterPowerCut(sidecar, synced)
    /\ synced' = Len(sidecar')
    /\ Gone(Processes)
    /\ UNCHANGED <<damaged, db, snapshot, arrived, acknowledged>>

(* A synced line is damaged in place.                                      *)
LineRots ==
    /\ Disturb
    /\ \E i \in 1..synced :
          /\ sidecar[i] \in Reads
          /\ sidecar' = [sidecar EXCEPT ![i] = Rotted]
          /\ damaged' = damaged \cup {sidecar[i]}
    /\ UNCHANGED <<synced, stores, pc, pass, tip, unconfirmed, loop>>

(* backup create: VACUUM INTO sees what is committed, mid-race included.   *)
TakeSnapshot ==
    /\ Disturb
    /\ snapshot # db
    /\ snapshot' = db
    /\ UNCHANGED <<files, db, writer, pc, pass, tip, unconfirmed, loop>>

(* backup restore with everything stopped, or a database that is lost and  *)
(* created afresh.  The sidecar is not touched.                            *)
ReplaceDatabase ==
    /\ Disturb
    /\ \A p \in Processes : pc[p] = "down"
    /\ db' \in {snapshot, EmptyDatabase} \ {db}
    /\ UNCHANGED <<files, snapshot, writer, pc, pass, tip, unconfirmed, loop>>
-----------------------------------------------------------------------------
RecoveryStep(p) == Scan(p) \/ CommitReplay(p) \/ Backfill(p) \/ FinishRecovery(p)

ReadPath == SetAside \/ WriteLine \/ InsertRow \/ InsertFails \/ Retry \/ Acknowledge

Next ==
    \/ \E p \in Processes : RecoveryStep(p) \/ RecoveryFails(p) \/ ProcessDies(p)
    \/ TakeRead \/ ReadPath \/ WriteFails
    \/ StopService \/ PowerCut \/ LineRots \/ TakeSnapshot \/ ReplaceDatabase

Spec == Init /\ [][Next]_vars

(* The service and its recovery are scheduled whenever they can move:      *)
(* systemd restarts a service that is down, and nothing holds the store    *)
(* loop but the conditions it waits on.  Nothing obliges a read to arrive, *)
(* and disturbances end because they are bounded.                          *)
FairSpec ==
    /\ Spec
    /\ WF_vars(RecoveryStep(Service))
    /\ WF_vars(pc[Recover] # "down" /\ RecoveryStep(Recover))
    /\ WF_vars(SetAside \/ WriteLine \/ InsertRow \/ Retry \/ Acknowledge)
-----------------------------------------------------------------------------
(***************************************************************************)
(* What must hold.                                                         *)
(***************************************************************************)

(* Once a start has recovered, every read ever counted as persisted is in  *)
(* the database, whatever crashes, power cuts, retries and restored        *)
(* snapshots came between; unless the medium rotted its line.              *)
AcknowledgedComesBack ==
    pc[Service] \in Running => acknowledged \ damaged \subseteq Stored(db)

(* While the service runs, every row has a line in the sidecar or had one  *)
(* that rotted, rows from before the sidecar existed included; and the     *)
(* only line without a row is that of the read in its hand: a start leaves *)
(* nothing behind, even where it trusted a checkpoint and read only what   *)
(* comes after it.                                                         *)
CopiesAgree ==
    pc[Service] \in Running =>
        /\ Stored(db) \subseteq Verified(sidecar, 0) \cup damaged
        /\ Verified(sidecar, 0) \subseteq Stored(db) \cup {hand}

(* What a checkpoint claims, wherever one that would be trusted is kept:   *)
(* every read in the sidecar before it is in raw_reads, and every row up   *)
(* to through_seq has, or had, its line before it.                         *)
CheckpointIsTrue(database) ==
    UsableCheckpoint(database, sidecar) =>
        LET before == VerifiedUpTo(sidecar, database.checkpoint.at.end)
            rows == {database.rows[n] : n \in 1..database.checkpoint.through}
        IN  before \subseteq Stored(database) /\ rows \subseteq before \cup damaged

CheckpointClaim == CheckpointIsTrue(db) /\ CheckpointIsTrue(snapshot)

(* The read the store loop is retrying can still be inserted: the database *)
(* does not already hold its id, which would fail every retry for ever.    *)
RetryCanLand ==
    pc[Service] \in {"write", "insert", "retry"} => hand \notin Stored(db)

(* The replay transaction is never one the schema refuses, which would     *)
(* fail this start and every start after it.                               *)
ReplayIsAccepted ==
    \A p \in Processes : pc[p] = "commit" => Accepted(pass[p].replay)

(* A read the store loop takes up is stored or set aside.                  *)
EveryReadIsSettled ==
    \A r \in Reads : hand = r ~> hand # r

(* A service that is down recovers and reads again.                        *)
ServiceComesBack == pc[Service] = "down" ~> pc[Service] = "idle"

(* The journal keeps the promise of the abstract log.  What a recovery has *)
(* read and not yet committed is held as long as its process lives.        *)
InAPass == {t.read : t \in UNION {pass[p].replay : p \in Processes}}

Evidence == INSTANCE EvidenceLog WITH
                held <- Stored(db) \cup Stored(snapshot) \cup Verified(sidecar, 0) \cup InAPass

EvidenceIsKept == Evidence!Spec
=============================================================================
