------------------------------ MODULE Database ------------------------------
(***************************************************************************)
(* The event database as a file: opened and migrated by whoever opens it   *)
(* first, refused where its schema is another's, snapshotted, and replaced *)
(* by a snapshot with everything that was there moved aside.               *)
(*                                                                         *)
(* A database is a file and, while it is in use or after a crash, the      *)
(* write-ahead log beside it, which SQLite finds by its name alone.  What  *)
(* either holds is a set of commits: migrations, by their version, and     *)
(* rows, numbered after them.  A restore is run with the service stopped,  *)
(* and beside no other command.                                            *)
(***************************************************************************)
EXTENDS Naturals, FiniteSets

CONSTANTS
    Writers,      \* processes that open the database: the service, the commands
    Readers,      \* processes that open it for reading only: the shipper
    Supported,    \* SCHEMA_VERSION
    Newest,       \* the newest schema of any build
    Stamps,       \* the seconds a restore may be run in
    MaxFiles,     \* bound on the database files there ever are
    MaxRows,      \* bound on the rows committed
    MaxMishaps,   \* bound on kills and power cuts
    Careful       \* whether no restore is cut between its renames, and no two
                  \* are run in one second

ASSUME DatabaseAssumption ==
    /\ {Supported, Newest, MaxFiles, MaxRows, MaxMishaps} \subseteq Nat
    /\ 0 < Supported /\ Supported <= Newest /\ 0 < MaxFiles
    /\ Careful \in BOOLEAN

VARIABLES
    files,      \* every file there has been: what it holds, what its log holds
    place,      \* which of them is at the database's path, 0 for none
    beside,     \* whose log is at the path of the database's log, 0 for none
    aside,      \* what is at the superseded paths of each second
    snapshot,   \* the file backup create wrote
    at,         \* what each process has open, and the migration it is at
    restore,    \* where the restore is
    rows,       \* how many rows have been committed
    mishaps

vars == <<files, place, beside, aside, snapshot, at, restore, rows, mishaps>>
-----------------------------------------------------------------------------
Files == 1..MaxFiles
Migrations == 1..Newest
None == 0

(* own is history: what was committed to the file or copied into it.       *)
NoFile == [state |-> "none", main |-> {}, log |-> {}, own |-> {}]
NoSnapshot == [there |-> FALSE, holds |-> {}]
NothingOpen == [file |-> None, next |-> 0]
NoRestore == [step |-> "none", stamp |-> 0]

(* schema_version: the newest migration recorded, or none.                 *)
VersionOf(commits) ==
    LET applied == commits \cap Migrations IN
    IF applied = {} THEN 0 ELSE CHOOSE v \in applied : \A w \in applied : w <= v

(* schema_differences: the objects are those its version's migrations make.*)
SchemaIsItsVersions(commits) == commits \cap Migrations = 1..VersionOf(commits)

(* What a process that has the file open sees: it and its log.             *)
Held(f) == files[f].main \cup files[f].log

IsOpen(p) == at[p].file # None /\ at[p].next > Supported
Holders(f) == {p \in Writers \cup Readers : at[p].file = f}
NobodyHasItOpen == \A p \in Writers \cup Readers : at[p] = NothingOpen
Unused == {f \in Files : files[f].state = "none"}
Lowest(S) == CHOOSE f \in S : \A g \in S : f <= g

(* The database of another build, or of this one, or none, left by a       *)
(* process that closed it, and a snapshot somebody may have.               *)
Init ==
    /\ \E v \in 0..Newest :
        /\ place = IF v = 0 THEN None ELSE 1
        /\ files = [f \in Files |-> IF f = place
                     THEN [state |-> "whole", main |-> 1..v, log |-> {}, own |-> 1..v] ELSE NoFile]
    /\ \E v \in 0..Newest :
        snapshot = IF v = 0 THEN NoSnapshot ELSE [there |-> TRUE, holds |-> 1..v]
    /\ beside = None
    /\ aside = [s \in Stamps |-> [main |-> None, log |-> None]]
    /\ at = [p \in Writers \cup Readers |-> NothingOpen]
    /\ restore = NoRestore /\ rows = 0 /\ mishaps = 0
-----------------------------------------------------------------------------
(***************************************************************************)
(* connection.rs                                                           *)
(***************************************************************************)

(* The path is opened.  A file is made if there is none, and whatever log  *)
(* was beside it is deleted; a log that is there beside a file is the      *)
(* file's, whosever it was.                                                *)
TakeFile(f) ==
    /\ f = IF place = None THEN Lowest(Unused) ELSE place
    /\ place' = f
    /\ beside' = f
    /\ files' = [files EXCEPT
            ![f] = IF place = None THEN [NoFile EXCEPT !.state = "whole"]
                   ELSE IF beside \in {None, f} THEN @
                   ELSE [@ EXCEPT !.log = files[beside].log]]

(* Mutant: a newer schema is opened like any other.                        *)
BeginRegardless(p) ==
    /\ restore = NoRestore /\ at[p] = NothingOpen
    /\ place # None => files[place].state = "whole"
    /\ place = None => Unused # {}
    /\ \E f \in Files :
        /\ TakeFile(f)
        /\ at' = [at EXCEPT ![p] = [file |-> f, next |-> VersionOf(files'[f].main \cup files'[f].log) + 1]]
    /\ UNCHANGED <<aside, snapshot, restore, rows, mishaps>>

(* open, configure, and migrate as far as the version it reads.  A file    *)
(* cut short is malformed, and a newer schema is refused; the next to open *)
(* either finds it as it was.                                              *)
Begin(p) ==
    /\ restore = NoRestore /\ at[p] = NothingOpen
    /\ place # None => files[place].state = "whole"
    /\ place = None => Unused # {}
    /\ \E f \in Files :
        /\ TakeFile(f)
        /\ LET version == VersionOf(files'[f].main \cup files'[f].log) IN
           /\ version <= Supported
           /\ at' = [at EXCEPT ![p] = [file |-> f, next |-> version + 1]]
    /\ UNCHANGED <<aside, snapshot, restore, rows, mishaps>>

(* A transaction on what p has open, in the log until the last close.      *)
Commits(f, commit) ==
    files' = [files EXCEPT ![f].log = @ \cup {commit}, ![f].own = @ \cup {commit}]

(* migrate: the next migration and the row that says so, in one            *)
(* transaction.  One that another process applied meanwhile fails, its     *)
(* objects being there, and so does the opening.                           *)
Migrate(p) ==
    LET f == at[p].file
        v == at[p].next
    IN  /\ f # None /\ ~IsOpen(p)
        /\ \/ /\ v \notin Held(f)
              /\ Commits(f, v)
              /\ at' = [at EXCEPT ![p].next = v + 1]
           \/ /\ v \in Held(f)
              /\ UNCHANGED files
              /\ at' = [at EXCEPT ![p] = NothingOpen]
        /\ UNCHANGED <<place, beside, aside, snapshot, restore, rows, mishaps>>

(* open_read_only: neither made nor migrated, and at no version but ours.  *)
BeginReading(p) ==
    /\ restore = NoRestore /\ at[p] = NothingOpen
    /\ place # None /\ files[place].state = "whole"
    /\ beside = place
    /\ VersionOf(Held(place)) = Supported
    /\ at' = [at EXCEPT ![p] = [file |-> place, next |-> Supported + 1]]
    /\ UNCHANGED <<files, place, beside, aside, snapshot, restore, rows, mishaps>>

(* Whatever a process does with it.                                        *)
Write(p) ==
    /\ IsOpen(p) /\ rows < MaxRows
    /\ rows' = rows + 1
    /\ Commits(at[p].file, Newest + rows')
    /\ UNCHANGED <<place, beside, aside, snapshot, at, restore, mishaps>>

(* The last to close takes the log into the file and deletes it.           *)
Close(p) ==
    LET f == at[p].file IN
    /\ f # None
    /\ at' = [at EXCEPT ![p] = NothingOpen]
    /\ IF p \in Writers /\ Holders(f) = {p}
       THEN /\ files' = [files EXCEPT ![f].main = Held(f), ![f].log = {}]
            /\ beside' = None
       ELSE UNCHANGED <<files, beside>>
    /\ UNCHANGED <<place, aside, snapshot, restore, rows, mishaps>>

(* The process is killed; what it committed stays in the log.              *)
Kill(p) ==
    /\ at[p].file # None
    /\ mishaps < MaxMishaps /\ mishaps' = mishaps + 1
    /\ at' = [at EXCEPT ![p] = NothingOpen]
    /\ UNCHANGED <<files, place, beside, aside, snapshot, restore, rows>>
-----------------------------------------------------------------------------
(***************************************************************************)
(* backup.rs                                                               *)
(***************************************************************************)

(* create: VACUUM INTO sees the log too, and overwrites nothing.           *)
TakeSnapshot(p) ==
    /\ IsOpen(p) /\ p \in Writers
    /\ ~snapshot.there
    /\ snapshot' = [there |-> TRUE, holds |-> Held(at[p].file)]
    /\ UNCHANGED <<files, place, beside, aside, at, restore, rows, mishaps>>

RestoreGoesOn(from, to) ==
    /\ restore.step = from
    /\ restore' = [restore EXCEPT !.step = to]
    /\ UNCHANGED <<snapshot, at, rows, mishaps>>

(* verify: whole, of no newer build, and nothing in its schema changed.    *)
Verified ==
    /\ snapshot.there
    /\ VersionOf(snapshot.holds) <= Supported
    /\ SchemaIsItsVersions(snapshot.holds)

(* restore, --replace: the snapshot is looked at before anything is moved. *)
StartRestore(stamp) ==
    /\ restore = NoRestore /\ NobodyHasItOpen
    /\ Verified
    /\ Cardinality(Unused) > 1
    /\ Careful => aside[stamp].main = None
    /\ restore' = [step |-> IF place = None THEN "copy" ELSE "database", stamp |-> stamp]
    /\ UNCHANGED <<files, place, beside, aside, snapshot, at, rows, mishaps>>

(* Mutant: the database is moved aside, and not the log with it.           *)
MoveDatabaseAlone ==
    /\ RestoreGoesOn("database", "copy")
    /\ aside' = [aside EXCEPT ![restore.stamp].main = place]
    /\ place' = None
    /\ UNCHANGED <<files, beside>>

(* A rename replaces what has the name.                                    *)
MoveDatabase ==
    /\ RestoreGoesOn("database", "log")
    /\ aside' = [aside EXCEPT ![restore.stamp].main = place]
    /\ place' = None
    /\ UNCHANGED <<files, beside>>

MoveLog ==
    /\ RestoreGoesOn("log", "copy")
    /\ aside' = [aside EXCEPT ![restore.stamp].log = IF beside = None THEN @ ELSE beside]
    /\ beside' = None
    /\ UNCHANGED <<files, place>>

StartCopy ==
    /\ RestoreGoesOn("copy", "copying")
    /\ place' = Lowest(Unused)
    /\ files' = [files EXCEPT ![place'] = [NoFile EXCEPT !.state = "partial"]]
    /\ UNCHANGED <<beside, aside>>

(* What is left to do is what anybody does who opens it.                   *)
EndCopy ==
    /\ restore.step = "copying"
    /\ restore' = NoRestore
    /\ files' = [files EXCEPT ![place] = [state |-> "whole", main |-> snapshot.holds,
                                          log |-> {}, own |-> snapshot.holds]]
    /\ UNCHANGED <<place, beside, aside, snapshot, at, rows, mishaps>>

(* The command is interrupted, or the power goes.                          *)
CutShort ==
    /\ restore # NoRestore
    /\ Careful => restore.step # "log" \/ beside = None
    /\ mishaps < MaxMishaps /\ mishaps' = mishaps + 1
    /\ restore' = NoRestore
    /\ UNCHANGED <<files, place, beside, aside, snapshot, at, rows>>

Next ==
    \/ \E p \in Writers : Begin(p) \/ Migrate(p) \/ Write(p) \/ TakeSnapshot(p)
    \/ \E p \in Readers : BeginReading(p)
    \/ \E p \in Writers \cup Readers : Close(p) \/ Kill(p)
    \/ \E stamp \in Stamps : StartRestore(stamp)
    \/ MoveDatabase \/ MoveLog \/ StartCopy \/ EndCopy \/ CutShort

Spec == Init /\ [][Next]_vars
-----------------------------------------------------------------------------
(* Where a file and its log can be found.                                  *)
FoundAt(f) == f = place \/ \E s \in Stamps : aside[s].main = f

LogFound(f) ==
    \/ f = place /\ beside = f
    \/ \E s \in Stamps : aside[s] = [main |-> f, log |-> f]

(* Every database there ever was is still there, at the path or moved      *)
(* aside, with every commit anybody was told of and no other's, however    *)
(* often it was restored over, whoever was killed and wherever a restore   *)
(* was interrupted.  The moment between the two renames is the one the     *)
(* code leaves open, see Careful.                                          *)
NothingIsLostOrGrafted ==
    \A f \in Files : files[f].state = "whole" =>
        /\ FoundAt(f)
        /\ files[f].own = files[f].main
             \cup (IF LogFound(f) \/ restore.step = "log" THEN files[f].log ELSE {})

(* Whatever opened at once, was killed between two migrations or was       *)
(* restored from an older build, the objects in a file are those of the    *)
(* version it says, and who has opened it has every one of this build's    *)
(* and none of a newer.                                                    *)
OpenIsOurs ==
    /\ \A f \in Files : SchemaIsItsVersions(Held(f))
    /\ \A p \in Writers \cup Readers :
          IsOpen(p) => Held(at[p].file) \cap Migrations = 1..Supported

DatabaseIsWhole == NothingIsLostOrGrafted /\ OpenIsOurs
=============================================================================
