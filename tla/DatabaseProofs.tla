--------------------------- MODULE DatabaseProofs ---------------------------
(***************************************************************************)
(* What TLAPS proves of the event database as a file, for every set of     *)
(* processes, every schema version and however many files, rows and        *)
(* mishaps there are: as long as no restore is cut between its two renames *)
(* and no two are run in one second, no database is lost and none is given *)
(* another's log, and what is open has the schema of this build.           *)
(***************************************************************************)
EXTENDS Database, FiniteSetTheorems, WellFoundedInduction, TLAPS

FileStates == [state : {"none", "partial", "whole"}, main : SUBSET Nat, log : SUBSET Nat,
               own : SUBSET Nat]

Paths == Files \cup {None}

Types ==
    /\ files \in [Files -> FileStates]
    /\ place \in Paths /\ beside \in Paths
    /\ aside \in [Stamps -> [main : Paths, log : Paths]]
    /\ snapshot.holds \in SUBSET Nat
    /\ at \in [Writers \cup Readers -> [file : Paths, next : Nat]]
    /\ \/ restore = NoRestore
       \/ restore \in [step : {"database", "log", "copy", "copying"}, stamp : Stamps]
    /\ rows \in Nat

(* What a file holds, its log with it.                                     *)
Holds(file) == file.main \cup file.log

(* What is open is the whole file at the path, with its own log beside it, *)
(* and no restore is under way.                                            *)
InUse ==
    \A p \in Writers \cup Readers : at[p].file # None =>
        /\ restore = NoRestore
        /\ at[p].file = place /\ beside = place
        /\ files[place].state = "whole"

(* Between the renames the log at the path is that of the database moved   *)
(* aside this second; before and after them it is that of the database at  *)
(* the path, or there is none.                                             *)
Renames ==
    /\ restore.step \in {"none", "database"} => beside \in {None, place}
    /\ restore.step = "database" => place # None /\ aside[restore.stamp].main = None
    /\ restore.step = "log" => place = None /\ beside \in {None, aside[restore.stamp].main}
    /\ restore.step = "copy" => place = None /\ beside = None
    /\ restore.step = "copying" => place # None /\ beside = None
    /\ restore.step \in {"database", "log", "copy"} => Unused # {}

(* A log that holds something is found beside its own database, or is      *)
(* about to be moved after it.                                             *)
NoneLost ==
    \A f \in Files : files[f].state = "whole" =>
        /\ FoundAt(f)
        /\ files[f].own = Holds(files[f])
        /\ files[f].log # {} => LogFound(f) \/ (restore.step = "log" /\ beside = f)

(* Commits with the migrations to a version and no other.                  *)
MigratedTo(commits, v) == commits \cap Migrations = 1..v

Schemas ==
    /\ \A f \in Files : \E v \in 0..Newest : MigratedTo(Holds(files[f]), v)
    /\ \E v \in 0..Newest : MigratedTo(snapshot.holds, v)
    /\ \A p \in Writers \cup Readers : at[p].file # None =>
          /\ at[p].next \in 1..(Supported + 1)
          /\ \E v \in 0..Supported :
                MigratedTo(Holds(files[at[p].file]), v) /\ at[p].next <= v + 1

IInv == Types /\ InUse /\ Renames /\ NoneLost /\ Schemas

-----------------------------------------------------------------------------
(* The unused file that is taken is unused.                                *)
LEMMA LowestFacts ==
    ASSUME NEW S \in SUBSET Nat, S # {}
    PROVE  Lowest(S) \in S
<1>1. PICK t \in S : \A u \in S : ~(<<u, t>> \in OpToRel(<, Nat))
  BY WFMin, NatLessThanWellFounded
<1>2. \A u \in S : ~(u < t)
  BY <1>1 DEF OpToRel
<1>3. \A u \in S : t <= u
  BY <1>2
<1> QED
  BY <1>3 DEF Lowest

(* Commits with the migrations to a version are of that version, and       *)
(* their schema is that version's.                                         *)
LEMMA VersionFacts ==
    ASSUME NEW commits, NEW v \in 0..Newest, MigratedTo(commits, v)
    PROVE  VersionOf(commits) = v /\ SchemaIsItsVersions(commits)
<1>1. commits \cap Migrations = 1..v
  BY DEF MigratedTo
<1>2. CASE v = 0
  <2>1. commits \cap Migrations = {}
    BY <1>1, <1>2
  <2>2. VersionOf(commits) = 0
    BY <2>1 DEF VersionOf
  <2> QED
    BY <1>1, <1>2, <2>2 DEF SchemaIsItsVersions
<1>3. CASE v # 0
  <2>1. v \in 1..v /\ 1..v # {} /\ \A w \in 1..v : w <= v
    BY <1>3
  <2>2. \A u \in 1..v : (\A w \in 1..v : w <= u) => u = v
    BY <2>1
  <2>3. VersionOf(commits) = CHOOSE u \in 1..v : \A w \in 1..v : w <= u
    BY <1>1, <2>1 DEF VersionOf
  <2>4. VersionOf(commits) = v
    BY <2>1, <2>2, <2>3
  <2> QED
    BY <1>1, <2>4 DEF SchemaIsItsVersions
<1> QED
  BY <1>2, <1>3

(* Opening the path takes the database that is there, with its own log,    *)
(* or makes one that holds nothing.                                        *)
LEMMA Taken ==
    ASSUME Types, Renames, restore = NoRestore, place = None => Unused # {},
           NEW f \in Files, TakeFile(f)
    PROVE  /\ place' = f /\ beside' = f
           /\ \/ f = place /\ files' = files
              \/ /\ place = None /\ files[f].state = "none"
                 /\ files' = [files EXCEPT ![f] = [NoFile EXCEPT !.state = "whole"]]
<1>1. place = None => Lowest(Unused) \in Unused
  BY LowestFacts, DatabaseAssumption DEF Unused, Files
<1>2. place # None => beside \in {None, place}
  BY DEF Renames, NoRestore
<1> QED
  BY <1>1, <1>2 DEF Types, TakeFile, Unused, None, Files

(* A file just made holds nothing.                                         *)
LEMMA NewFile ==
    /\ [NoFile EXCEPT !.state = "whole"] =
          [state |-> "whole", main |-> {}, log |-> {}, own |-> {}]
    /\ [NoFile EXCEPT !.state = "partial"] =
          [state |-> "partial", main |-> {}, log |-> {}, own |-> {}]
BY DEF NoFile

(* A commit is added to the log and the history of one file.               *)
LEMMA Committed ==
    ASSUME Types, NEW f \in Files, NEW commit \in Nat, Commits(f, commit)
    PROVE  /\ files' \in [Files -> FileStates]
           /\ \A g \in Files : files'[g].state = files[g].state /\ files'[g].main = files[g].main
           /\ \A g \in Files \ {f} : files'[g] = files[g]
           /\ Holds(files'[f]) = Holds(files[f]) \cup {commit}
           /\ files'[f].own = files[f].own \cup {commit}
<1> DEFINE new == [files[f] EXCEPT !.log = @ \cup {commit}, !.own = @ \cup {commit}]
<1>1. new \in FileStates
  BY ZenonT(60) DEF Types, FileStates
<1>2. /\ new.state = files[f].state /\ new.main = files[f].main
      /\ new.log = files[f].log \cup {commit} /\ new.own = files[f].own \cup {commit}
  BY DEF Types, FileStates
<1>3. files' = [files EXCEPT ![f] = new]
  BY DEF Commits, Types, FileStates
<1> HIDE DEF new
<1> QED
  BY <1>1, <1>2, <1>3 DEF Types, Holds

(* The last to close leaves the file with its log taken in.                *)
LEMMA TakenIn ==
    ASSUME Types, NEW f \in Files, files' = [files EXCEPT ![f].main = Held(f), ![f].log = {}]
    PROVE  /\ files' \in [Files -> FileStates]
           /\ \A g \in Files : files'[g].state = files[g].state /\ files'[g].own = files[g].own
           /\ \A g \in Files : Holds(files'[g]) = Holds(files[g])
           /\ \A g \in Files \ {f} : files'[g] = files[g]
           /\ files'[f].log = {}
<1> DEFINE new == [files[f] EXCEPT !.main = Held(f), !.log = {}]
<1>1. new \in FileStates
  BY ZenonT(60) DEF Types, FileStates, Held
<1>2. /\ new.state = files[f].state /\ new.own = files[f].own
      /\ new.main = Held(f) /\ new.log = {}
  BY DEF Types, FileStates
<1>3. files' = [files EXCEPT ![f] = new]
  BY DEF Types, FileStates
<1> HIDE DEF new
<1>4. files' \in [Files -> FileStates]
  BY <1>1, <1>3 DEF Types
<1>5. files'[f] = new /\ \A g \in Files \ {f} : files'[g] = files[g]
  BY <1>3 DEF Types
<1>6. Holds(new) = Holds(files[f])
  BY <1>2 DEF Held, Holds
<1> QED
  BY <1>2, <1>4, <1>5, <1>6

(* The restore goes on, and nothing it does not touch moves.               *)
LEMMA RestoreSteps ==
    ASSUME Types, NEW from, NEW to \in {"log", "copy", "copying"}, from # "none",
           RestoreGoesOn(from, to)
    PROVE  /\ restore.step = from /\ restore.stamp \in Stamps
           /\ restore' \in [step : {"database", "log", "copy", "copying"}, stamp : Stamps]
           /\ restore'.step = to /\ restore'.stamp = restore.stamp
           /\ UNCHANGED <<snapshot, at, rows>>
<1>1. restore \in [step : {"database", "log", "copy", "copying"}, stamp : Stamps]
  BY DEF Types, RestoreGoesOn, NoRestore
<1> QED
  BY <1>1 DEF RestoreGoesOn

(* What a process has open.                                                *)
LEMMA AtUpdates ==
    ASSUME Types, NEW p \in Writers \cup Readers, NEW n \in Nat
    PROVE  /\ [at EXCEPT ![p].next = n] \in [Writers \cup Readers -> [file : Paths, next : Nat]]
           /\ [at EXCEPT ![p].next = n][p] = [file |-> at[p].file, next |-> n]
           /\ [at EXCEPT ![p] = NothingOpen]
                 \in [Writers \cup Readers -> [file : Paths, next : Nat]]
           /\ [at EXCEPT ![p] = NothingOpen][p] = NothingOpen
           /\ \A q \in (Writers \cup Readers) \ {p} :
                 /\ [at EXCEPT ![p].next = n][q] = at[q]
                 /\ [at EXCEPT ![p] = NothingOpen][q] = at[q]
BY DEF Types, NothingOpen, Paths, None

(* What is found at the paths of a second.                                 *)
LEMMA AsideUpdates ==
    ASSUME Types, NEW stamp \in Stamps, NEW f \in Paths
    PROVE  /\ [aside EXCEPT ![stamp].main = f] \in [Stamps -> [main : Paths, log : Paths]]
           /\ [aside EXCEPT ![stamp].log = f] \in [Stamps -> [main : Paths, log : Paths]]
           /\ [aside EXCEPT ![stamp].main = f][stamp] = [main |-> f, log |-> aside[stamp].log]
           /\ [aside EXCEPT ![stamp].log = f][stamp] = [main |-> aside[stamp].main, log |-> f]
           /\ \A s \in Stamps \ {stamp} : /\ [aside EXCEPT ![stamp].main = f][s] = aside[s]
                                          /\ [aside EXCEPT ![stamp].log = f][s] = aside[s]
BY DEF Types

(* Every step keeps the types.                                             *)
LEMMA TypesStep ==
    ASSUME Types, Renames, InUse, Schemas, [Next]_vars
    PROVE  Types'
<1> USE DatabaseAssumption DEF Types, Paths, Files, None
<1>1. ASSUME NEW p \in Writers, Begin(p)
      PROVE  Types'
  <2>1. PICK f \in Files :
          /\ TakeFile(f)
          /\ LET version == VersionOf(files'[f].main \cup files'[f].log)
             IN  version <= Supported /\ at' = [at EXCEPT ![p] = [file |-> f, next |-> version + 1]]
    BY <1>1 DEF Begin
  <2>2. /\ restore = NoRestore /\ UNCHANGED <<aside, snapshot, restore, rows>>
        /\ place' \in Paths /\ beside' \in Paths
        /\ \/ files' = files
           \/ files' = [files EXCEPT ![f] = [NoFile EXCEPT !.state = "whole"]]
    BY ZenonT(60), <1>1, <2>1, Taken DEF Begin
  <2>3. files' \in [Files -> FileStates]
    BY ZenonT(60), <2>2, NewFile DEF FileStates
  <2>4. \E v \in 0..Newest : MigratedTo(files'[f].main \cup files'[f].log, v)
    <3>1. CASE files' = files
      BY <3>1 DEF Schemas, Holds
    <3>2. CASE files' = [files EXCEPT ![f] = [NoFile EXCEPT !.state = "whole"]]
      <4>1. files'[f].main \cup files'[f].log = {}
        BY <3>2, NewFile
      <4>2. MigratedTo({}, 0) /\ 0 \in 0..Newest
        BY DEF MigratedTo
      <4> QED
        BY <4>1, <4>2
    <3> QED
      BY <2>2, <3>1, <3>2
  <2>5. VersionOf(files'[f].main \cup files'[f].log) \in Nat
    BY <2>4, VersionFacts
  <2> QED
    BY SMTT(60), <2>1, <2>2, <2>3, <2>5
<1>2. ASSUME NEW p \in Writers, Migrate(p)
      PROVE  Types'
  <2>1. at[p].file \in Files /\ at[p].next \in Nat
    BY <1>2 DEF Migrate
  <2>2. files' \in [Files -> FileStates]
    BY <1>2, <2>1, Committed DEF Migrate
  <2>3. at' \in [Writers \cup Readers -> [file : Paths, next : Nat]]
    <3>1. \/ at' = [at EXCEPT ![p].next = at[p].next + 1]
          \/ at' = [at EXCEPT ![p] = NothingOpen]
      BY <1>2 DEF Migrate
    <3>2. at[p].next + 1 \in Nat /\ p \in Writers \cup Readers
      BY <2>1
    <3> HIDE DEF Types, Paths, Files, None
    <3>3. CASE at' = [at EXCEPT ![p].next = at[p].next + 1]
      BY ZenonT(60), <3>2, <3>3, AtUpdates
    <3>4. CASE at' = [at EXCEPT ![p] = NothingOpen]
      BY <3>2, <3>4, AtUpdates
    <3> QED
      BY <3>1, <3>3, <3>4
  <2> QED
    BY <1>2, <2>2, <2>3 DEF Migrate
<1>3. ASSUME NEW p \in Writers, Write(p)
      PROVE  Types'
  <2>1. at[p].file \in Files /\ Newest + rows' \in Nat /\ rows' \in Nat
    BY <1>3 DEF Write, IsOpen
  <2>2. files' \in [Files -> FileStates]
    BY <1>3, <2>1, Committed DEF Write
  <2> QED
    BY <1>3, <2>1, <2>2 DEF Write
<1>4. ASSUME NEW p \in Writers, TakeSnapshot(p)
      PROVE  Types'
  BY <1>4 DEF TakeSnapshot, IsOpen, Held, FileStates
<1>5. ASSUME NEW p \in Readers, BeginReading(p)
      PROVE  Types'
  BY <1>5 DEF BeginReading
<1>6. ASSUME NEW p \in Writers \cup Readers, Close(p)
      PROVE  Types'
  <2>1. files' \in [Files -> FileStates]
    BY <1>6, TakenIn DEF Close
  <2> QED
    BY <1>6, <2>1 DEF Close, NothingOpen
<1>7. ASSUME NEW p \in Writers \cup Readers, Kill(p)
      PROVE  Types'
  BY <1>7 DEF Kill, NothingOpen
<1>8. ASSUME NEW stamp \in Stamps, StartRestore(stamp)
      PROVE  Types'
  BY <1>8 DEF StartRestore
<1>9. CASE MoveDatabase
  <2>1. restore.stamp \in Stamps /\ aside' = [aside EXCEPT ![restore.stamp].main = place]
        /\ restore' \in [step : {"database", "log", "copy", "copying"}, stamp : Stamps]
        /\ UNCHANGED <<snapshot, at, rows, files, beside>> /\ place' = None
    BY <1>9, RestoreSteps DEF MoveDatabase
  <2>2. aside' \in [Stamps -> [main : Paths, log : Paths]]
    BY <2>1, AsideUpdates
  <2> QED
    BY <2>1, <2>2
<1>10. CASE MoveLog
  <2>1. /\ restore.stamp \in Stamps
        /\ aside' = [aside EXCEPT ![restore.stamp].log = IF beside = None THEN @ ELSE beside]
        /\ restore' \in [step : {"database", "log", "copy", "copying"}, stamp : Stamps]
        /\ UNCHANGED <<snapshot, at, rows, files, place>> /\ beside' = None
    BY <1>10, RestoreSteps DEF MoveLog
  <2>2. aside' \in [Stamps -> [main : Paths, log : Paths]]
    BY ZenonT(60), <2>1
  <2> QED
    BY <2>1, <2>2
<1>11. CASE StartCopy
  <2>1. /\ restore.step = "copy" /\ UNCHANGED <<snapshot, at, rows, beside, aside>>
        /\ restore' \in [step : {"database", "log", "copy", "copying"}, stamp : Stamps]
    BY <1>11, RestoreSteps DEF StartCopy
  <2>2. place' \in Files
    <3>1. Unused \in SUBSET Nat /\ Unused # {} /\ place' = Lowest(Unused)
      BY <1>11, <2>1 DEF StartCopy, Unused, Renames
    <3> QED
      BY <3>1, LowestFacts DEF Unused
  <2>3. files' \in [Files -> FileStates]
    BY <1>11, <2>2, NewFile DEF StartCopy, FileStates
  <2> QED
    BY <2>1, <2>2, <2>3
<1>12. CASE EndCopy
  BY <1>12 DEF EndCopy, FileStates, NoRestore, Renames
<1>13. CASE CutShort
  BY <1>13 DEF CutShort
<1>14. CASE UNCHANGED vars
  BY <1>14 DEF vars
<1> QED
  BY <1>1, <1>2, <1>3, <1>4, <1>5, <1>6, <1>7, <1>8, <1>9, <1>10, <1>11, <1>12, <1>13, <1>14
     DEF Next

(* Every step leaves what is open at the path, with its log beside it.     *)
LEMMA InUseStep ==
    ASSUME Types, InUse, Renames, Types', [Next]_vars
    PROVE  InUse'
<1> USE DatabaseAssumption DEF Types, InUse, Renames, Files, None, Paths, NoRestore, NothingOpen
<1>1. ASSUME NEW p \in Writers, Begin(p)
      PROVE  InUse'
  <2>1. PICK f \in Files :
          /\ TakeFile(f)
          /\ LET version == VersionOf(files'[f].main \cup files'[f].log)
             IN  version <= Supported /\ at' = [at EXCEPT ![p] = [file |-> f, next |-> version + 1]]
    BY <1>1 DEF Begin
  <2>2. place' = f /\ beside' = f /\ restore' = restore /\ restore = NoRestore
    BY <1>1, <2>1, Taken DEF Begin
  <2>3. files'[f].state = "whole"
    BY <1>1, <2>1, Taken DEF Begin, NoFile
  <2>4. \A q \in Writers \cup Readers : q # p => at'[q] = at[q]
    BY <2>1
  <2>5. place # None => f = place
    BY <1>1, <2>1, Taken DEF Begin
  <2> QED
    BY <2>1, <2>2, <2>3, <2>4, <2>5
<1>2. ASSUME NEW p \in Writers, Migrate(p)
      PROVE  InUse'
  <2>1. at[p].file \in Files /\ at[p].next \in Nat
    BY <1>2 DEF Migrate
  <2>2. \A g \in Files : files'[g].state = files[g].state
    BY <1>2, <2>1, Committed DEF Migrate
  <2>3. \A q \in Writers \cup Readers : at'[q].file \in {None, at[q].file}
    <3>1. \/ at' = [at EXCEPT ![p].next = at[p].next + 1]
          \/ at' = [at EXCEPT ![p] = NothingOpen]
      BY <1>2 DEF Migrate
    <3>2. at[p].next + 1 \in Nat /\ p \in Writers \cup Readers
      BY <2>1
    <3> HIDE DEF Types, Paths, Files, None
    <3>3. CASE at' = [at EXCEPT ![p].next = at[p].next + 1]
      BY <3>2, <3>3, AtUpdates DEF NothingOpen
    <3>4. CASE at' = [at EXCEPT ![p] = NothingOpen]
      BY <3>2, <3>4, AtUpdates DEF NothingOpen
    <3> QED
      BY <3>1, <3>3, <3>4
  <2> QED
    BY <1>2, <2>2, <2>3 DEF Migrate
<1>3. ASSUME NEW p \in Writers, Write(p)
      PROVE  InUse'
  <2>1. at[p].file \in Files /\ Newest + rows' \in Nat
    BY <1>3 DEF Write, IsOpen
  <2>2. \A g \in Files : files'[g].state = files[g].state
    BY <1>3, <2>1, Committed DEF Write
  <2> QED
    BY <1>3, <2>2 DEF Write
<1>4. ASSUME NEW p \in Writers, TakeSnapshot(p)
      PROVE  InUse'
  BY <1>4 DEF TakeSnapshot
<1>5. ASSUME NEW p \in Readers, BeginReading(p)
      PROVE  InUse'
  BY <1>5 DEF BeginReading
<1>6. ASSUME NEW p \in Writers \cup Readers, Close(p)
      PROVE  InUse'
  BY <1>6 DEF Close, Holders, FileStates
<1>7. ASSUME NEW p \in Writers \cup Readers, Kill(p)
      PROVE  InUse'
  BY <1>7 DEF Kill
<1>8. ASSUME NEW stamp \in Stamps, StartRestore(stamp)
      PROVE  InUse'
  BY <1>8 DEF StartRestore, NobodyHasItOpen
<1>9. CASE MoveDatabase
  BY <1>9 DEF MoveDatabase, RestoreGoesOn
<1>10. CASE MoveLog
  BY <1>10 DEF MoveLog, RestoreGoesOn
<1>11. CASE StartCopy
  BY <1>11 DEF StartCopy, RestoreGoesOn
<1>12. CASE EndCopy
  BY <1>12 DEF EndCopy
<1>13. CASE CutShort
  BY <1>13 DEF CutShort
<1>14. CASE UNCHANGED vars
  BY <1>14 DEF vars
<1> QED
  BY <1>1, <1>2, <1>3, <1>4, <1>5, <1>6, <1>7, <1>8, <1>9, <1>10, <1>11, <1>12, <1>13, <1>14
     DEF Next

(* Every step leaves the log beside its own database, or after it.         *)
LEMMA RenamesStep ==
    ASSUME Careful, Types, InUse, Renames, Types', [Next]_vars
    PROVE  Renames'
<1> USE DatabaseAssumption DEF Types, InUse, Renames, Files, None, Paths, NoRestore, NothingOpen
<1>1. ASSUME NEW p \in Writers, Begin(p)
      PROVE  Renames'
  BY <1>1 DEF Begin, TakeFile
<1>2. ASSUME NEW p \in Writers, Migrate(p)
      PROVE  Renames'
  BY <1>2 DEF Migrate, Commits
<1>3. ASSUME NEW p \in Writers, Write(p)
      PROVE  Renames'
  BY <1>3 DEF Write, Commits
<1>4. ASSUME NEW p \in Writers, TakeSnapshot(p)
      PROVE  Renames'
  <2>1. UNCHANGED <<files, place, beside, aside, restore>>
    BY <1>4 DEF TakeSnapshot
  <2> QED
    BY <2>1 DEF Unused
<1>5. ASSUME NEW p \in Readers, BeginReading(p)
      PROVE  Renames'
  BY <1>5 DEF BeginReading
<1>6. ASSUME NEW p \in Writers \cup Readers, Close(p)
      PROVE  Renames'
  BY <1>6 DEF Close, Holders
<1>7. ASSUME NEW p \in Writers \cup Readers, Kill(p)
      PROVE  Renames'
  BY <1>7 DEF Kill, Unused
<1>8. ASSUME NEW stamp \in Stamps, StartRestore(stamp)
      PROVE  Renames'
  <2>1. UNCHANGED <<files, place, beside, aside>> /\ aside[stamp].main = None
        /\ Cardinality(Unused) > 1 /\ restore = NoRestore
        /\ restore' = [step |-> IF place = None THEN "copy" ELSE "database", stamp |-> stamp]
    BY <1>8 DEF StartRestore
  <2>2. Unused # {} /\ Unused' = Unused
    <3>1. Cardinality({}) = 0
      BY FS_EmptySet
    <3> QED
      <4>1. Unused # {}
        <5>1. Unused = {} => Cardinality(Unused) = 0
          BY <3>1, Zenon
        <5> QED
          BY <2>1, <5>1
      <4> QED
        BY <2>1, <4>1 DEF Unused
  <2>3. restore'.step = (IF place = None THEN "copy" ELSE "database") /\ restore'.stamp = stamp
    BY <2>1
  <2> QED
    BY <2>1, <2>2, <2>3
<1>9. CASE MoveDatabase
  <2>1. /\ restore.step = "database" /\ restore'.step = "log" /\ restore'.stamp = restore.stamp
        /\ restore.stamp \in Stamps /\ aside' = [aside EXCEPT ![restore.stamp].main = place]
        /\ UNCHANGED <<files, beside>> /\ place' = None
    BY <1>9, RestoreSteps DEF MoveDatabase
  <2>2. aside'[restore.stamp].main = place
    BY <2>1, AsideUpdates
  <2>3. Unused' = Unused /\ Unused # {}
    BY <2>1 DEF Unused
  <2> QED
    BY <2>1, <2>2, <2>3
<1>10. CASE MoveLog
  <2>1. /\ restore.step = "log" /\ restore'.step = "copy"
        /\ UNCHANGED <<files, place>> /\ beside' = None
    BY <1>10, RestoreSteps DEF MoveLog
  <2>3. Unused' = Unused /\ Unused # {}
    BY <2>1 DEF Unused
  <2> QED
    BY <2>1, <2>3
<1>11. CASE StartCopy
  BY <1>11 DEF StartCopy, RestoreGoesOn
<1>12. CASE EndCopy
  BY <1>12 DEF EndCopy
<1>13. CASE CutShort
  <2>1. UNCHANGED <<files, place, beside, aside>> /\ restore'.step = "none"
        /\ restore # NoRestore /\ (restore.step = "log" => beside = None)
    BY <1>13 DEF CutShort
  <2> QED
    BY <2>1
<1>14. CASE UNCHANGED vars
  BY <1>14 DEF vars, Unused
<1> QED
  BY Zenon, <1>1, <1>2, <1>3, <1>4, <1>5, <1>6, <1>7, <1>8, <1>9, <1>10, <1>11, <1>12, <1>13, <1>14
     DEF Next

(* No step loses a database or a log.                                      *)
LEMMA NoneLostStep ==
    ASSUME Careful, Types, InUse, Renames, NoneLost, Types', Renames', [Next]_vars
    PROVE  NoneLost'
<1> USE DatabaseAssumption DEF NoneLost, FoundAt, LogFound
<1>1. ASSUME NEW p \in Writers, Begin(p)
      PROVE  NoneLost'
  <2>1. PICK f \in Files :
          /\ TakeFile(f)
          /\ LET version == VersionOf(files'[f].main \cup files'[f].log)
             IN  version <= Supported /\ at' = [at EXCEPT ![p] = [file |-> f, next |-> version + 1]]
    BY <1>1 DEF Begin
  <2>2. /\ place' = f /\ beside' = f /\ restore = NoRestore
        /\ UNCHANGED <<aside, restore, snapshot>>
        /\ \/ f = place /\ files' = files
           \/ /\ place = None /\ files[f].state = "none"
              /\ files' = [files EXCEPT ![f] = [NoFile EXCEPT !.state = "whole"]]
    BY <1>1, <2>1, Taken DEF Begin
  <2>3. CASE f = place /\ files' = files
    BY <2>2, <2>3 DEF Renames, NoRestore, None, Files
  <2>4. CASE /\ place = None /\ files[f].state = "none"
             /\ files' = [files EXCEPT ![f] = [NoFile EXCEPT !.state = "whole"]]
    <3>1. /\ files'[f].state = "whole" /\ files'[f].own = {} /\ files'[f].log = {}
          /\ Holds(files'[f]) = {}
      BY <2>4, NewFile DEF Types, Holds
    <3>2. \A g \in Files \ {f} : files'[g] = files[g]
      BY <2>4 DEF Types
    <3>3. FoundAt(f)' /\ restore.step # "log"
      BY <2>2 DEF NoRestore
    <3>4. \A g \in Files : (FoundAt(g) => FoundAt(g)') /\ (LogFound(g) => LogFound(g)')
      BY <2>2, <2>4 DEF None, Files
    <3> HIDE DEF FoundAt, LogFound
    <3> QED
      BY <2>2, <3>1, <3>2, <3>3, <3>4
  <2> QED
    BY <2>2, <2>3, <2>4
<1>2. ASSUME NEW p \in Writers, Migrate(p)
      PROVE  NoneLost'
  <2>1. /\ at[p].file \in Files /\ at[p].file = place /\ beside = place
        /\ UNCHANGED <<place, beside, aside, restore>>
    BY <1>2 DEF Migrate, Types, Paths, InUse
  <2>2. \/ files' = files
        \/ Commits(at[p].file, at[p].next) /\ at[p].next \in Nat
    BY <1>2, <2>1 DEF Migrate, Types, Paths
  <2>3. CASE files' = files
    BY <2>1, <2>3
  <2>4. CASE Commits(at[p].file, at[p].next) /\ at[p].next \in Nat
    <3>0. PICK f \in Files : f = at[p].file
      BY <2>1
    <3>1. /\ \A g \in Files : files'[g].state = files[g].state
          /\ \A g \in Files \ {f} : files'[g] = files[g]
          /\ Holds(files'[f]) = Holds(files[f]) \cup {at[p].next}
          /\ files'[f].own = files[f].own \cup {at[p].next}
      BY <2>1, <2>4, <3>0, Committed
    <3>2. f \in Files /\ FoundAt(f)' /\ LogFound(f)'
      BY <2>1, <3>0
    <3>3. \A g \in Files : (FoundAt(g) => FoundAt(g)') /\ (LogFound(g) => LogFound(g)')
      BY <2>1
    <3> HIDE DEF FoundAt, LogFound
    <3> QED
      BY <2>1, <3>1, <3>2, <3>3
  <2> QED
    BY <2>2, <2>3, <2>4
<1>3. ASSUME NEW p \in Writers, Write(p)
      PROVE  NoneLost'
  <2>1. /\ at[p].file \in Files /\ at[p].file = place /\ beside = place
        /\ UNCHANGED <<place, beside, aside, restore>>
    BY <1>3 DEF Write, IsOpen, Types, Paths, InUse
  <2>2. \/ files' = files
        \/ Commits(at[p].file, Newest + rows') /\ Newest + rows' \in Nat
    BY <1>3, <2>1 DEF Write, IsOpen, Types, Paths
  <2>3. CASE files' = files
    BY <2>1, <2>3
  <2>4. CASE Commits(at[p].file, Newest + rows') /\ Newest + rows' \in Nat
    <3>0. PICK f \in Files : f = at[p].file
      BY <2>1
    <3>1. /\ \A g \in Files : files'[g].state = files[g].state
          /\ \A g \in Files \ {f} : files'[g] = files[g]
          /\ Holds(files'[f]) = Holds(files[f]) \cup {Newest + rows'}
          /\ files'[f].own = files[f].own \cup {Newest + rows'}
      BY <2>1, <2>4, <3>0, Committed
    <3>2. f \in Files /\ FoundAt(f)' /\ LogFound(f)'
      BY <2>1, <3>0
    <3>3. \A g \in Files : (FoundAt(g) => FoundAt(g)') /\ (LogFound(g) => LogFound(g)')
      BY <2>1
    <3> HIDE DEF FoundAt, LogFound
    <3> QED
      BY <2>1, <3>1, <3>2, <3>3
  <2> QED
    BY <2>2, <2>3, <2>4
<1>4. ASSUME NEW p \in Writers, TakeSnapshot(p)
      PROVE  NoneLost'
  BY ZenonT(60), <1>4 DEF TakeSnapshot, Types, Files, None, Paths, Renames, NoRestore
<1>5. ASSUME NEW p \in Readers, BeginReading(p)
      PROVE  NoneLost'
  BY <1>5 DEF BeginReading, Types, Files, None, Paths, Renames, NoRestore
<1>6. ASSUME NEW p \in Writers \cup Readers, Close(p)
      PROVE  NoneLost'
  <2>1. /\ at[p].file \in Files /\ at[p].file = place /\ beside = place
        /\ UNCHANGED <<place, aside, restore>> /\ restore = NoRestore
    BY <1>6 DEF Close, InUse, Types, Paths
  <2>2. CASE UNCHANGED <<files, beside>>
    BY <2>1, <2>2
  <2>3. CASE files' = [files EXCEPT ![at[p].file].main = Held(at[p].file), ![at[p].file].log = {}]
    <3> DEFINE f == at[p].file
    <3>1. /\ \A g \in Files : files'[g].state = files[g].state /\ files'[g].own = files[g].own
          /\ \A g \in Files : Holds(files'[g]) = Holds(files[g])
          /\ \A g \in Files \ {f} : files'[g] = files[g]
          /\ files'[f].log = {}
      BY <2>1, <2>3, TakenIn
    <3>2. f \in Files /\ f = place /\ beside = f
      BY <2>1
    <3> HIDE DEF f
    <3>3. ASSUME NEW g \in Files, g # f, files[g].log # {}, files[g].state = "whole"
          PROVE  \E s \in Stamps : aside[s] = [main |-> g, log |-> g]
      BY <2>1, <3>2, <3>3 DEF NoRestore
    <3> QED
      BY ZenonT(60), <2>1, <3>1, <3>2, <3>3
  <2> QED
    BY <1>6, <2>2, <2>3 DEF Close
<1>7. ASSUME NEW p \in Writers \cup Readers, Kill(p)
      PROVE  NoneLost'
  BY ZenonT(60), <1>7 DEF Kill, Types, Files, None, Paths, Renames, NoRestore
<1>8. ASSUME NEW stamp \in Stamps, StartRestore(stamp)
      PROVE  NoneLost'
  BY ZenonT(60), <1>8 DEF StartRestore, Types, Files, None, Paths, Renames, NoRestore
<1>9. CASE MoveDatabase
  <2>1. /\ restore.step = "database" /\ restore'.step = "log" /\ restore'.stamp = restore.stamp
        /\ restore.stamp \in Stamps /\ aside' = [aside EXCEPT ![restore.stamp].main = place]
        /\ UNCHANGED <<files, beside>> /\ place' = None
    BY <1>9, RestoreSteps DEF MoveDatabase
  <2>2. /\ place \in Files /\ beside \in {None, place} /\ aside[restore.stamp].main = None
        /\ None \notin Files
    BY <2>1 DEF Renames, Types, Paths, None, Files
  <2>3. /\ aside'[restore.stamp].main = place
        /\ \A s \in Stamps \ {restore.stamp} : aside'[s] = aside[s]
    BY <2>1, AsideUpdates DEF Types
  <2>4. ASSUME NEW g \in Files, FoundAt(g)
        PROVE  FoundAt(g)'
    BY <2>1, <2>2, <2>3, <2>4
  <2>5. ASSUME NEW g \in Files, LogFound(g)
        PROVE  LogFound(g)' \/ beside' = g
    BY <2>1, <2>2, <2>3, <2>5
  <2> HIDE DEF FoundAt, LogFound
  <2> QED
    BY <2>1, <2>4, <2>5
<1>10. CASE MoveLog
  <2>1. /\ restore.step = "log" /\ restore'.step = "copy"
        /\ restore.stamp \in Stamps
        /\ aside' = [aside EXCEPT ![restore.stamp].log = IF beside = None THEN @ ELSE beside]
        /\ UNCHANGED <<files, place>> /\ beside' = None
    BY <1>10, RestoreSteps DEF MoveLog
  <2>2. /\ beside \in {None, aside[restore.stamp].main} /\ None \notin Files /\ place = None
    BY <2>1 DEF Renames, None, Files
  <2>3. /\ aside'[restore.stamp] = [main |-> aside[restore.stamp].main,
                                    log |-> IF beside = None
                                            THEN aside[restore.stamp].log ELSE beside]
        /\ \A s \in Stamps \ {restore.stamp} : aside'[s] = aside[s]
    BY <2>1 DEF Types
  <2>4. \A s \in Stamps : aside[s] \in [main : Paths, log : Paths]
    BY DEF Types
  <2>5. ASSUME NEW g \in Files, FoundAt(g)
        PROVE  FoundAt(g)'
    BY <2>1, <2>2, <2>3, <2>5
  <2>6. ASSUME NEW g \in Files, LogFound(g) \/ beside = g
        PROVE  LogFound(g)'
    BY <2>1, <2>2, <2>3, <2>4, <2>6
  <2> HIDE DEF FoundAt, LogFound
  <2> QED
    BY <2>1, <2>5, <2>6
<1>11. CASE StartCopy
  <2>1. /\ restore.step = "copy" /\ restore'.step = "copying" /\ UNCHANGED <<beside, aside>>
        /\ place = None /\ beside = None /\ Unused # {} /\ None \notin Files
    BY <1>11, RestoreSteps DEF StartCopy, Renames, None, Files
  <2>2. place' \in Unused
    BY <1>11, <2>1, LowestFacts DEF StartCopy, Unused, Files
  <2>3. /\ \A g \in Files : g # place' => files'[g] = files[g]
        /\ \A g \in Files : g = place' => files'[g].state = "partial"
    BY <1>11, <2>2, NewFile DEF StartCopy, Types, Unused
  <2>4. \A g \in Files : (FoundAt(g) => FoundAt(g)') /\ (LogFound(g) => LogFound(g)')
    BY <2>1
  <2> HIDE DEF FoundAt, LogFound
  <2> QED
    BY <2>1, <2>3, <2>4
<1>12. CASE EndCopy
  <2>1. /\ restore.step = "copying" /\ restore' = NoRestore /\ UNCHANGED <<place, beside, aside>>
        /\ place \in Files /\ beside = None /\ None \notin Files
    BY <1>12 DEF EndCopy, Renames, Types, Paths, None, Files
  <2>2. /\ \A g \in Files \ {place} : files'[g] = files[g]
        /\ files'[place] = [state |-> "whole", main |-> snapshot.holds, log |-> {},
                            own |-> snapshot.holds]
    BY <1>12, <2>1 DEF EndCopy, Types
  <2>3. files'[place].log = {} /\ files'[place].own = Holds(files'[place])
    BY <2>2 DEF Holds
  <2>4. \A g \in Files : (FoundAt(g) => FoundAt(g)') /\ (LogFound(g) => LogFound(g)')
    BY <2>1
  <2>5. FoundAt(place)'
    BY <2>1
  <2> HIDE DEF FoundAt, LogFound
  <2> QED
    BY <2>1, <2>2, <2>3, <2>4, <2>5 DEF NoRestore
<1>13. CASE CutShort
  <2>1. UNCHANGED <<files, place, beside, aside>> /\ (restore.step = "log" => beside = None)
    BY <1>13 DEF CutShort
  <2>2. \A g \in Files : (FoundAt(g) => FoundAt(g)') /\ (LogFound(g) => LogFound(g)') /\ g # None
    BY <2>1 DEF Files, None
  <2> HIDE DEF FoundAt, LogFound
  <2> QED
    BY <2>1, <2>2
<1>14. CASE UNCHANGED vars
  BY <1>14 DEF vars, Renames
<1> QED
  BY <1>1, <1>2, <1>3, <1>4, <1>5, <1>6, <1>7, <1>8, <1>9, <1>10, <1>11, <1>12, <1>13, <1>14
     DEF Next

(* What a commit does to the version.                                      *)
LEMMA Grown ==
    ASSUME NEW commits, NEW v \in 0..Newest, MigratedTo(commits, v)
    PROVE  /\ \A n \in Nat : n > Newest => MigratedTo(commits \cup {n}, v)
           /\ v + 1 <= Newest => MigratedTo(commits \cup {v + 1}, v + 1)
           /\ \A w \in Migrations : w \notin commits /\ w <= v + 1 => w = v + 1
<1> USE DatabaseAssumption DEF MigratedTo, Migrations
<1>1. \A w \in 1..Newest : w \in commits <=> w \in 1..v
  OBVIOUS
<1>2. ASSUME NEW n \in Nat, n > Newest
      PROVE  (commits \cup {n}) \cap (1..Newest) = 1..v
  BY <1>1, <1>2
<1>3. ASSUME v + 1 <= Newest
      PROVE  (commits \cup {v + 1}) \cap (1..Newest) = 1..(v + 1)
  BY <1>1, <1>3
<1> QED
  BY <1>1, <1>2, <1>3

(* A file that holds nothing is before the first migration.                *)
LEMMA EmptyIsNew == MigratedTo({}, 0) /\ 0 \in 0..Newest
BY DatabaseAssumption DEF MigratedTo

(* Every step leaves every file at a version and what is open at ours.     *)
LEMMA SchemasStep ==
    ASSUME Types, InUse, Renames, Schemas, Types', [Next]_vars
    PROVE  Schemas'
<1> USE DatabaseAssumption DEF Schemas
<1>1. ASSUME NEW p \in Writers, Begin(p)
      PROVE  Schemas'
  <2>1. PICK f \in Files :
          /\ TakeFile(f)
          /\ LET version == VersionOf(files'[f].main \cup files'[f].log)
             IN  version <= Supported /\ at' = [at EXCEPT ![p] = [file |-> f, next |-> version + 1]]
    BY <1>1 DEF Begin
  <2>2. /\ place' = f /\ beside' = f /\ restore = NoRestore
        /\ UNCHANGED <<aside, restore, snapshot>>
        /\ \/ f = place /\ files' = files
           \/ /\ place = None /\ files[f].state = "none"
              /\ files' = [files EXCEPT ![f] = [NoFile EXCEPT !.state = "whole"]]
    BY <1>1, <2>1, Taken DEF Begin
  <2>3. \A q \in Writers \cup Readers : q # p => at'[q] = at[q]
    BY <2>1 DEF Types
  <2>4. /\ at'[p].file = f /\ at'[p].next = VersionOf(Holds(files'[f])) + 1
        /\ VersionOf(Holds(files'[f])) <= Supported
    BY <2>1 DEF Types, Holds
  <2>5. \A q \in Writers \cup Readers : at[q].file # None => at[q].file \in Files
    BY DEF Types, Paths
  <2>6. CASE f = place /\ files' = files
    <3>1. PICK v \in 0..Newest : MigratedTo(Holds(files[f]), v)
      OBVIOUS
    <3>2. VersionOf(Holds(files[f])) = v
      BY <3>1, VersionFacts
    <3>3. v \in 0..Supported /\ at'[p].next = v + 1
      BY <2>4, <2>6, <3>2
    <3> QED
      BY <2>2, <2>3, <2>4, <2>5, <2>6, <3>1, <3>3
  <2>7. CASE /\ place = None /\ files[f].state = "none"
             /\ files' = [files EXCEPT ![f] = [NoFile EXCEPT !.state = "whole"]]
    <3>1. Holds(files'[f]) = {} /\ \A g \in Files \ {f} : files'[g] = files[g]
      BY <2>7, NewFile DEF Holds, Types
    <3>2. VersionOf({}) = 0
      BY EmptyIsNew, VersionFacts
    <3>3. at'[p].next = 1
      BY <2>4, <3>1, <3>2
    <3>4. \A q \in Writers \cup Readers : q # p => at'[q].file = None
      <4>1. None \notin Files
        BY DEF None, Files
      <4> QED
        BY <2>3, <2>5, <2>7, <4>1 DEF InUse
    <3>5. \A g \in Files : \E v \in 0..Newest : MigratedTo(Holds(files'[g]), v)
      BY <3>1, EmptyIsNew
    <3>6. MigratedTo(Holds(files'[f]), 0) /\ 0 \in 0..Supported /\ 1 \in 1..(Supported + 1)
      BY <3>1, EmptyIsNew
    <3> QED
      BY <2>2, <2>4, <3>3, <3>4, <3>5, <3>6
  <2> QED
    BY <2>2, <2>6, <2>7
<1>2. ASSUME NEW p \in Writers, Migrate(p)
      PROVE  Schemas'
  <2> DEFINE f == at[p].file
             v == at[p].next
  <2>1. f \in Files /\ f # None /\ f = place /\ snapshot' = snapshot /\ v \in 1..Supported
    BY <1>2 DEF Migrate, IsOpen, InUse, Types, Paths
  <2>2. \A q \in Writers \cup Readers : at[q].file # None => at[q].file = f
    BY <2>1 DEF InUse
  <2>3. CASE v \notin Held(f) /\ Commits(f, v) /\ at' = [at EXCEPT ![p].next = v + 1]
    <3>1. PICK w \in 0..Supported : MigratedTo(Holds(files[f]), w) /\ v <= w + 1
      BY <2>1
    <3>2. /\ v \in Migrations /\ w \in 0..Newest /\ v \in Nat
          /\ v \notin Holds(files[f])
      BY <2>1, <2>3, <3>1 DEF Migrations, Held, Holds
    <3>3. v = w + 1
      BY <3>1, <3>2, Grown
    <3>4. Holds(files'[f]) = Holds(files[f]) \cup {v} /\ \A g \in Files \ {f} : files'[g] = files[g]
      BY <2>1, <2>3, <3>2, Committed
    <3>5. MigratedTo(Holds(files'[f]), v) /\ v \in 0..Newest /\ v \in 0..Supported
      <4>1. w + 1 <= Newest
        BY <2>1, <3>3
      <4>2. MigratedTo(Holds(files[f]) \cup {w + 1}, w + 1)
        BY <3>1, <3>2, <4>1, Grown
      <4> QED
        BY <2>1, <3>3, <3>4, <4>2
    <3>6. /\ at'[p].file = f /\ at'[p].next = v + 1
          /\ \A q \in Writers \cup Readers : q # p => at'[q] = at[q]
      BY <2>1, <2>3 DEF Types
    <3>7. ASSUME NEW q \in Writers \cup Readers, at[q].file # None
          PROVE  at[q].next \in 1..(Supported + 1) /\ at[q].next <= v + 1
      <4>1. PICK u \in 0..Supported : MigratedTo(Holds(files[f]), u) /\ at[q].next <= u + 1
        BY <2>2, <3>7
      <4>2. u \in 0..Newest
        OBVIOUS
      <4>3. u = w
        <5>1. VersionOf(Holds(files[f])) = u
          BY <4>1, <4>2, VersionFacts
        <5>2. VersionOf(Holds(files[f])) = w
          BY <3>1, <3>2, VersionFacts
        <5> QED
          BY <5>1, <5>2
      <4> QED
        BY <3>3, <3>7, <4>1, <4>3
    <3>8. \A g \in Files : \E u \in 0..Newest : MigratedTo(Holds(files'[g]), u)
      BY <2>1, <3>4, <3>5
    <3>9. ASSUME NEW q \in Writers \cup Readers, at'[q].file # None
          PROVE  at'[q].file = f /\ at'[q].next \in 1..(Supported + 1) /\ at'[q].next <= v + 1
      <4>1. CASE q = p
        BY <2>1, <3>6, <4>1
      <4>2. CASE q # p
        BY <2>2, <3>6, <3>7, <3>9, <4>2
      <4> QED
        BY <4>1, <4>2
    <3> HIDE DEF f, v
    <3> QED
      BY <2>1, <3>5, <3>8, <3>9
  <2>4. CASE files' = files /\ at' = [at EXCEPT ![p] = NothingOpen]
    <3>1. at'[p].file = None /\ \A q \in Writers \cup Readers : q # p => at'[q] = at[q]
      BY <2>4 DEF Types, NothingOpen
    <3> QED
      BY <2>1, <2>4, <3>1
  <2> QED
    BY <1>2, <2>3, <2>4 DEF Migrate
<1>3. ASSUME NEW p \in Writers, Write(p)
      PROVE  Schemas'
  <2> DEFINE f == at[p].file
             row == Newest + rows'
  <2>1. /\ f \in Files /\ snapshot' = snapshot /\ at' = at
        /\ row \in Nat /\ row > Newest /\ Commits(f, row)
    BY <1>3 DEF Write, IsOpen, Types, Paths
  <2>2. Holds(files'[f]) = Holds(files[f]) \cup {row} /\ \A g \in Files \ {f} : files'[g] = files[g]
    BY <2>1, Committed
  <2> HIDE DEF f, row
  <2>3. ASSUME NEW v \in 0..Newest, NEW g \in Files, MigratedTo(Holds(files[g]), v)
        PROVE  MigratedTo(Holds(files'[g]), v)
    <3>1. MigratedTo(Holds(files[g]) \cup {row}, v)
      BY <2>1, <2>3, Grown
    <3> QED
      BY <2>1, <2>2, <2>3, <3>1
  <2>4. \A q \in Writers \cup Readers : at[q].file # None => at[q].file \in Files
    BY DEF Types, Paths
  <2>5. \A g \in Files : \E v \in 0..Newest : MigratedTo(Holds(files'[g]), v)
    BY <2>3
  <2>6. \A v \in 0..Supported : v \in 0..Newest
    OBVIOUS
  <2> QED
    BY <2>1, <2>3, <2>4, <2>5, <2>6
<1>4. ASSUME NEW p \in Writers, TakeSnapshot(p)
      PROVE  Schemas'
  <2>1. /\ at[p].file \in Files /\ snapshot'.holds = Holds(files[at[p].file])
        /\ UNCHANGED <<files, at>>
    BY <1>4 DEF TakeSnapshot, IsOpen, Types, Paths, Held, Holds
  <2> QED
    BY <2>1
<1>5. ASSUME NEW p \in Readers, BeginReading(p)
      PROVE  Schemas'
  <2>1. /\ place \in Files /\ VersionOf(Holds(files[place])) = Supported
        /\ UNCHANGED <<files, snapshot>>
    BY <1>5 DEF BeginReading, Types, Paths, Held, Holds
  <2>2. PICK v \in 0..Newest : MigratedTo(Holds(files[place]), v)
    BY <2>1
  <2>3. v = Supported
    BY <2>1, <2>2, VersionFacts
  <2>4. /\ at'[p].file = place /\ at'[p].next = Supported + 1
        /\ \A q \in Writers \cup Readers : q # p => at'[q] = at[q]
    BY <1>5 DEF BeginReading, Types
  <2> QED
    BY <2>1, <2>2, <2>3, <2>4
<1>6. ASSUME NEW p \in Writers \cup Readers, Close(p)
      PROVE  Schemas'
  <2>1. at[p].file \in Files /\ snapshot' = snapshot
    BY <1>6 DEF Close, Types, Paths
  <2>2. \A g \in Files : Holds(files'[g]) = Holds(files[g])
    BY <1>6, <2>1, TakenIn DEF Close
  <2>3. at'[p].file = None /\ \A q \in Writers \cup Readers : q # p => at'[q] = at[q]
    BY <1>6 DEF Close, Types, NothingOpen
  <2>4. \A q \in Writers \cup Readers : at[q].file # None => at[q].file \in Files
    BY DEF Types, Paths
  <2> QED
    BY <2>1, <2>2, <2>3, <2>4
<1>7. ASSUME NEW p \in Writers \cup Readers, Kill(p)
      PROVE  Schemas'
  <2>1. at'[p].file = None /\ \A q \in Writers \cup Readers : q # p => at'[q] = at[q]
    BY <1>7 DEF Kill, Types, NothingOpen
  <2> QED
    BY <1>7, <2>1 DEF Kill
<1>8. ASSUME NEW stamp \in Stamps, StartRestore(stamp)
      PROVE  Schemas'
  BY <1>8 DEF StartRestore
<1>9. CASE MoveDatabase
  BY <1>9 DEF MoveDatabase, RestoreGoesOn
<1>10. CASE MoveLog
  BY <1>10 DEF MoveLog, RestoreGoesOn
<1>11. CASE StartCopy
  <2>1. restore.step = "copy" /\ UNCHANGED <<at, snapshot>> /\ Unused # {}
    BY <1>11, RestoreSteps DEF StartCopy, Renames
  <2>2. PICK new \in Unused : new = place'
    <3>1. Unused \in SUBSET Nat /\ place' = Lowest(Unused)
      BY <1>11 DEF StartCopy, Unused, Files
    <3> QED
      BY <2>1, <3>1, LowestFacts
  <2>3. Holds(files'[new]) = {} /\ \A g \in Files \ {new} : files'[g] = files[g]
    BY <1>11, <2>2, NewFile DEF StartCopy, Types, Unused, Holds
  <2>4. \A q \in Writers \cup Readers : at[q].file = None
    BY <2>1 DEF InUse, NoRestore
  <2> QED
    BY <2>1, <2>2, <2>3, <2>4, EmptyIsNew
<1>12. CASE EndCopy
  <2>1. restore.step = "copying" /\ UNCHANGED <<at, snapshot>> /\ place \in Files
    BY <1>12 DEF EndCopy, Renames, Types, Paths
  <2>2. /\ Holds(files'[place]) = snapshot.holds
        /\ \A g \in Files \ {place} : files'[g] = files[g]
    BY <1>12, <2>1 DEF EndCopy, Types, Holds
  <2>3. \A q \in Writers \cup Readers : at[q].file = None
    BY <2>1 DEF InUse, NoRestore
  <2> QED
    BY <2>1, <2>2, <2>3
<1>13. CASE CutShort
  BY <1>13 DEF CutShort
<1>14. CASE UNCHANGED vars
  BY <1>14 DEF vars
<1> QED
  BY <1>1, <1>2, <1>3, <1>4, <1>5, <1>6, <1>7, <1>8, <1>9, <1>10, <1>11, <1>12, <1>13, <1>14
     DEF Next

-----------------------------------------------------------------------------
(* A database left by a process that closed it, or none.                   *)
LEMMA InitHolds == Init => IInv
<1> SUFFICES ASSUME Init
             PROVE  IInv
  OBVIOUS
<1> USE DatabaseAssumption
<1>1. /\ place \in Paths /\ beside = None /\ restore = NoRestore /\ rows \in Nat
      /\ \A p \in Writers \cup Readers : at[p] = NothingOpen
      /\ at = [p \in Writers \cup Readers |-> NothingOpen]
      /\ aside = [t \in Stamps |-> [main |-> None, log |-> None]]
  <2>1. place \in Paths
    <3>1. place = None \/ place = 1
      BY DEF Init
    <3> QED
      BY <3>1 DEF Paths, Files
  <2> QED
    BY <2>1 DEF Init
<1>2. PICK v \in 0..Newest : files = [f \in Files |-> IF f = place
         THEN [state |-> "whole", main |-> 1..v, log |-> {}, own |-> 1..v] ELSE NoFile]
  BY DEF Init
<1>3. files \in [Files -> FileStates]
  BY <1>2 DEF NoFile, FileStates
<1>4. PICK w \in 0..Newest : snapshot.holds = 1..w
  <2>1. PICK w \in 0..Newest :
           snapshot = IF w = 0 THEN NoSnapshot ELSE [there |-> TRUE, holds |-> 1..w]
    BY DEF Init
  <2>2. snapshot.holds = IF w = 0 THEN {} ELSE 1..w
    BY <2>1, Zenon DEF NoSnapshot
  <2> QED
    BY <2>2
<1>5. Types
  <2>1. None \in Paths
    BY DEF Paths
  <2>2. /\ at \in [Writers \cup Readers -> [file : Paths, next : Nat]]
        /\ aside \in [Stamps -> [main : Paths, log : Paths]]
    BY <1>1, <2>1 DEF NothingOpen
  <2>3. snapshot.holds \in SUBSET Nat
    BY <1>4
  <2> QED
    BY <1>1, <1>3, <2>1, <2>2, <2>3 DEF Types
<1>6. InUse
  BY <1>1 DEF InUse, NothingOpen
<1>7. Renames
  BY <1>1 DEF Renames, NoRestore
<1>8. NoneLost
  <2>1. ASSUME NEW f \in Files, files[f].state = "whole"
        PROVE  f = place /\ files[f].own = Holds(files[f]) /\ files[f].log = {}
    BY <1>2, <2>1 DEF NoFile, Holds
  <2> QED
    BY <2>1 DEF NoneLost, FoundAt
<1>9. \A u \in 0..Newest : (1..u) \cap Migrations = 1..u /\ {} \cap Migrations = 1..0
  BY DEF Migrations
<1>10. Schemas
  <2>1. ASSUME NEW f \in Files
        PROVE  \E u \in 0..Newest : MigratedTo(Holds(files[f]), u)
    <3>1. Holds(files[f]) = 1..v \/ Holds(files[f]) = {}
      BY <1>2 DEF NoFile, Holds
    <3> QED
      BY <1>9, <3>1, EmptyIsNew DEF MigratedTo
  <2>2. MigratedTo(snapshot.holds, w)
    BY <1>4, <1>9 DEF MigratedTo
  <2> QED
    BY <1>1, <2>1, <2>2 DEF Schemas, NothingOpen
<1> QED
  BY <1>5, <1>6, <1>7, <1>8, <1>10 DEF IInv

(* What the invariant says of the files is what is wanted of them.         *)
LEMMA InvariantIsEnough == IInv => DatabaseIsWhole
<1> SUFFICES ASSUME IInv
             PROVE  NothingIsLostOrGrafted /\ OpenIsOurs
  BY DEF DatabaseIsWhole
<1> USE DatabaseAssumption DEF IInv
<1>1. \A f \in Files : Held(f) = Holds(files[f])
  BY DEF Held, Holds
<1>2. NothingIsLostOrGrafted
  <2>1. ASSUME NEW f \in Files, files[f].state = "whole"
        PROVE  files[f].own = files[f].main
                 \cup (IF LogFound(f) \/ restore.step = "log" THEN files[f].log ELSE {})
    BY <2>1 DEF NoneLost, Holds
  <2> QED
    BY <2>1 DEF NothingIsLostOrGrafted, NoneLost
<1>3. ASSUME NEW f \in Files
      PROVE  SchemaIsItsVersions(Held(f))
  BY <1>1, VersionFacts DEF Schemas
<1>4. ASSUME NEW p \in Writers \cup Readers, IsOpen(p)
      PROVE  Held(at[p].file) \cap Migrations = 1..Supported
  <2>1. at[p].file \in Files /\ at[p].next = Supported + 1
    BY <1>4 DEF IsOpen, Types, Paths, Schemas
  <2>2. PICK v \in 0..Supported : MigratedTo(Holds(files[at[p].file]), v) /\ Supported + 1 <= v + 1
    BY <1>4, <2>1 DEF IsOpen, Schemas
  <2>3. v = Supported
    BY <2>2
  <2> QED
    BY <1>1, <2>1, <2>2, <2>3 DEF MigratedTo
<1> QED
  BY <1>2, <1>3, <1>4 DEF OpenIsOurs

(* Every database there ever was is still there with every commit it was   *)
(* told of and no other's, and what is open has this build's schema,       *)
(* whoever opens, migrates, writes, closes or is killed, and wherever a    *)
(* restore is interrupted but between its two renames.  Careful is what    *)
(* the code leaves to the operator: RestoreCutShort shows it is needed.    *)
THEOREM DatabaseStaysWhole ==
    ASSUME Careful
    PROVE  Spec => []DatabaseIsWhole
<1>1. IInv /\ [Next]_vars => IInv'
  BY TypesStep, InUseStep, RenamesStep, NoneLostStep, SchemasStep DEF IInv
<1> QED
  BY <1>1, InitHolds, InvariantIsEnough, PTL DEF Spec
=============================================================================
