----------------------------- MODULE WatchProofs -----------------------------
(***************************************************************************)
(* What TLAPS proves of the two watches of the edge daemon.                *)
(*                                                                         *)
(* Of the watchdog, and the reader's gaps, for every capacity of the       *)
(* channel, every set of disturbances and however many of them there are:  *)
(* a loss stays recorded, and the watchdog closes no gap without a reason. *)
(*                                                                         *)
(* Of the clock, and the watch on it, for every threshold, interval and    *)
(* offset, everything the time daemon can be like, and however often the   *)
(* wall clock is moved and the service dies: a result timed across a step  *)
(* the watch saw is flagged for it, and a crossing is doubted exactly when *)
(* nobody vouched for the clock.                                           *)
(***************************************************************************)
EXTENDS ReaderGaps, Clock, FiniteSetTheorems, SequenceTheorems, TLAPS

(* The watchdog runs only in a process that has a reader composed, and a   *)
(* process that has one measures silence from some instant.                *)
Composed ==
    /\ status.watching => status.lastMessage # "never"
    /\ ~status.watching => status = NoReader /\ hand = "nothing" /\ look = Away

(* The two locks.  Unless the latest edge was recorded beside a tick, the  *)
(* read thread is between its locks only while no tick is, the heartbeat   *)
(* is disarmed then, and no tick begins while the transport is down.       *)
Apart ==
    /\ hand = "disconnected" => status.transportDown
    /\ ~beside =>
        /\ hand \in {"connected", "disconnected"} => look.at = "away" /\ ~status.heartbeatGap
        /\ status.transportDown => look.at = "away" /\ hand # "connected"

(* What a tick copied is what the status still says, until something is    *)
(* taken that moves it.                                                    *)
CopiesHold ==
    /\ look.at # "away" /\ look.since # "return" => look.lastMessage = status.lastMessage
    /\ look.at = "heartbeat" => (status.heartbeatGap => look.heartbeatGap)
    /\ look.at = "silence" => ~status.heartbeatGap

(* Who believes the reader is gone has its gap open, unless the edge could *)
(* not be written.                                                         *)
BeliefIsRecorded ==
    ~beside /\ ~missed =>
        /\ status.transportDown => hand = "disconnected" \/ gap.open
        /\ look.at = "away" /\ status.heartbeatGap => gap.open
        /\ look.at = "flag" /\ look.opened => gap.open

(* A gap that nothing yet gives the watchdog a reason to close.            *)
Unexcused == gap.open /\ excuse = "nothing" /\ ~beside

(* Somebody still holds such a gap open: the transport, the heartbeat      *)
(* check, or a silence that has not ended; and no tick under way has had a *)
(* read since.                                                             *)
HeldOpen ==
    Unexcused =>
        /\ status.transportDown \/ status.heartbeatGap \/ (look.at = "flag" /\ look.opened)
             \/ status.lastMessage = "old"
        /\ look.at # "away" => look.since # "return"
        /\ ~(look.at = "flag" /\ ~look.opened)

GapsInv == TypeOK /\ Composed /\ Apart /\ CopiesHold /\ BeliefIsRecorded /\ HeldOpen
-----------------------------------------------------------------------------
(***************************************************************************)
(* Types.                                                                  *)
(***************************************************************************)

(* What writing an edge, or not, does to the rows.                         *)
LEMMA EdgeTypes ==
    ASSUME TypeOK, NEW by \in Detectors, OpenOrMiss(by) \/ CloseOrMiss(by)
    PROVE  /\ gap' \in Gaps /\ missed' \in BOOLEAN
           /\ excuse' \in {"nothing", "other", "return"}
           /\ disturbances' \in 0..MaxDisturbances
<1>1. gap' \in {gap, [open |-> TRUE, by |-> by], [open |-> FALSE, by |-> by]}
  BY DEF OpenOrMiss, CloseOrMiss, Open, Close, NotWritten
<1>2. gap' \in Gaps
  <2>1. gap \in Gaps /\ [open |-> TRUE, by |-> by] \in Gaps /\ [open |-> FALSE, by |-> by] \in Gaps
    BY Zenon DEF TypeOK, Gaps
  <2> QED
    BY <1>1, <2>1
<1>3. missed' \in {TRUE, FALSE}
  BY Zenon DEF OpenOrMiss, CloseOrMiss, NotWritten
<1>4. excuse' \in {"nothing", "other", "return"} /\ disturbances' \in 0..MaxDisturbances
  BY CapacityAndBounds
     DEF TypeOK, OpenOrMiss, CloseOrMiss, Open, Close, Calm, NotWritten, Excused, Disturb
<1> QED
  BY <1>2, <1>4, <1>3

(* What a step may write of a status leaves it one.                        *)
LEMMA StatusUpdates ==
    ASSUME NEW s \in Statuses
    PROVE  /\ \A b \in BOOLEAN : [s EXCEPT !.fault = b] \in Statuses
           /\ \A b \in BOOLEAN : [s EXCEPT !.heartbeatGap = b] \in Statuses
           /\ [s EXCEPT !.lastMessage = "old"] \in Statuses
           /\ [s EXCEPT !.lastHeard = "old"] \in Statuses
           /\ [s EXCEPT !.watching = TRUE, !.lastMessage = "fresh"] \in Statuses
<1>1. ASSUME NEW b \in BOOLEAN
      PROVE  [s EXCEPT !.fault = b] \in Statuses
  BY DEF Statuses
<1>2. ASSUME NEW b \in BOOLEAN
      PROVE  [s EXCEPT !.heartbeatGap = b] \in Statuses
  BY DEF Statuses
<1>3. [s EXCEPT !.lastMessage = "old"] \in Statuses
  BY DEF Statuses, Instants
<1>4. [s EXCEPT !.lastHeard = "old"] \in Statuses
  BY DEF Statuses, Instants
<1>5. [s EXCEPT !.watching = TRUE, !.lastMessage = "fresh"] \in Statuses
  BY DEF Statuses, Instants
<1> QED
  BY <1>1, <1>2, <1>3, <1>4, <1>5

(* And where a tick of the watchdog is.                                    *)
LEMMA LookFields ==
    ASSUME NEW l \in Looks
    PROVE  l.opened \in BOOLEAN /\ l.lastMessage \in Instants /\ l.lastHeard \in Instants
BY DEF Looks

LEMMA LookUpdates ==
    ASSUME NEW l \in Looks
    PROVE  /\ Away \in Looks
           /\ [l EXCEPT !.at = "silence"] \in Looks
           /\ \A t \in Instants : [l EXCEPT !.lastMessage = t] \in Looks
           /\ \A t \in Instants : [l EXCEPT !.lastHeard = t] \in Looks
<1>1. Away \in Looks
  BY DEF Away, Looks, Instants
<1>2. [l EXCEPT !.at = "silence"] \in Looks
  BY DEF Looks
<1>3. ASSUME NEW t \in Instants
      PROVE  [l EXCEPT !.lastMessage = t] \in Looks
  BY DEF Looks
<1>4. ASSUME NEW t \in Instants
      PROVE  [l EXCEPT !.lastHeard = t] \in Looks
  BY DEF Looks
<1> QED
  BY <1>1, <1>2, <1>3, <1>4

(* Every step keeps the types.                                             *)
LEMMA TypeStep ==
    ASSUME TypeOK, [Next]_vars
    PROVE  TypeOK'
<1> USE CapacityAndBounds DEF Calm, provider, evidence
<1>1. CASE PortOpens
  BY <1>1 DEF TypeOK, PortOpens, Statuses, Looks, Gaps, Configs, Away, Instants, Detectors, Events
<1>2. CASE Started
  BY <1>2 DEF TypeOK, Started, Send, Statuses, Looks, Gaps, Configs, Away, Instants, Detectors,
     Events
<1>3. CASE Lost
  BY <1>3 DEF TypeOK, Lost, Send, Statuses, Looks, Gaps, Configs, Away, Instants, Detectors,
     Events
<1>4. CASE Reports
  BY <1>4 DEF TypeOK, Reports, Send, Statuses, Looks, Gaps, Configs, Away, Instants, Detectors,
     Events
<1>5. CASE TakeConnected
  <2>1. status' \in Statuses /\ look' \in Looks /\ config' \in Configs
        /\ {missed', beside'} \subseteq BOOLEAN
    BY <1>5, Zenon DEF TypeOK, TakeConnected, Take, IsReturn, ConnectionMayRun, Statuses, Looks,
       Configs, Away, Instants
  <2> QED
    BY <1>5, <2>1 DEF TypeOK, TakeConnected, Take, IsReturn, ConnectionMayRun, Events
<1>6. CASE TakeDisconnected
  <2>1. status' \in Statuses /\ look' \in Looks /\ config' \in Configs
        /\ {missed', beside'} \subseteq BOOLEAN
    BY <1>6, Zenon DEF TypeOK, TakeDisconnected, Take, IsReturn, ConnectionMayRun, Statuses,
       Looks, Configs, Away, Instants
  <2> QED
    BY <1>6, <2>1 DEF TypeOK, TakeDisconnected, Take, IsReturn, ConnectionMayRun, Events
<1>7. CASE RecordConnection
  <2>1. status' \in Statuses /\ look' \in Looks /\ config' \in Configs
    BY <1>7, Zenon DEF TypeOK, RecordConnection, Looks, Away, Instants
  <2>2. OpenOrMiss("transport") \/ CloseOrMiss("transport")
    BY <1>7 DEF RecordConnection
  <2> QED
    BY <1>7, <2>1, <2>2, EdgeTypes DEF TypeOK, RecordConnection, Detectors
<1>8. CASE TakeRead
  <2>1. status' \in Statuses /\ look' \in Looks /\ config' \in Configs
        /\ {missed', beside'} \subseteq BOOLEAN
    BY <1>8, Zenon DEF TypeOK, TakeRead, Take, IsReturn, Statuses, Looks, Configs, Away, Instants
  <2> QED
    BY <1>8, <2>1 DEF TypeOK, TakeRead, Take, IsReturn, Events
<1>9. CASE StoreFails
  <2>1. status' = [status EXCEPT !.fault = TRUE]
    BY <1>9 DEF StoreFails
  <2>2. status' \in Statuses
    BY <2>1, StatusUpdates DEF TypeOK
  <2> QED
    BY <1>9, <2>2 DEF TypeOK, StoreFails, Disturb
<1>10. CASE Stored
  <2>1. status' = [status EXCEPT !.fault = FALSE]
    BY <1>10 DEF Stored
  <2>2. status' \in Statuses
    BY <2>1, StatusUpdates DEF TypeOK
  <2> QED
    BY <1>10, <2>2 DEF TypeOK, Stored
<1>11. CASE TakeAlive
  <2>1. status' \in Statuses /\ look' \in Looks /\ config' \in Configs
        /\ {missed', beside'} \subseteq BOOLEAN
    BY <1>11, Zenon DEF TypeOK, TakeAlive, Take, IsReturn, Statuses, Looks, Configs, Away,
       Instants
  <2> QED
    BY <1>11, <2>1 DEF TypeOK, TakeAlive, Take, IsReturn, Events
<1>12. CASE Tick
  BY <1>12 DEF TypeOK, Tick, TickMayRun, Statuses, Looks, Gaps, Configs, Away, Instants,
     Detectors, Events
<1>13. CASE Heartbeat
  <2>1. status' \in Statuses /\ look' \in Looks /\ config' \in Configs
    BY <1>13, Zenon DEF TypeOK, Heartbeat, HeartbeatVerdict, Looks, Away, Instants
  <2>2. OpenOrMiss("heartbeat") \/ CloseOrMiss("heartbeat")
    BY <1>13 DEF Heartbeat
  <2> QED
    BY <1>13, <2>1, <2>2, EdgeTypes DEF TypeOK, Heartbeat, Detectors
<1>14. CASE Flag
  <2>1. status' = [status EXCEPT !.heartbeatGap = look.opened] /\ look.opened \in BOOLEAN
    BY <1>14, LookFields DEF TypeOK, Flag
  <2>2. look' \in {Away, [look EXCEPT !.at = "silence"]}
    BY <1>14 DEF Flag
  <2>3. status' \in Statuses /\ look' \in Looks
    BY <2>1, <2>2, StatusUpdates, LookUpdates DEF TypeOK
  <2> QED
    BY <1>14, <2>3 DEF TypeOK, Flag
<1>15. CASE Silence
  <2>1. status' \in Statuses /\ look' \in Looks /\ config' \in Configs
    BY <1>15, Zenon DEF TypeOK, Silence, HeartbeatVerdict, SilenceVerdict, Looks, Away, Instants
  <2>2. OpenOrMiss("silence") \/ CloseOrMiss("silence") \/ (Calm /\ UNCHANGED evidence)
    BY <1>15 DEF Silence
  <2> QED
    BY <1>15, <2>1, <2>2, EdgeTypes DEF TypeOK, Silence, Detectors
<1>16. CASE SilencePasses
  <2>1. /\ status' = [status EXCEPT !.lastMessage = "old"]
        /\ look' = [look EXCEPT !.lastMessage = Aged(look.lastMessage)]
    BY <1>16 DEF SilencePasses
  <2>2. Aged(look.lastMessage) \in Instants
    BY LookFields DEF TypeOK, Aged, Instants
  <2>3. status' \in Statuses /\ look' \in Looks
    BY <2>1, <2>2, StatusUpdates, LookUpdates DEF TypeOK
  <2> QED
    BY <1>16, <2>3 DEF TypeOK, SilencePasses
<1>17. CASE HeartbeatPasses
  <2>1. /\ status' = [status EXCEPT !.lastHeard = "old"]
        /\ look' = [look EXCEPT !.lastHeard = Aged(look.lastHeard)]
    BY <1>17 DEF HeartbeatPasses
  <2>2. Aged(look.lastHeard) \in Instants
    BY LookFields DEF TypeOK, Aged, Instants
  <2>3. status' \in Statuses /\ look' \in Looks
    BY <2>1, <2>2, StatusUpdates, LookUpdates DEF TypeOK
  <2> QED
    BY <1>17, <2>3 DEF TypeOK, HeartbeatPasses
<1>18. CASE TickIsLate
  <2>1. look' \in {[look EXCEPT !.lastMessage = "old"], [look EXCEPT !.lastHeard = "old"]}
    BY <1>18 DEF TickIsLate
  <2>2. look' \in Looks
    BY <2>1, LookUpdates DEF TypeOK, Instants
  <2> QED
    BY <1>18, <2>2 DEF TypeOK, TickIsLate, Disturb
<1>19. CASE Configure
  <2>1. PICK key \in {"silence", "heartbeat"} : config' = [config EXCEPT ![key] = ~@]
    BY <1>19 DEF TypeOK, Configs, Configure
  <2>2. config' \in Configs
    <3>1. CASE key = "silence"
      BY <2>1, <3>1, Zenon DEF TypeOK, Configs
    <3>2. CASE key = "heartbeat"
      BY <2>1, <3>2, Zenon DEF TypeOK, Configs
    <3> QED
      BY <3>1, <3>2
  <2> QED
    BY <1>19, <2>2 DEF TypeOK, Configure
<1>20. CASE ThresholdRaised
  BY <1>20 DEF TypeOK, ThresholdRaised, Disturb, MovedOn, Excused, Statuses, Looks, Gaps, Configs,
     Away, Instants, Detectors, Events
<1>21. CASE Restart
  BY <1>21 DEF TypeOK, Restart, Disturb, Excused, NoReader, Statuses, Looks, Gaps, Configs, Away,
     Instants, Detectors, Events
<1>22. CASE Compose
  <2>1. status' = [status EXCEPT !.watching = TRUE, !.lastMessage = "fresh"]
    BY <1>22 DEF Compose
  <2>2. status' \in Statuses
    BY <2>1, StatusUpdates DEF TypeOK
  <2> QED
    BY <1>22, <2>2 DEF TypeOK, Compose
<1>23. CASE UNCHANGED vars
  BY <1>23 DEF vars, TypeOK
<1> QED
  BY <1>1, <1>2, <1>3, <1>4, <1>5, <1>6, <1>7, <1>8, <1>9, <1>10, <1>11, <1>12, <1>13, <1>14,
     <1>15, <1>16, <1>17, <1>18, <1>19, <1>20, <1>21, <1>22, <1>23 DEF Next, Provider, ReadThread,
     Watchdog

(* A process begins with the types, and with the invariant.                *)
LEMMA InitTypes ==
    ASSUME Init
    PROVE  TypeOK
<1>1. status \in Statuses /\ look \in Looks /\ gap \in Gaps
  BY Zenon DEF Init, NoReader, Away, Statuses, Looks, Gaps, Instants, Detectors
<1>2. {missed, beside} \subseteq BOOLEAN
  BY Zenon DEF Init
<1>3. channel \in Seq(Events) /\ Len(channel) <= Capacity /\ disturbances \in 0..MaxDisturbances
  BY CapacityAndBounds DEF Init
<1> QED
  BY <1>1, <1>2, <1>3 DEF Init, TypeOK

(* The reader's status, the threads and the rows keep their types in every *)
(* behaviour.                                                              *)
THEOREM GapsTypeCorrect == Spec => []TypeOK
<1>1. Init => TypeOK
  BY InitTypes
<1>2. TypeOK /\ [Next]_vars => TypeOK'
  BY TypeStep
<1> QED
  BY <1>1, <1>2, PTL DEF Spec
-----------------------------------------------------------------------------
(***************************************************************************)
(* The invariant.                                                          *)
(***************************************************************************)

(* Every step keeps it.                                                    *)
LEMMA InvStep ==
    ASSUME GapsInv, TypeOK', [Next]_vars
    PROVE  GapsInv'
<1> USE DEF Calm, provider, evidence, GapsInv, TypeOK, Composed, Apart, CopiesHold,
            BeliefIsRecorded, HeldOpen, Unexcused, Statuses, Looks, Gaps, Away, NoReader
<1>1. CASE PortOpens
  BY <1>1 DEF PortOpens
<1>2. CASE Started
  BY <1>2 DEF Started
<1>3. CASE Lost
  BY <1>3 DEF Lost
<1>4. CASE Reports
  BY <1>4 DEF Reports
<1>5. CASE TakeConnected
  BY <1>5 DEF TakeConnected, Take, IsReturn, ConnectionMayRun
<1>6. CASE TakeDisconnected
  BY <1>6 DEF TakeDisconnected, Take, IsReturn, ConnectionMayRun
<1>7. CASE RecordConnection
  BY <1>7 DEF RecordConnection, OpenOrMiss, CloseOrMiss, Open, Close, NotWritten, Excused
<1>8. CASE TakeRead
  BY <1>8 DEF TakeRead, Take, IsReturn
<1>9. CASE StoreFails
  BY <1>9 DEF StoreFails
<1>10. CASE Stored
  BY <1>10 DEF Stored
<1>11. CASE TakeAlive
  BY <1>11 DEF TakeAlive, Take, IsReturn
<1>12. CASE Tick
  BY <1>12 DEF Tick, TickMayRun
<1>13. CASE Heartbeat
  BY <1>13 DEF Heartbeat, OpenOrMiss, CloseOrMiss, Open, Close, NotWritten, Excused,
     HeartbeatVerdict
<1>14. CASE Flag
  BY <1>14 DEF Flag
<1>15. CASE Silence
  BY <1>15 DEF Silence, OpenOrMiss, CloseOrMiss, Open, Close, NotWritten, Excused,
     HeartbeatVerdict, SilenceVerdict
<1>16. CASE SilencePasses
  BY <1>16 DEF SilencePasses, Aged
<1>17. CASE HeartbeatPasses
  BY <1>17 DEF HeartbeatPasses, Aged
<1>18. CASE TickIsLate
  BY <1>18 DEF TickIsLate, MovedOn
<1>19. CASE Configure
  BY <1>19 DEF Configure
<1>20. CASE ThresholdRaised
  BY <1>20 DEF ThresholdRaised, MovedOn, Excused
<1>21. CASE Restart
  BY <1>21 DEF Restart, Excused
<1>22. CASE Compose
  BY <1>22 DEF Compose
<1>23. CASE UNCHANGED vars
  BY <1>23 DEF vars
<1> QED
  BY Zenon, <1>1, <1>2, <1>3, <1>4, <1>5, <1>6, <1>7, <1>8, <1>9, <1>10, <1>11, <1>12, <1>13, <1>14,
     <1>15, <1>16, <1>17, <1>18, <1>19, <1>20, <1>21, <1>22, <1>23 DEF Next, Provider, ReadThread,
     Watchdog

(* So it holds in every behaviour.                                         *)
LEMMA GapsInvariant == Spec => []GapsInv
<1>1. Init => GapsInv
  <2>1. ASSUME Init
        PROVE  GapsInv
    <3>1. TypeOK
      BY <2>1, InitTypes
    <3> QED
      BY <2>1, <3>1 DEF Init, GapsInv, Composed, Apart, CopiesHold, BeliefIsRecorded, HeldOpen,
                        Unexcused, NoReader, Away
  <2> QED
    BY <2>1
<1>2. GapsInv /\ TypeOK' /\ [Next]_vars => GapsInv'
  BY InvStep
<1> QED
  BY <1>1, <1>2, GapsTypeCorrect, PTL DEF Spec
-----------------------------------------------------------------------------
(***************************************************************************)
(* What it is for.                                                         *)
(***************************************************************************)

(* While the read thread knows the port is gone, or the heartbeat check    *)
(* believes the reader is, a gap is open: record_connection and            *)
(* check_for_silence take two locks each, one after the other, and no      *)
(* order of the two leaves a loss without its row.                         *)
THEOREM LossRecorded == Spec => []LossStaysRecorded
<1>1. GapsInv => LossStaysRecorded
  BY DEF GapsInv, BeliefIsRecorded, LossStaysRecorded
<1> QED
  BY <1>1, GapsInvariant, PTL

(* A tick that closes a gap saying that reads resumed has a reason to.     *)
LEMMA SilenceStep ==
    ASSUME GapsInv, Silence, Closes("silence")
    PROVE  excuse # "nothing" \/ beside
<1>1. SilenceVerdict = "close" /\ gap.open
  BY DEF Silence, Closes, OpenOrMiss, Open, NotWritten, evidence
<1>2. look.lastMessage # "old"
  BY <1>1 DEF SilenceVerdict
<1>3. look.at = "silence" \/ (look.at = "heartbeat" /\ ~look.heartbeatGap)
  <2>1. HeartbeatVerdict = "idle" => ~look.heartbeatGap
    BY Zenon DEF HeartbeatVerdict
  <2>2. look.at = "silence" \/ (look.at = "heartbeat" /\ HeartbeatVerdict = "idle")
    BY Zenon DEF Silence
  <2> QED
    BY <2>1, <2>2, Zenon
<1> SUFFICES ASSUME Unexcused
             PROVE  FALSE
  BY <1>1 DEF Unexcused
<1>4. ~status.transportDown /\ ~status.heartbeatGap
  BY <1>3 DEF GapsInv, Apart, CopiesHold, Unexcused
<1>5. status.lastMessage = "old" /\ look.since # "return"
  BY <1>3, <1>4 DEF GapsInv, HeldOpen
<1> QED
  BY <1>2, <1>3, <1>5 DEF GapsInv, CopiesHold

(* The watchdog writes "reads resumed" only once a read or a connection    *)
(* has been taken since the gap was opened, or there is another reason to: *)
(* it decides by a copy of the status made under a lock it has let go of.  *)
THEOREM ClosedForAReason == Spec => ResumedHasAReason
<1>1. ASSUME GapsInv, [Next]_vars
      PROVE  [Closes("silence") => excuse # "nothing" \/ beside]_vars
  <2> SUFFICES ASSUME Next, Closes("silence")
               PROVE  excuse # "nothing" \/ beside
    BY <1>1 DEF vars, Closes
  <2>1. CASE Silence
    BY <1>1, <2>1, SilenceStep
  <2>2. CASE RecordConnection
    BY <2>2 DEF RecordConnection, Closes, OpenOrMiss, CloseOrMiss, Open, Close, NotWritten
  <2>3. CASE Heartbeat
    BY <2>3 DEF Heartbeat, Closes, OpenOrMiss, CloseOrMiss, Open, Close, NotWritten
  <2>4. CASE Provider \/ SilencePasses \/ HeartbeatPasses \/ TickIsLate
                \/ Configure \/ ThresholdRaised
                \/ Restart \/ Compose
    BY <2>4 DEF Closes, Provider, PortOpens, Started, Lost, Reports, SilencePasses,
       HeartbeatPasses,
                TickIsLate, Configure, ThresholdRaised, Restart, Compose, evidence
  <2>5. CASE TakeConnected \/ TakeDisconnected \/ TakeRead \/ StoreFails \/ Stored \/ TakeAlive
                \/ Tick \/ Flag
    BY <2>5 DEF Closes, TakeConnected, TakeDisconnected, TakeRead, StoreFails, Stored, TakeAlive,
                Take, Tick, Flag, evidence
  <2> QED
    BY <2>1, <2>2, <2>3, <2>4, <2>5 DEF Next, ReadThread, Watchdog
<1> QED
  BY <1>1, GapsInvariant, PTL DEF Spec, ResumedHasAReason

-----------------------------------------------------------------------------
(***************************************************************************)
(* The clock.                                                              *)
(***************************************************************************)

Lines == {"gun", "start", "finish"}

(* An end of a result, taken at a time nothing else happened.              *)
IsEnd(e) ==
    /\ e.at \in Int /\ e.real \in Nat /\ e.real < now
    /\ e.real \notin jumps

(* Each step takes a tick of its own, so no two happened at once.          *)
ClockTypeOK ==
    /\ now \in Nat /\ ahead \in Int
    /\ jumps \subseteq Nat /\ \A t \in jumps : t < now
    /\ Some(baseline) => baseline.wall \in Int /\ baseline.mono \in Nat /\ baseline.mono <= now
    /\ \A s \in steps : s.before \in Int /\ s.after \in Int
    /\ \A w \in watched :
          /\ w.from \in Nat /\ w.to \in Nat /\ w.from <= w.to /\ w.to <= now
          /\ Some(baseline) => w.to <= baseline.mono
    /\ ends = [gun |-> ends.gun, start |-> ends.start, finish |-> ends.finish]
    /\ \A e \in {ends.gun, ends.start, ends.finish} : Some(e) => IsEnd(e)

(* A wall clock nobody moved since it was looked at has moved with time.   *)
Drifts ==
    Some(baseline) /\ (\A t \in jumps : t < baseline.mono) =>
        ahead = baseline.wall - baseline.mono

(* A clock nobody moved tells the time.                                    *)
Unmoved == jumps = {} => ahead = 0 /\ steps = {}

(* A time the device took of something, as a result is timed from it.      *)
Taken(e) == Some(e) /\ e.by = "device"

(* The watch saw the move at t as one since e.                             *)
Seen(e, t) == \E w \in watched : e.real <= w.from /\ w.from < t /\ t < w.to

NoStepIn(from, to) == \A s \in steps : ~Overlaps(s, from, to)

(* The wall clock since e: it went with time while nobody moved it.  Once  *)
(* it was moved, and always seen to be, without a step that reaches into   *)
(* the span of a result from e, it has left that span for good: the first  *)
(* step began in it or after it, and can only have been after it.          *)
NowSince(e) ==
    /\ (\A t \in jumps : t <= e.real) => ahead = e.at - e.real
    /\ \A to \in Int :
          e.at <= to /\ NoStepIn(e.at, to) /\ (\A t \in jumps : e.real < t => Seen(e, t)) =>
             (\A t \in jumps : t <= e.real) \/ Wall > to

(* The same at the last sample, for the next to begin from.                *)
SampleSince(e) ==
    Some(baseline) /\ e.real <= baseline.mono =>
        /\ (\A t \in jumps : t <= e.real \/ baseline.mono <= t) =>
              baseline.wall - baseline.mono = e.at - e.real
        /\ \A to \in Int :
              /\ e.at <= to /\ NoStepIn(e.at, to)
              /\ \A t \in jumps : e.real < t /\ t < baseline.mono => Seen(e, t)
              => (\A t \in jumps : t <= e.real \/ baseline.mono <= t) \/ baseline.wall > to

Followed == \A e \in {ends.gun, ends.start} : Taken(e) => NowSince(e) /\ SampleSince(e)

(* A result from e, as StepsAreSaid has it.                                *)
MovedBetween(e, f) == {t \in jumps : e.real < t /\ t < f.real}

BracketedBetween(e, f, t) ==
    \E w \in watched : e.real <= w.from /\ w.from < t /\ t < w.to /\ w.to <= f.real

(* Moved between, and seen to be each time: then a step says so.           *)
Flagged(e, f) ==
    /\ Taken(e) /\ Taken(f) /\ e.at <= f.at
    /\ MovedBetween(e, f) # {} /\ \A t \in MovedBetween(e, f) : BracketedBetween(e, f, t)
    => \E s \in steps : Overlaps(s, e.at, f.at)

AllFlagged == \A e \in {ends.gun, ends.start}, f \in {ends.finish} : Flagged(e, f)

StepsInv == ClockTypeOK /\ Drifts /\ Unmoved /\ Followed /\ AllFlagged
-----------------------------------------------------------------------------
(***************************************************************************)
(* Steps of the wall clock.                                                *)
(***************************************************************************)

LEMMA TwoOf ==
    ASSUME NEW a \in Int, NEW b \in Int
    PROVE  /\ Least({a, b}) = IF a <= b THEN a ELSE b
           /\ Greatest({a, b}) = IF a <= b THEN b ELSE a
<1>1. \E i \in {a, b} : \A j \in {a, b} : i <= j
  OBVIOUS
<1>2. \E i \in {a, b} : \A j \in {a, b} : j <= i
  OBVIOUS
<1>3. Least({a, b}) \in {a, b} /\ \A j \in {a, b} : Least({a, b}) <= j
  BY <1>1 DEF Least
<1>4. Greatest({a, b}) \in {a, b} /\ \A j \in {a, b} : j <= Greatest({a, b})
  BY <1>2 DEF Greatest
<1> QED
  BY <1>3, <1>4

(* A step reaches into a span unless both its readings are on one side.    *)
LEMMA OverlapsIs ==
    ASSUME NEW s, s.before \in Int, s.after \in Int, NEW from \in Int, NEW to \in Int
    PROVE  Overlaps(s, from, to) <=>
              (s.before <= to \/ s.after <= to) /\ (s.before >= from \/ s.after >= from)
<1> DEFINE b == s.before
           a == s.after
<1>1. b \in Int /\ a \in Int
  OBVIOUS
<1>2. Overlaps(s, from, to) <=> Least({b, a}) <= to /\ Greatest({b, a}) >= from
  BY DEF Overlaps
<1> HIDE DEF b, a
<1>3. Least({b, a}) = (IF b <= a THEN b ELSE a) /\ Greatest({b, a}) = (IF b <= a THEN a ELSE b)
  BY <1>1, TwoOf
<1>4. Overlaps(s, from, to) <=> (b <= to \/ a <= to) /\ (b >= from \/ a >= from)
  BY <1>1, <1>2, <1>3
<1> QED
  BY <1>4 DEF b, a

(* What a reader says is taken for what it says, or for the receipt.       *)
LEMMA ReceivedIs ==
    ASSUME NEW timestamp \in Said, Readers \subseteq Int, now \in Nat, ahead \in Int
    PROVE  LET e == Received(timestamp) IN
           /\ e.real = now /\ e.at \in Int
           /\ \/ e.by = "reader"
              \/ /\ e.by = "device" /\ e.at = Wall
                 /\ e.trusted = IsTrustworthy(StateToStamp) /\ e.heard = heard
<1>1. CASE timestamp.kind = "absent"
  BY <1>1 DEF Received, Normalize, Wall
<1>2. CASE timestamp.kind = "uptime"
  BY <1>2 DEF Received, Normalize, Wall
<1>3. CASE timestamp.kind = "utc" /\ timestamp.at \in Int
  BY <1>3 DEF Received, Normalize, Wall
<1> QED
  BY <1>1, <1>2, <1>3 DEF Said
USE DEF Lines, TimePasses

LEMMA InitSteps == ClockInit => StepsInv
<1> SUFFICES ASSUME ClockInit
             PROVE  StepsInv
  OBVIOUS
<1>1. \A e \in {ends.gun, ends.start, ends.finish} : ~Some(e)
  BY DEF ClockInit, Some
<1>2. /\ now = 0 /\ ahead = 0 /\ jumps = {} /\ steps = {} /\ watched = {}
      /\ ends = [gun |-> ends.gun, start |-> ends.start, finish |-> ends.finish]
  BY DEF ClockInit
<1>3. Wall = 0 /\ baseline.wall = Wall /\ baseline.mono = now
  <2>1. baseline = Sampled
    BY DEF ClockInit
  <2>2. Sampled.wall = Wall /\ Sampled.mono = now
    BY DEF Sampled
  <2> QED
    BY <1>2, <2>1, <2>2 DEF Wall
<1>4. ClockTypeOK
  BY <1>1, <1>2, <1>3 DEF ClockTypeOK
<1>5. Drifts /\ Unmoved /\ Followed /\ AllFlagged
  BY <1>1, <1>2, <1>3 DEF Drifts, Unmoved, Followed, AllFlagged, Flagged, Taken
<1> QED
  BY <1>4, <1>5 DEF StepsInv

(* The gun, or a crossing.  A finish ends the span of what came before it. *)
LEMMA NewEnd ==
    ASSUME StepsInv, now' = now + 1, UNCHANGED <<ahead, baseline, steps, jumps, watched>>,
           NEW line \in Lines, ends[line] = None, NEW e, ends' = [ends EXCEPT ![line] = e],
           e.real = now, e.at \in Int, e.by = "device" => e.at = Wall
    PROVE  StepsInv'
<1>1. /\ ends' = [gun |-> ends'.gun, start |-> ends'.start, finish |-> ends'.finish]
      /\ ends'.gun = IF line = "gun" THEN e ELSE ends.gun
      /\ ends'.start = IF line = "start" THEN e ELSE ends.start
      /\ ends'.finish = IF line = "finish" THEN e ELSE ends.finish
  BY DEF StepsInv, ClockTypeOK
<1>2. ClockTypeOK'
  BY <1>1 DEF StepsInv, ClockTypeOK, IsEnd
<1>3. Drifts' /\ Unmoved'
  BY DEF StepsInv, Drifts, Unmoved
<1>4. /\ now \in Nat /\ ahead \in Int /\ \A t \in jumps : t \in Nat /\ t < now
      /\ Some(baseline) =>
            baseline.wall \in Int /\ baseline.mono \in Nat /\ baseline.mono <= now
  BY DEF StepsInv, ClockTypeOK
<1>5. ASSUME NEW x \in {ends'.gun, ends'.start}, Taken(x)
      PROVE  NowSince(x)' /\ SampleSince(x)'
  <2>1. CASE x = e
    <3>1. e.by = "device" /\ e.at = Wall
      BY <1>5, <2>1 DEF Taken
    <3>2. NowSince(e)'
      BY <1>4, <3>1 DEF NowSince, Wall
    <3>3. SampleSince(e)'
      BY <1>4, <3>1 DEF SampleSince, StepsInv, Drifts, Wall
    <3> QED
      BY <2>1, <3>2, <3>3
  <2>2. CASE x \in {ends.gun, ends.start}
    <3>1. NowSince(x) /\ SampleSince(x)
      BY <1>5, <2>2 DEF StepsInv, Followed
    <3>2. NowSince(x)'
      BY <1>4, <3>1 DEF NowSince, Wall, Seen, NoStepIn, Overlaps
    <3>3. SampleSince(x)'
      BY <1>4, <3>1 DEF SampleSince, Seen, NoStepIn, Overlaps
    <3> QED
      BY <3>2, <3>3
  <2> QED
    BY <1>1, <2>1, <2>2
<1>6. Followed'
  BY <1>5 DEF Followed, Taken, Some, None
<1>7. ASSUME NEW x \in {ends'.gun, ends'.start}, NEW f, f = ends'.finish
      PROVE  Flagged(x, f)'
  <2> SUFFICES ASSUME Taken(x), Taken(f), x.at <= f.at,
                      MovedBetween(x, f) # {},
                      \A t \in MovedBetween(x, f) : BracketedBetween(x, f, t)
               PROVE  \E s \in steps : Overlaps(s, x.at, f.at)
    BY DEF Flagged, MovedBetween, BracketedBetween, Taken, Some, None, Overlaps
  <2>1. CASE x \in {ends.gun, ends.start} /\ f = ends.finish
    BY <2>1 DEF StepsInv, AllFlagged, Flagged
  <2>2. CASE x = e /\ f = ends.finish
    <3>1. f.real < now
      BY <2>2 DEF StepsInv, ClockTypeOK, IsEnd, Taken
    <3>2. MovedBetween(x, f) = {}
      BY <1>4, <2>2, <3>1 DEF MovedBetween, StepsInv, ClockTypeOK, IsEnd, Taken
    <3> QED
      BY <3>2
  <2>3. CASE x \in {ends.gun, ends.start} /\ f = e
    <3>1. NowSince(x) /\ IsEnd(x)
      BY <2>3 DEF StepsInv, Followed, Taken, ClockTypeOK
    <3>2. f.at = Wall /\ f.real = now
      BY <2>3 DEF Taken
    <3>3. PICK t \in jumps : x.real < t
      BY DEF MovedBetween
    <3>4. \A u \in jumps : x.real < u => Seen(x, u)
      BY <1>4, <3>2 DEF MovedBetween, BracketedBetween, Seen
    <3>5. ~NoStepIn(x.at, Wall)
      BY <1>4, <3>1, <3>2, <3>3, <3>4 DEF NowSince, IsEnd, Wall
    <3> QED
      BY <3>2, <3>5 DEF NoStepIn
  <2> QED
    BY <1>1, <1>7, <2>1, <2>2, <2>3
<1>8. AllFlagged'
  BY <1>7 DEF AllFlagged
<1> QED
  BY <1>2, <1>3, <1>6, <1>8 DEF StepsInv

(* A jump is yet to be seen.                                               *)
LEMMA Jumped ==
    ASSUME StepsInv, Jump, Forward \cup Back \subseteq Nat
    PROVE  StepsInv'
<1>1. /\ now' = now + 1 /\ jumps' = jumps \cup {now} /\ ahead' \in Int
      /\ UNCHANGED <<baseline, steps, watched, ends>>
  BY DEF Jump, StepsInv, ClockTypeOK
<1>2. /\ now \in Nat /\ ahead \in Int /\ \A t \in jumps : t \in Nat /\ t < now
      /\ Some(baseline) =>
            baseline.wall \in Int /\ baseline.mono \in Nat /\ baseline.mono <= now
      /\ \A w \in watched : w.to \in Nat /\ w.to <= now
  BY DEF StepsInv, ClockTypeOK
<1>3. ClockTypeOK'
  BY <1>1, <1>2 DEF StepsInv, ClockTypeOK, IsEnd
<1>4. Drifts' /\ Unmoved'
  BY <1>1, <1>2 DEF StepsInv, Drifts, Unmoved
<1>5. ASSUME NEW x \in {ends.gun, ends.start}, Taken(x)
      PROVE  NowSince(x)' /\ SampleSince(x)'
  <2>1. IsEnd(x) /\ NowSince(x) /\ SampleSince(x)
    BY <1>5 DEF StepsInv, Followed, ClockTypeOK, Taken
  <2>2. ASSUME NEW t, t = now
        PROVE  ~Seen(x, t)' /\ t \in jumps' /\ x.real < t
    BY <1>1, <1>2, <2>1, <2>2 DEF Seen, IsEnd
  <2>3. NowSince(x)'
    BY <1>2, <2>1, <2>2 DEF NowSince, IsEnd
  <2>4. SampleSince(x)'
    BY <1>1, <1>2, <2>1 DEF SampleSince, Seen, NoStepIn, Overlaps, IsEnd
  <2> QED
    BY <2>3, <2>4
<1>6. Followed'
  BY <1>1, <1>5 DEF Followed, Taken, Some, None
<1>7. ASSUME NEW x \in {ends.gun, ends.start}, NEW f, f = ends.finish
      PROVE  Flagged(x, f)'
  <2> SUFFICES ASSUME Taken(f)
               PROVE  Flagged(x, f)'
    BY DEF Flagged, Taken, Some, None
  <2>1. f.real < now /\ f.real \in Nat
    BY <1>7 DEF StepsInv, ClockTypeOK, IsEnd, Taken
  <2>2. MovedBetween(x, f)' = MovedBetween(x, f)
    BY <1>1, <1>2, <2>1 DEF MovedBetween
  <2>3. \A t : BracketedBetween(x, f, t)' = BracketedBetween(x, f, t)
    BY <1>1 DEF BracketedBetween
  <2>4. Flagged(x, f)
    BY <1>7 DEF StepsInv, AllFlagged
  <2> QED
    BY <1>1, <2>2, <2>3, <2>4 DEF Flagged, Taken, Some, None, Overlaps
<1>8. AllFlagged'
  BY <1>1, <1>7 DEF AllFlagged
<1> QED
  BY <1>3, <1>4, <1>6, <1>8 DEF StepsInv

(* A sample, or a new service's first.                                     *)
LEMMA SampledAgain ==
    ASSUME StepsInv, baseline' = Sampled, now' = now + 1,
           UNCHANGED <<ahead, jumps, ends>>,
           \/ UNCHANGED <<steps, watched>>
           \/ /\ Some(baseline) /\ IsStep(baseline, Sampled)
              /\ steps' = steps \cup {Observed(baseline, Sampled)}
              /\ watched' = watched \cup {[from |-> baseline.mono, to |-> now]}
    PROVE  StepsInv'
<1>1. /\ now \in Nat /\ ahead \in Int /\ Wall \in Int /\ Wall = now + ahead
      /\ \A t \in jumps : t \in Nat /\ t < now
      /\ Some(baseline) =>
            baseline.wall \in Int /\ baseline.mono \in Nat /\ baseline.mono <= now
      /\ \A w \in watched : w.from \in Nat /\ w.to \in Nat /\ w.from <= w.to /\ w.to <= now
      /\ Some(baseline) => \A w \in watched : w.to <= baseline.mono
  BY DEF StepsInv, ClockTypeOK, Wall
<1>2. baseline'.wall = Wall /\ baseline'.mono = now
  BY DEF Sampled
<1>3. \/ UNCHANGED <<steps, watched>>
      \/ /\ Some(baseline)
         /\ \E s : s.before = baseline.wall /\ s.after = Wall /\ steps' = steps \cup {s}
         /\ \E w : w.from = baseline.mono /\ w.to = now /\ watched' = watched \cup {w}
  BY DEF Observed, Sampled
<1>4. ClockTypeOK'
  BY <1>1, <1>2, <1>3 DEF StepsInv, ClockTypeOK, IsEnd
<1>5. Drifts'
  BY <1>1, <1>2 DEF Drifts
<1>6. Unmoved'
  <2> SUFFICES ASSUME jumps = {}
               PROVE  steps' = {}
    BY DEF Unmoved, StepsInv
  <2>1. steps = {} /\ (Some(baseline) => baseline.wall - baseline.mono = Wall - now)
    BY <1>1 DEF StepsInv, Unmoved, Drifts
  <2>2. ASSUME Some(baseline)
        PROVE  ~IsStep(baseline, Sampled)
    <3>1. Sampled.wall = Wall /\ Sampled.mono = now
      BY DEF Sampled
    <3>2. (Wall - baseline.wall) - (now - baseline.mono) = 0
      BY <1>1, <2>1, <2>2
    <3>3. Abs(0) = 0 /\ ~(0 > Threshold)
      BY ClockAssumption DEF Abs
    <3> QED
      BY <3>1, <3>2, <3>3 DEF IsStep
  <2> QED
    BY <2>1, <2>2
<1>7. ASSUME NEW x \in {ends.gun, ends.start}, Taken(x)
      PROVE  NowSince(x)' /\ SampleSince(x)'
  <2>1. IsEnd(x) /\ NowSince(x) /\ SampleSince(x)
    BY <1>7 DEF StepsInv, Followed, ClockTypeOK, Taken
  <2>2. (\A t \in jumps : t <= x.real) => ahead = x.at - x.real
    BY <2>1 DEF NowSince
  <2>3. ASSUME NEW to \in Int, x.at <= to, NoStepIn(x.at, to)',
               \A t \in jumps : x.real < t => Seen(x, t)'
        PROVE  (\A t \in jumps : t <= x.real) \/ Wall > to
    <3>1. NoStepIn(x.at, to)
      BY <1>3, <2>3 DEF NoStepIn, Overlaps
    <3>2. CASE UNCHANGED <<steps, watched>>
      <4>1. \A t \in jumps : x.real < t => Seen(x, t)
        BY <2>3, <3>2 DEF Seen
      <4> QED
        BY <2>1, <2>3, <3>1, <4>1 DEF NowSince
    <3>3. CASE ~UNCHANGED <<steps, watched>>
      <4>1. PICK s : s.before = baseline.wall /\ s.after = Wall /\ steps' = steps \cup {s}
        BY <1>3, <3>3
      <4>2. PICK w : w.from = baseline.mono /\ w.to = now /\ watched' = watched \cup {w}
        BY <1>3, <3>3
      <4>3. Some(baseline)
        BY <1>3, <3>3
      <4>4. ASSUME x.real <= baseline.mono
            PROVE  (\A t \in jumps : t <= x.real) \/ Wall > to
        <5>1. \A t \in jumps : x.real < t /\ t < baseline.mono => Seen(x, t)
          BY <1>1, <2>1, <2>3, <4>2, <4>3 DEF Seen, IsEnd
        <5>2. (\A t \in jumps : t <= x.real \/ baseline.mono <= t) \/ baseline.wall > to
          BY <2>1, <2>3, <3>1, <4>3, <4>4, <5>1 DEF SampleSince
        <5>3. (\A t \in jumps : t <= x.real \/ baseline.mono <= t) =>
                 baseline.wall - baseline.mono = x.at - x.real
          BY <2>1, <4>3, <4>4 DEF SampleSince
        <5>4. baseline.wall >= x.at
          BY <1>1, <2>1, <2>3, <4>3, <4>4, <5>2, <5>3 DEF IsEnd
        <5>5. ~Overlaps(s, x.at, to)
          BY <2>3, <4>1 DEF NoStepIn, Overlaps
        <5>6. (baseline.wall <= to \/ Wall <= to) /\ (baseline.wall >= x.at \/ Wall >= x.at)
                 => Overlaps(s, x.at, to)
          BY <1>1, <2>1, <4>1, <4>3, OverlapsIs DEF IsEnd
        <5> QED
          BY <1>1, <5>4, <5>5, <5>6
      <4>5. ASSUME baseline.mono < x.real
            PROVE  \A t \in jumps : t <= x.real
        BY <1>1, <2>1, <2>3, <4>2, <4>3, <4>5 DEF Seen, IsEnd
      <4> QED
        BY <1>1, <2>1, <4>3, <4>4, <4>5 DEF IsEnd
    <3> QED
      BY <3>2, <3>3
  <2>4. NowSince(x)'
    BY <1>1, <2>1, <2>2, <2>3 DEF NowSince, Wall, IsEnd
  <2>5. SampleSince(x)'
    BY <1>1, <1>2, <2>1, <2>2, <2>3 DEF SampleSince, Wall, IsEnd
  <2> QED
    BY <2>4, <2>5
<1>8. Followed'
  BY <1>7 DEF Followed, Taken, Some, None
<1>9. ASSUME NEW x \in {ends.gun, ends.start}, NEW f, f = ends.finish
      PROVE  Flagged(x, f)'
  <2> SUFFICES ASSUME Taken(f)
               PROVE  Flagged(x, f)'
    BY DEF Flagged, Taken, Some, None
  <2>1. f.real < now /\ f.real \in Nat
    BY <1>9 DEF StepsInv, ClockTypeOK, IsEnd, Taken
  <2>2. MovedBetween(x, f)' = MovedBetween(x, f)
    BY DEF MovedBetween
  <2>3. \A t : BracketedBetween(x, f, t)' => BracketedBetween(x, f, t)
    BY <1>1, <1>3, <2>1 DEF BracketedBetween
  <2>4. Flagged(x, f)
    BY <1>9 DEF StepsInv, AllFlagged
  <2>5. steps \subseteq steps'
    BY <1>3
  <2> QED
    BY <2>2, <2>3, <2>4, <2>5 DEF Flagged, Taken, Some, None, Overlaps
<1>10. AllFlagged'
  BY <1>9 DEF AllFlagged
<1> QED
  BY <1>4, <1>5, <1>6, <1>8, <1>10 DEF StepsInv

(* The daemon is asked, the service dies, or nothing happens.              *)
LEMMA Waited ==
    ASSUME StepsInv, baseline' = baseline \/ baseline' = None, now' \in {now, now + 1},
           UNCHANGED <<ahead, steps, jumps, ends, watched>>
    PROVE  StepsInv'
<1>1. /\ now \in Nat /\ ahead \in Int
      /\ Some(baseline) =>
            baseline.wall \in Int /\ baseline.mono \in Nat /\ baseline.mono <= now
  BY DEF StepsInv, ClockTypeOK, Wall
<1>2. Some(baseline') => baseline' = baseline
  BY DEF Some
<1>3. ClockTypeOK'
  BY <1>1, <1>2 DEF StepsInv, ClockTypeOK, IsEnd, Some
<1>4. Drifts' /\ Unmoved'
  BY <1>2 DEF StepsInv, Drifts, Unmoved, Some
<1>5. ASSUME NEW x \in {ends.gun, ends.start}, Taken(x)
      PROVE  NowSince(x)' /\ SampleSince(x)'
  <2>1. NowSince(x) /\ SampleSince(x)
    BY <1>5 DEF StepsInv, Followed
  <2>2. NowSince(x)'
    BY <1>1, <2>1 DEF NowSince, Wall, Seen, NoStepIn, Overlaps
  <2>3. SampleSince(x)'
    BY <1>1, <1>2, <2>1 DEF SampleSince, Seen, NoStepIn, Overlaps, Some
  <2> QED
    BY <2>2, <2>3
<1>6. Followed'
  BY <1>5 DEF Followed, Taken, Some, None
<1>7. AllFlagged'
  BY DEF AllFlagged, StepsInv, Flagged, Taken, Some, None, Overlaps, MovedBetween, BracketedBetween
<1> QED
  BY <1>3, <1>4, <1>6, <1>7 DEF StepsInv

LEMMA StepsStep == StepsInv /\ [ClockNext]_clockVars => StepsInv'
<1> SUFFICES ASSUME StepsInv, [ClockNext]_clockVars
             PROVE  StepsInv'
  OBVIOUS
<1>0. now \in Nat /\ ahead \in Int /\ Readers \subseteq Int
  BY ClockAssumption DEF StepsInv, ClockTypeOK
<1>1. CASE Jump
  <2>1. Forward \cup Back \subseteq Nat
    BY ClockAssumption
  <2> QED
    BY <1>1, <2>1, Jumped
<1>2. CASE StartService
  <2>1. ~Some(baseline)
    BY <1>2 DEF StartService, Some
  <2> QED
    BY <1>2, <2>1, SampledAgain DEF StartService
<1>3. CASE SampleTheClock
  <2>1. /\ Some(baseline) /\ baseline' = Sampled /\ now' = now + 1
        /\ UNCHANGED <<ahead, jumps, ends>>
    BY <1>3 DEF SampleTheClock
  <2>2. PICK written \in BOOLEAN :
           /\ steps' = steps \cup {o \in {Observed(baseline, Sampled)} :
                                      written /\ IsStep(baseline, Sampled)}
           /\ watched' = watched \cup
                  {w \in {[from |-> baseline.mono, to |-> now]} :
                      /\ written
                      /\ Abs(ahead - (baseline.wall - baseline.mono)) > Threshold}
    BY <1>3 DEF SampleTheClock
  <2>3. IsStep(baseline, Sampled) <=> Abs(ahead - (baseline.wall - baseline.mono)) > Threshold
    <3>1. Sampled.wall = now + ahead /\ Sampled.mono = now
      BY DEF Sampled, Wall
    <3>2. baseline.wall \in Int /\ baseline.mono \in Nat
      BY <2>1 DEF StepsInv, ClockTypeOK
    <3>3. ((now + ahead) - baseline.wall) - (now - baseline.mono)
             = ahead - (baseline.wall - baseline.mono)
      BY <1>0, <3>2
    <3> QED
      BY <3>1, <3>3 DEF IsStep
  <2>4. CASE written /\ IsStep(baseline, Sampled)
    <3>1. /\ steps' = steps \cup {Observed(baseline, Sampled)}
          /\ watched' = watched \cup {[from |-> baseline.mono, to |-> now]}
      BY <2>2, <2>3, <2>4
    <3> QED
      BY <2>1, <2>4, <3>1, SampledAgain
  <2>5. CASE ~(written /\ IsStep(baseline, Sampled))
    <3>1. UNCHANGED <<steps, watched>>
      BY <2>2, <2>3, <2>5
    <3> QED
      BY <2>1, <3>1, SampledAgain
  <2> QED
    BY <2>4, <2>5
<1>4. CASE AskTheDaemon
  BY <1>4, Waited DEF AskTheDaemon
<1>5. CASE FireTheGun
  <2>1. PICK e : e = [at |-> Wall, real |-> now, by |-> "device"]
    OBVIOUS
  <2>2. e.at = Wall /\ e.real = now /\ Wall \in Int
    BY <1>0, <2>1 DEF Wall
  <2>3. ends.gun = None /\ ends' = [ends EXCEPT !.gun = e]
    BY <1>5, <2>1 DEF FireTheGun
  <2> QED
    BY <1>5, <2>2, <2>3, NewEnd DEF FireTheGun
<1>6. ASSUME NEW line \in {"start", "finish"}, Cross(line)
      PROVE  StepsInv'
  <2>1. /\ now' = now + 1 /\ ends[line] = None
        /\ UNCHANGED <<ahead, baseline, steps, jumps, watched>>
    BY <1>6 DEF Cross
  <2>2. ASSUME NEW timestamp \in Said, ends' = [ends EXCEPT ![line] = Received(timestamp)]
        PROVE  StepsInv'
    <3>1. PICK e : e = Received(timestamp)
      OBVIOUS
    <3>2. e.real = now /\ e.at \in Int /\ (e.by = "device" => e.at = Wall)
      BY <1>0, <3>1, ReceivedIs
    <3> QED
      BY <2>1, <2>2, <3>1, <3>2, NewEnd
  <2>3. ASSUME ends' = [ends EXCEPT ![line] = [at |-> now, real |-> now, by |-> "hand"]]
        PROVE  StepsInv'
    <3>1. PICK e : e = [at |-> now, real |-> now, by |-> "hand"]
      OBVIOUS
    <3>2. e.real = now /\ e.at \in Int /\ e.by # "device"
      BY <1>0, <3>1
    <3> QED
      BY <2>1, <2>3, <3>1, <3>2, NewEnd
  <2> QED
    BY <1>6, <2>2, <2>3 DEF Cross
<1>7. CASE Kill
  BY <1>7, Waited DEF Kill
<1>8. CASE UNCHANGED clockVars
  BY <1>8, Waited DEF clockVars
<1> QED
  BY <1>1, <1>2, <1>3, <1>4, <1>5, <1>6, <1>7, <1>8 DEF ClockNext

(* A result is timed from one of the ends it has.                          *)
LEMMA FromIs ==
    ASSUME StepsInv, Since # {}
    PROVE  From \in Since
<1>1. \A e \in Since : e \in {ends.gun, ends.start} /\ Some(e) /\ e.at \in Int
  BY DEF StepsInv, ClockTypeOK, IsEnd, Since
<1>2. \E e \in Since : \A f \in Since : e.at <= f.at
  BY <1>1
<1> QED
  BY <1>2 DEF From

(* What the invariant says of the result as it is.                         *)
LEMMA StepsFlagged == StepsInv => StepsAreSaid
<1> SUFFICES ASSUME StepsInv
             PROVE  StepsAreSaid
  OBVIOUS
<1>1. ASSUME HasFinish, Since # {}, ends.finish.by = "device", From.by = "device",
             From.at <= ends.finish.at, MovedDuring # {}, \A t \in MovedDuring : Bracketed(t)
      PROVE  Stepped
  <2>1. From \in Since
    BY <1>1, FromIs
  <2>2. From \in {ends.gun, ends.start} /\ Taken(From)
    BY <1>1, <2>1 DEF Since, Taken
  <2>3. Taken(ends.finish)
    BY <1>1 DEF HasFinish, Taken
  <2>4. Flagged(From, ends.finish)
    BY <2>2 DEF StepsInv, AllFlagged
  <2>5. MovedDuring = MovedBetween(From, ends.finish)
    BY DEF MovedDuring, MovedBetween
  <2>6. \A t \in MovedDuring : BracketedBetween(From, ends.finish, t)
    BY <1>1 DEF Bracketed, BracketedBetween
  <2>7. \E s \in steps : Overlaps(s, From.at, ends.finish.at)
    BY <1>1, <2>2, <2>3, <2>4, <2>5, <2>6 DEF Flagged
  <2> QED
    BY <1>1, <2>7 DEF Stepped
<1>2. jumps = {} => ~Stepped
  BY DEF Stepped, StepsInv, Unmoved
<1> QED
  BY <1>1, <1>2 DEF StepsAreSaid
LEMMA SampleIs == Some(Sampled)
BY DEF Some, Sampled, None
-----------------------------------------------------------------------------
(***************************************************************************)
(* What the time daemon answers.                                           *)
(***************************************************************************)

(* Every daemon there is, by what chronyc does.                            *)
LEMMA KnownIs ==
    Known = {"gps", "network", "leapAhead", "lostIt", "neverHadOne", "columnsMoved",
             "columnsSwapped", "cutShort", "isDown", "isDownPolitely", "neverReplies",
             "isWedged", "notInstalled", "mayNotBeRun", "localStratum"}
BY DEF Known, Chronyc

LEMMA Fields ==
    /\ \A r, k : r = [is |-> k] => r.is = k
    /\ \A r, k, l : r = [is |-> k, line |-> l] => r.is = k /\ r.line = l
OBVIOUS

(* What is no answer is not trusted.                                       *)
LEMMA NoAnswerTrusted ==
    ASSUME NEW answer, answer.is # "Tracking"
    PROVE  ~IsTrustworthy(StateForEvidence(answer))
BY DEF StateForEvidence, IsTrustworthy

(* A line is trusted if it can be believed, and says there is a source.    *)
LEMMA LineTrusted ==
    ASSUME NEW line, line.is = "line"
    PROVE  IsTrustworthy(StateForEvidence(Classify(TRUE, line))) <=>
              /\ LooksPlausible(line) /\ IsSynchronized(line.leap)
              /\ line.stratum # 0 /\ line.reference_id # 0
<1>1. line # Complaint /\ Parses(line)
  BY DEF Complaint, Parses
<1>2. CASE LooksPlausible(line)
  <2>1. Classify(TRUE, line) = [is |-> "Tracking", line |-> line]
    BY <1>1, <1>2 DEF Classify
  <2>2. Classify(TRUE, line).is = "Tracking" /\ Classify(TRUE, line).line = line
    BY <2>1, Fields
  <2>3. StateForEvidence(Classify(TRUE, line)) = DeviceClockState(line)
    BY <2>2 DEF StateForEvidence
  <2> QED
    BY <1>2, <2>3 DEF DeviceClockState, IsTrustworthy
<1>3. CASE ~LooksPlausible(line)
  <2>1. Classify(TRUE, line) = [is |-> "Unreadable"]
    BY <1>1, <1>3 DEF Classify
  <2>2. Classify(TRUE, line).is = "Unreadable"
    BY <2>1, Fields
  <2> QED
    BY <1>3, <2>2, NoAnswerTrusted
<1> QED
  BY <1>2, <1>3

(* What chronyc prints is classified if it ends.                           *)
LEMMA Ended ==
    ASSUME NEW s, NEW succeeded, NEW said, Chronyc[s] = Ends(succeeded, said)
    PROVE  ReadTracking(s) = Classify(succeeded, said)
BY DEF ReadTracking, RunBounded, Ends

LEMMA NothingClassified ==
    ASSUME NEW succeeded \in BOOLEAN, NEW said, ~succeeded \/ said.is # "line"
    PROVE  Classify(succeeded, said).is # "Tracking"
<1>1. Classify(succeeded, said) = [is |-> "DaemonUnreachable"] \/
      Classify(succeeded, said) = [is |-> "Unreadable"]
  BY DEF Classify, Parses
<1> QED
  BY <1>1, Fields

LEMMA NeverRan ==
    ASSUME NEW s, NEW how \in {"never ends", "not found", "cannot be run"},
           Chronyc[s] = [is |-> how]
    PROVE  ReadTracking(s).is # "Tracking"
<1> DEFINE ran == RunBounded(Chronyc[s])
<1>1. Chronyc[s].is = how
  BY Fields
<1>2. ran = IF how = "never ends" THEN [is |-> "killed"] ELSE Chronyc[s]
  BY <1>1 DEF RunBounded
<1>3. ran.is = IF how = "never ends" THEN "killed" ELSE how
  BY <1>1, <1>2, Fields
<1>4. ReadTracking(s) =
         CASE ran.is = "ends" -> Classify(ran.succeeded, ran.said)
           [] ran.is = "killed" -> [is |-> "DaemonUnreachable"]
           [] ran.is = "not found" -> [is |-> "NoDaemonTool"]
           [] ran.is = "cannot be run" -> [is |-> "Unreadable"]
  BY DEF ReadTracking
<1> HIDE DEF ran
<1>5. ReadTracking(s) = [is |-> "DaemonUnreachable"] \/ ReadTracking(s) = [is |-> "NoDaemonTool"]
         \/ ReadTracking(s) = [is |-> "Unreadable"]
  BY <1>3, <1>4
<1> QED
  BY <1>5, Fields

LEMMA Answered == AnswersAreRead
<1> SUFFICES ASSUME NEW situation \in Known \ {"localStratum"}
             PROVE  IsTrustworthy(StateForEvidence(ReadTracking(situation)))
                       <=> situation \in Following
  BY DEF AnswersAreRead
<1> DEFINE answer == ReadTracking(situation)
<1>1. CASE situation = "gps"
  <2> DEFINE line == Line(1, "PPS", 1, "Normal")
  <2>1. Chronyc[situation] = Ends(TRUE, line)
    BY <1>1 DEF Chronyc
  <2>2. /\ line.is = "line" /\ line.reference_id = 1 /\ line.stratum = 1
        /\ line.leap = "Normal" /\ line.signs = TRUE
    BY DEF Line
  <2> HIDE DEF line
  <2>3. answer = Classify(TRUE, line)
    BY <2>1, Ended
  <2>4. (LooksPlausible(line) /\ IsSynchronized(line.leap)
           /\ line.stratum # 0 /\ line.reference_id # 0)
    BY <2>2 DEF LooksPlausible, IsSynchronized
  <2>5. IsTrustworthy(StateForEvidence(answer)) <=> TRUE
    BY <2>2, <2>3, <2>4, LineTrusted
  <2> QED
    BY <1>1, <2>5 DEF Following
<1>2. CASE situation = "network"
  <2> DEFINE line == Line(2, "address", 3, "Normal")
  <2>1. Chronyc[situation] = Ends(TRUE, line)
    BY <1>2 DEF Chronyc
  <2>2. /\ line.is = "line" /\ line.reference_id = 2 /\ line.stratum = 3
        /\ line.leap = "Normal" /\ line.signs = TRUE
    BY DEF Line
  <2> HIDE DEF line
  <2>3. answer = Classify(TRUE, line)
    BY <2>1, Ended
  <2>4. (LooksPlausible(line) /\ IsSynchronized(line.leap)
           /\ line.stratum # 0 /\ line.reference_id # 0)
    BY <2>2 DEF LooksPlausible, IsSynchronized
  <2>5. IsTrustworthy(StateForEvidence(answer)) <=> TRUE
    BY <2>2, <2>3, <2>4, LineTrusted
  <2> QED
    BY <1>2, <2>5 DEF Following
<1>3. CASE situation = "leapAhead"
  <2> DEFINE line == Line(2, "address", 3, "InsertSecond")
  <2>1. Chronyc[situation] = Ends(TRUE, line)
    BY <1>3 DEF Chronyc
  <2>2. /\ line.is = "line" /\ line.reference_id = 2 /\ line.stratum = 3
        /\ line.leap = "InsertSecond" /\ line.signs = TRUE
    BY DEF Line
  <2> HIDE DEF line
  <2>3. answer = Classify(TRUE, line)
    BY <2>1, Ended
  <2>4. (LooksPlausible(line) /\ IsSynchronized(line.leap)
           /\ line.stratum # 0 /\ line.reference_id # 0)
    BY <2>2 DEF LooksPlausible, IsSynchronized
  <2>5. IsTrustworthy(StateForEvidence(answer)) <=> TRUE
    BY <2>2, <2>3, <2>4, LineTrusted
  <2> QED
    BY <1>3, <2>5 DEF Following
<1>4. CASE situation = "lostIt"
  <2> DEFINE line == Line(1, "PPS", 1, "NotSynchronised")
  <2>1. Chronyc[situation] = Ends(TRUE, line)
    BY <1>4 DEF Chronyc
  <2>2. /\ line.is = "line" /\ line.reference_id = 1 /\ line.stratum = 1
        /\ line.leap = "NotSynchronised" /\ line.signs = TRUE
    BY DEF Line
  <2> HIDE DEF line
  <2>3. answer = Classify(TRUE, line)
    BY <2>1, Ended
  <2>4. ~(LooksPlausible(line) /\ IsSynchronized(line.leap)
           /\ line.stratum # 0 /\ line.reference_id # 0)
    BY <2>2 DEF LooksPlausible, IsSynchronized
  <2>5. IsTrustworthy(StateForEvidence(answer)) <=> FALSE
    BY <2>2, <2>3, <2>4, LineTrusted
  <2> QED
    BY <1>4, <2>5 DEF Following
<1>5. CASE situation = "neverHadOne"
  <2> DEFINE line == Line(0, "", 0, "NotSynchronised")
  <2>1. Chronyc[situation] = Ends(TRUE, line)
    BY <1>5 DEF Chronyc
  <2>2. /\ line.is = "line" /\ line.reference_id = 0 /\ line.stratum = 0
        /\ line.leap = "NotSynchronised" /\ line.signs = TRUE
    BY DEF Line
  <2> HIDE DEF line
  <2>3. answer = Classify(TRUE, line)
    BY <2>1, Ended
  <2>4. ~(LooksPlausible(line) /\ IsSynchronized(line.leap)
           /\ line.stratum # 0 /\ line.reference_id # 0)
    BY <2>2 DEF LooksPlausible, IsSynchronized
  <2>5. IsTrustworthy(StateForEvidence(answer)) <=> FALSE
    BY <2>2, <2>3, <2>4, LineTrusted
  <2> QED
    BY <1>5, <2>5 DEF Following
<1>6. CASE situation = "columnsMoved"
  <2> DEFINE line == Line(2, "address", 143, "Normal")
  <2>1. Chronyc[situation] = Ends(TRUE, line)
    BY <1>6 DEF Chronyc
  <2>2. /\ line.is = "line" /\ line.reference_id = 2 /\ line.stratum = 143
        /\ line.leap = "Normal" /\ line.signs = TRUE
    BY DEF Line
  <2> HIDE DEF line
  <2>3. answer = Classify(TRUE, line)
    BY <2>1, Ended
  <2>4. ~(LooksPlausible(line) /\ IsSynchronized(line.leap)
           /\ line.stratum # 0 /\ line.reference_id # 0)
    BY <2>2 DEF LooksPlausible, IsSynchronized
  <2>5. IsTrustworthy(StateForEvidence(answer)) <=> FALSE
    BY <2>2, <2>3, <2>4, LineTrusted
  <2> QED
    BY <1>6, <2>5 DEF Following
<1>7. CASE situation = "columnsSwapped"
  <2> DEFINE line == [Line(2, "address", 3, "Normal") EXCEPT !.signs = FALSE]
  <2>1. Chronyc[situation] = Ends(TRUE, line)
    BY <1>7 DEF Chronyc
  <2>2. /\ line.is = "line" /\ line.reference_id = 2 /\ line.stratum = 3
        /\ line.leap = "Normal" /\ line.signs = FALSE
    BY DEF Line
  <2> HIDE DEF line
  <2>3. answer = Classify(TRUE, line)
    BY <2>1, Ended
  <2>4. ~(LooksPlausible(line) /\ IsSynchronized(line.leap)
           /\ line.stratum # 0 /\ line.reference_id # 0)
    BY <2>2 DEF LooksPlausible, IsSynchronized
  <2>5. IsTrustworthy(StateForEvidence(answer)) <=> FALSE
    BY <2>2, <2>3, <2>4, LineTrusted
  <2> QED
    BY <1>7, <2>5 DEF Following
<1>8. CASE situation = "cutShort"
  <2>1. Chronyc[situation] = Ends(TRUE, [is |-> "too few fields"])
    BY <1>8 DEF Chronyc
  <2>2. answer = Classify(TRUE, [is |-> "too few fields"])
    BY <2>1, Ended
  <2>3. answer.is # "Tracking"
    BY <2>2, NothingClassified
  <2> QED
    BY <1>8, <2>3, NoAnswerTrusted DEF Following
<1>9. CASE situation = "isDown"
  <2>1. Chronyc[situation] = Ends(FALSE, Complaint)
    BY <1>9 DEF Chronyc
  <2>2. answer = Classify(FALSE, Complaint)
    BY <2>1, Ended
  <2>3. answer.is # "Tracking"
    BY <2>2, NothingClassified DEF Complaint
  <2> QED
    BY <1>9, <2>3, NoAnswerTrusted DEF Following
<1>10. CASE situation = "isDownPolitely"
  <2>1. Chronyc[situation] = Ends(TRUE, Complaint)
    BY <1>10 DEF Chronyc
  <2>2. answer = Classify(TRUE, Complaint)
    BY <2>1, Ended
  <2>3. answer.is # "Tracking"
    BY <2>2, NothingClassified DEF Complaint
  <2> QED
    BY <1>10, <2>3, NoAnswerTrusted DEF Following
<1>11. CASE situation = "neverReplies"
  <2>1. Chronyc[situation] = Ends(FALSE, [is |-> "nothing"])
    BY <1>11 DEF Chronyc
  <2>2. answer = Classify(FALSE, [is |-> "nothing"])
    BY <2>1, Ended
  <2>3. answer.is # "Tracking"
    BY <2>2, NothingClassified
  <2> QED
    BY <1>11, <2>3, NoAnswerTrusted DEF Following
<1>12. CASE situation = "isWedged"
  <2>1. Chronyc[situation] = [is |-> "never ends"]
    BY <1>12 DEF Chronyc
  <2>2. answer.is # "Tracking"
    BY <2>1, NeverRan
  <2> QED
    BY <1>12, <2>2, NoAnswerTrusted DEF Following
<1>13. CASE situation = "notInstalled"
  <2>1. Chronyc[situation] = [is |-> "not found"]
    BY <1>13 DEF Chronyc
  <2>2. answer.is # "Tracking"
    BY <2>1, NeverRan
  <2> QED
    BY <1>13, <2>2, NoAnswerTrusted DEF Following
<1>14. CASE situation = "mayNotBeRun"
  <2>1. Chronyc[situation] = [is |-> "cannot be run"]
    BY <1>14 DEF Chronyc
  <2>2. answer.is # "Tracking"
    BY <2>1, NeverRan
  <2> QED
    BY <1>14, <2>2, NoAnswerTrusted DEF Following
<1> QED
  BY KnownIs, <1>1, <1>2, <1>3, <1>4, <1>5, <1>6, <1>7, <1>8, <1>9, <1>10, <1>11, <1>12, <1>13,
     <1>14
-----------------------------------------------------------------------------
(***************************************************************************)
(* Doubts.                                                                 *)
(***************************************************************************)

(* No set of jumps takes the wall clock further than it takes them all.    *)
Strayed ==
    /\ IsFiniteSet(jumps) /\ Cardinality(jumps) <= MaxJumps
    /\ Abs(ahead) <= Cardinality(jumps) * Greatest(Forward \cup Back)

(* What the service knows of the daemon is what it last said, and it reads *)
(* nothing before it asked.                                                *)
Heard ==
    /\ Some(baseline) => (IsTrustworthy(StateToStamp) <=> heard = "follows")
    /\ ~Some(baseline) => slot = None
    /\ reading => Some(baseline) /\ heard # "not asked"

(* An end is doubted for what was heard, and a reader's is not far out.    *)
Doubted(e) ==
    /\ e.by = "device" => (e.trusted <=> e.heard = "follows") /\ e.heard # "not asked"
    /\ e.by = "reader" /\ Trust = "auto" =>
          Abs(e.at - e.real) <= MaxOffset + FarthestAhead

DoubtsInv ==
    /\ Strayed /\ Heard
    /\ \A e \in {ends.start, ends.finish} : Some(e) => Doubted(e)

LEMMA GreatestIs ==
    /\ Greatest(Forward \cup Back) \in Nat
    /\ \A by \in Forward \cup Back : by \in Nat /\ by <= Greatest(Forward \cup Back)
<1>1. /\ Forward \cup Back \subseteq Nat
      /\ \E most \in Forward \cup Back : \A by \in Forward \cup Back : by <= most
  BY ClockAssumption
<1>2. /\ Greatest(Forward \cup Back) \in Forward \cup Back
      /\ \A by \in Forward \cup Back : by <= Greatest(Forward \cup Back)
  BY <1>1 DEF Greatest
<1> QED
  BY <1>1, <1>2

LEMMA StrayedStep ==
    ASSUME StepsInv, Strayed, ClockNext
    PROVE  Strayed'
<1> DEFINE most == Greatest(Forward \cup Back)
           n == Cardinality(jumps)
<1>1. most \in Nat /\ n \in Nat /\ ahead \in Int /\ n <= MaxJumps /\ MaxJumps \in Nat
      /\ Abs(ahead) <= n * most
  BY GreatestIs, FS_CardinalityType, ClockAssumption DEF Strayed, StepsInv, ClockTypeOK
<1>2. CASE Jump
  <2>1. now \notin jumps
    BY DEF StepsInv, ClockTypeOK
  <2>2. jumps' = jumps \cup {now} /\ n < MaxJumps
    BY <1>2 DEF Jump
  <2>3. IsFiniteSet(jumps') /\ Cardinality(jumps') = n + 1
    BY <2>1, <2>2, FS_AddElement DEF Strayed
  <2>4. PICK by \in Forward \cup Back : ahead' = ahead + by \/ ahead' = ahead - by
    BY <1>2 DEF Jump
  <2>5. by \in Nat /\ by <= most
    BY GreatestIs
  <2> HIDE DEF n, most
  <2>6. Abs(ahead') <= Abs(ahead) + by
    BY <1>1, <2>4, <2>5 DEF Abs
  <2>7. (n + 1) * most = n * most + most /\ n * most \in Nat /\ Abs(ahead) \in Nat
    BY <1>1 DEF Abs
  <2>8. Abs(ahead') \in Nat
    BY <1>1, <2>4, <2>5 DEF Abs
  <2>9. Abs(ahead') <= (n + 1) * most
    BY <1>1, <2>5, <2>6, <2>7, <2>8
  <2>10. n + 1 <= MaxJumps
    BY <1>1, <2>2
  <2> QED
    BY <2>3, <2>9, <2>10 DEF Strayed, most
<1>3. CASE UNCHANGED <<ahead, jumps>>
  BY <1>3 DEF Strayed
<1> QED
  BY <1>2, <1>3 DEF ClockNext, StartService, SampleTheClock, AskTheDaemon, FireTheGun, Cross, Kill

LEMMA FollowingIsHeard ==
    ASSUME NEW situation \in Following
    PROVE  ReadTracking(situation) # None
<1>1. \A k, l : [is |-> k] # None /\ [is |-> k, line |-> l] # None
  BY DEF None
<1>2. \E line : Chronyc[situation] = Ends(TRUE, line)
  <2>1. CASE situation = "gps"
    BY <2>1 DEF Chronyc
  <2>2. CASE situation = "network"
    BY <2>2 DEF Chronyc
  <2>3. CASE situation = "leapAhead"
    BY <2>3 DEF Chronyc
  <2> QED
    BY <2>1, <2>2, <2>3 DEF Following
<1>3. PICK line : ReadTracking(situation) = Classify(TRUE, line)
  BY <1>2, Ended
<1> QED
  BY <1>1, <1>3 DEF Classify

LEMMA HeardStep ==
    ASSUME Heard, ClockNext, "localStratum" \notin Situations
    PROVE  Heard'
<1>1. CASE StartService \/ Kill
  <2>1. slot' = None /\ ~reading' /\ (Some(baseline') => heard' = "not asked")
    BY <1>1 DEF StartService, Kill, Some
  <2>2. ~IsTrustworthy(StateToStamp)'
    BY <2>1 DEF StateToStamp, Some, IsTrustworthy
  <2> QED
    BY <2>1, <2>2 DEF Heard
<1>2. CASE SampleTheClock
  <2>1. Some(baseline) /\ UNCHANGED <<slot, heard, reading>>
    BY <1>2 DEF SampleTheClock
  <2>2. Some(baseline')
    BY <1>2, SampleIs DEF SampleTheClock
  <2> QED
    BY <2>1, <2>2 DEF Heard, StateToStamp, Some, None
<1>3. CASE AskTheDaemon
  <2>1. Some(baseline) /\ baseline' = baseline /\ reading'
    BY <1>3 DEF AskTheDaemon
  <2>2. ASSUME NEW situation \in Situations, slot' = ReadTracking(situation),
               heard' = IF situation \in Following THEN "follows" ELSE "does not"
        PROVE  Heard'
    <3>1. IsTrustworthy(StateForEvidence(slot')) <=> heard' = "follows"
      BY <2>2, Answered, ClockAssumption DEF AnswersAreRead
    <3>2. ASSUME slot' = None
          PROVE  heard' # "follows"
      BY <2>2, <3>2, FollowingIsHeard
    <3>3. ~IsTrustworthy("Unsynced")
      BY DEF IsTrustworthy
    <3>4. IsTrustworthy(StateToStamp)' <=> heard' = "follows"
      BY <3>1, <3>2, <3>3 DEF StateToStamp, Some, None
    <3>5. heard' # "not asked"
      BY <2>2
    <3> QED
      BY <2>1, <3>4, <3>5 DEF Heard, Some, None
  <2>3. ASSUME UNCHANGED slot, heard' = IF heard = "not asked" THEN "failed" ELSE heard
        PROVE  Heard'
    <3>1. (heard' = "follows" <=> heard = "follows") /\ heard' # "not asked"
      BY <2>3
    <3>2. IsTrustworthy(StateToStamp)' <=> IsTrustworthy(StateToStamp)
      BY <2>3 DEF StateToStamp, Some, None
    <3> QED
      BY <2>1, <3>1, <3>2 DEF Heard, Some, None
  <2> QED
    BY <1>3, <2>2, <2>3 DEF AskTheDaemon
<1>4. CASE UNCHANGED <<baseline, slot, heard, reading>>
  BY <1>4 DEF Heard, StateToStamp, Some, None
<1> QED
  BY <1>1, <1>2, <1>3, <1>4 DEF ClockNext, Jump, FireTheGun, Cross

(* A reader is believed only as far as the wall clock it is held against.  *)
LEMMA BelievedIs ==
    ASSUME NEW timestamp \in Said, Trust = "auto", Readers \subseteq Int, now \in Nat,
           Received(timestamp).by = "reader"
    PROVE  Within(Wall - Received(timestamp).at, MaxOffset)
<1> DEFINE read == Normalize(timestamp, Wall, Trust, MaxOffset)
<1>1. CASE timestamp.kind \in {"absent", "uptime"}
  <2>1. read.source = "DeviceReceipt"
    BY <1>1 DEF Normalize
  <2>2. Received(timestamp).by = "device"
    BY <2>1 DEF Received
  <2> QED
    BY <2>2
<1>2. CASE timestamp.kind = "utc" /\ ~Within(Wall - timestamp.at, MaxOffset)
  <2>1. read.source = "DeviceReceipt"
    BY <1>2 DEF Normalize
  <2>2. Received(timestamp).by = "device"
    BY <2>1 DEF Received
  <2> QED
    BY <2>2
<1>3. CASE timestamp.kind = "utc" /\ Within(Wall - timestamp.at, MaxOffset)
  <2>1. read.source = "ReaderUtc" /\ read.at = timestamp.at
    BY <1>3 DEF Normalize
  <2>2. Received(timestamp).at = timestamp.at
    BY <2>1 DEF Received
  <2> QED
    BY <1>3, <2>2
<1> QED
  BY <1>1, <1>2, <1>3 DEF Said

LEMMA DoubtsOfRead ==
    ASSUME StepsInv, Strayed, Heard, reading, NEW timestamp \in Said
    PROVE  Doubted(Received(timestamp))
<1> DEFINE e == Received(timestamp)
           most == Greatest(Forward \cup Back)
           n == Cardinality(jumps)
<1>1. now \in Nat /\ ahead \in Int /\ Readers \subseteq Int /\ Some(baseline)
        /\ MaxOffset \in Nat /\ MaxJumps \in Nat
  BY ClockAssumption DEF StepsInv, ClockTypeOK, Heard
<1>2. /\ e.real = now /\ e.at \in Int
      /\ e.by = "reader" \/
           /\ e.by = "device" /\ e.trusted = IsTrustworthy(StateToStamp)
           /\ e.heard = heard
  BY <1>1, ReceivedIs
<1>3. ASSUME e.by = "reader", Trust = "auto"
      PROVE  Abs(e.at - e.real) <= MaxOffset + FarthestAhead
  <2>1. Abs(Wall - e.at) <= MaxOffset
    BY <1>1, <1>3, BelievedIs DEF Within
  <2>2. most \in Nat /\ n \in Nat /\ n <= MaxJumps /\ Abs(ahead) <= n * most
    BY GreatestIs, FS_CardinalityType DEF Strayed
  <2> HIDE DEF e, n, most
  <2>3. n * most <= MaxJumps * most /\ n * most \in Nat /\ MaxJumps * most \in Nat
    <3>1. PICK d \in Nat : MaxJumps = n + d
      <4>1. MaxJumps - n \in Nat /\ MaxJumps = n + (MaxJumps - n)
        BY <1>1, <2>2
      <4> QED
        BY <4>1
    <3>2. MaxJumps * most = n * most + d * most /\ d * most \in Nat /\ n * most \in Nat
      BY <2>2, <3>1
    <3> QED
      BY <3>2
  <2>4. Abs(e.at - now) <= Abs(Wall - e.at) + Abs(ahead)
    BY <1>1, <1>2 DEF Abs, Wall
  <2>5. Abs(e.at - now) \in Nat /\ Abs(Wall - e.at) \in Nat /\ Abs(ahead) \in Nat
    BY <1>1, <1>2 DEF Abs, Wall
  <2>6. Abs(e.at - now) <= MaxOffset + MaxJumps * most
    BY <1>1, <2>1, <2>2, <2>3, <2>4, <2>5
  <2> QED
    BY <1>2, <2>6 DEF FarthestAhead, most
<1>4. ASSUME e.by = "device"
      PROVE  (e.trusted <=> e.heard = "follows") /\ e.heard # "not asked"
  BY <1>1, <1>2, <1>4 DEF Heard
<1> QED
  BY <1>3, <1>4 DEF Doubted

LEMMA DoubtsStep ==
    ASSUME StepsInv, DoubtsInv, [ClockNext]_clockVars, "localStratum" \notin Situations
    PROVE  DoubtsInv'
<1>1. CASE UNCHANGED clockVars
  BY <1>1 DEF clockVars, DoubtsInv, Strayed, Heard, StateToStamp, Some, None, Doubted
<1>2. CASE ClockNext
  <2>1. Strayed' /\ Heard'
    BY <1>2, StrayedStep, HeardStep DEF DoubtsInv
  <2>2. ASSUME NEW e \in {ends.start, ends.finish}, Some(e)
        PROVE  Doubted(e)
    BY <2>2 DEF DoubtsInv
  <2>3. ASSUME NEW line \in {"start", "finish"}, Cross(line), NEW e \in {ends'.start, ends'.finish},
               Some(e)
        PROVE  Doubted(e)
    <3>1. ASSUME NEW d, ends' = [ends EXCEPT ![line] = d]
          PROVE  e \in {d, ends.start, ends.finish}
      BY <2>3, <3>1 DEF StepsInv, ClockTypeOK
    <3>2. ASSUME reading, NEW timestamp \in Said,
                 ends' = [ends EXCEPT ![line] = Received(timestamp)]
          PROVE  Doubted(e)
      <4>1. Doubted(Received(timestamp))
        BY <3>2, DoubtsOfRead DEF DoubtsInv
      <4> QED
        BY <2>2, <2>3, <3>1, <3>2, <4>1
    <3>3. ASSUME ends' = [ends EXCEPT ![line] = [at |-> now, real |-> now, by |-> "hand"]]
          PROVE  Doubted(e)
      <4>1. Doubted([at |-> now, real |-> now, by |-> "hand"])
        BY DEF Doubted
      <4> QED
        BY <2>2, <2>3, <3>1, <3>3, <4>1
    <3> QED
      BY <2>3, <3>2, <3>3 DEF Cross
  <2>4. CASE FireTheGun
    <3>1. ends'.start = ends.start /\ ends'.finish = ends.finish
      BY <2>4 DEF FireTheGun, StepsInv, ClockTypeOK
    <3> QED
      BY <2>1, <2>2, <3>1 DEF DoubtsInv, Doubted, Some, None
  <2>5. CASE UNCHANGED ends
    BY <2>1, <2>2, <2>5 DEF DoubtsInv, Doubted, Some, None
  <2>6. CASE Cross("start") \/ Cross("finish")
    BY <2>1, <2>3, <2>6 DEF DoubtsInv, Doubted, Some, None
  <2> QED
    BY <1>2, <2>4, <2>5, <2>6 DEF ClockNext, Jump, StartService, SampleTheClock, AskTheDaemon, Kill
<1> QED
  BY <1>1, <1>2

LEMMA InitDoubts == ClockInit => DoubtsInv
<1> SUFFICES ASSUME ClockInit
             PROVE  DoubtsInv
  OBVIOUS
<1>1. Strayed
  <2>1. jumps = {} /\ ahead = 0
    BY DEF ClockInit
  <2>2. IsFiniteSet({}) /\ Cardinality({}) = 0 /\ Abs(0) = 0
    BY FS_EmptySet DEF Abs
  <2>3. MaxJumps \in Nat
    BY ClockAssumption
  <2> QED
    BY <2>1, <2>2, <2>3, GreatestIs DEF Strayed
<1>2. Heard
  BY SampleIs DEF ClockInit, Heard, StateToStamp, Some, IsTrustworthy
<1>3. \A e \in {ends.start, ends.finish} : ~Some(e)
  BY DEF ClockInit, Some
<1> QED
  BY <1>1, <1>2, <1>3 DEF DoubtsInv

LEMMA DoubtsSaid == StepsInv /\ DoubtsInv => DoubtsAreSaid
<1> SUFFICES ASSUME StepsInv, DoubtsInv
             PROVE  DoubtsAreSaid
  OBVIOUS
<1>1. \A line \in Crossed : Doubted(ends[line])
  BY DEF Crossed, DoubtsInv
<1>2. Untrusted <=> \E line \in Crossed : ends[line].by = "device" /\ ends[line].heard # "follows"
  BY <1>1 DEF Untrusted, Doubted
<1> QED
  BY <1>1, <1>2 DEF DoubtsAreSaid, Doubted

-----------------------------------------------------------------------------
(* Every result is flagged for the clock as FlagsTellTheClock has it, and  *)
(* the watch, however late its samples, misses no span a step reaches      *)
(* into; unless a daemon vouches for itself, which nobody can tell from    *)
(* one that follows a source.                                              *)
THEOREM FlagsAreTrue ==
    ASSUME "localStratum" \notin Situations
    PROVE  ClockSpec => []FlagsTellTheClock
<1>1. ClockInit => StepsInv /\ DoubtsInv
  BY InitSteps, InitDoubts
<1>2. StepsInv /\ DoubtsInv /\ [ClockNext]_clockVars => (StepsInv /\ DoubtsInv)'
  BY StepsStep, DoubtsStep
<1>3. StepsInv /\ DoubtsInv => FlagsTellTheClock
  BY StepsFlagged, DoubtsSaid, Answered DEF FlagsTellTheClock
<1> QED
  BY <1>1, <1>2, <1>3, PTL DEF ClockSpec

(* The clocks keep their types, and no two things happen at once.          *)
THEOREM ClockTypeCorrect == ClockSpec => []ClockTypeOK
<1>1. StepsInv => ClockTypeOK
  BY DEF StepsInv
<1> QED
  BY <1>1, InitSteps, StepsStep, PTL DEF ClockSpec
==============================================================================
