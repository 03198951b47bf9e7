------------------------------ MODULE MCTiming ------------------------------
(***************************************************************************)
(* Three runners, one of whom is given another's chip during the race, and *)
(* a course of a start or a split and a finish.  One mat reads both lines. *)
(***************************************************************************)
EXTENDS Timing

First == [is |-> "first"]
Loud == [is |-> "first above", floor |-> -60]
Peak == [is |-> "peak"]

Line == [start |-> "start", finish |-> "finish"]
Split == [start |-> "split", finish |-> "finish"]
TwoFinishes == [start |-> "finish", finish |-> "finish"]

MCReader == {[reader |-> "mat", antenna |-> None, checkpoint |-> "finish"],
             [reader |-> "mat", antenna |-> 1, checkpoint |-> "start"]}

MCChips == {[chip |-> "x", participant |-> "ann", from |-> 0, until |-> 5],
            [chip |-> "x", participant |-> "bob", from |-> 5, until |-> None],
            [chip |-> "y", participant |-> "bob", from |-> 0, until |-> None],
            [chip |-> "z", participant |-> "cid", from |-> 0, until |-> None]}

Race(rule, minLap, course, mode, scheduled, handsFirst) ==
    [policy |-> [window |-> 2, rule |-> rule, minLap |-> minLap,
                 own |-> [c \in {"start"} |-> [window |-> 1, rule |-> First]]],
     chips |-> MCChips, antennas |-> MCReader, course |-> course, mode |-> mode,
     roster |-> [ann |-> 10, bob |-> 9, cid |-> 11], scheduled |-> scheduled, handsFirst |-> handsFirst,
     meters |-> 10, laps |-> 1, splits |-> [start |-> 4],
     sequence |-> [start |-> 1, finish |-> 2], key |-> [start |-> 2, finish |-> 1]]

MCSetups ==
    {Race(First, None, Line, "gun", None, FALSE), Race(Peak, 3, Line, "chip", 2, TRUE),
     [Race(Loud, 3, Split, "gun", 2, FALSE) EXCEPT !.laps = 2],
     [Race(Loud, None, TwoFinishes, "gun", None, FALSE) EXCEPT !.roster.cid = 12]}

At(t, chip, antenna, rssi) ==
    [at |-> t, chip |-> chip, reader |-> "mat", antenna |-> antenna, rssi |-> rssi]

MCReadings ==
    {At(1, "x", 1, -50), At(1, "x", 2, -70), At(3, "x", 2, -50), At(4, "x", 2, -50),
     At(6, "x", 2, NoSignal), At(4, "y", 2, -50), At(6, "z", 2, -50),
     [At(3, "y", 2, -50) EXCEPT !.reader = "spare"]}

(* A runner who is read at the finish, and after that at the other line.   *)
MCTurned == {At(2, "x", 2, -50), At(4, "x", 1, -50), At(6, "z", 2, -50)}

MCHands ==
    {[at |-> 2, participant |-> "ann", checkpoint |-> "finish"],
     [at |-> 1, participant |-> "bob", checkpoint |-> "start"]}

MCWords ==
    {[participant |-> "ann", status |-> "dq"], [participant |-> "ann", status |-> "finished"]}
=============================================================================
