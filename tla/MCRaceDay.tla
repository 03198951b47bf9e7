----------------------------- MODULE MCRaceDay -----------------------------
(***************************************************************************)
(* Two runners and one chip that changes hands, a start line and a finish. *)
(***************************************************************************)
EXTENDS RaceDay

MCSetup == [bibs |-> [ann |-> 10, bob |-> 9, cid |-> 11], scheduled |-> None]

Worn(participant, from, until) ==
    [chip |-> "x", participant |-> participant, from |-> from, until |-> until]

At(t) == [at |-> t, chip |-> "x", reader |-> "mat", antenna |-> 1, rssi |-> -50]

MCStored ==
    [races |-> {"5k"}, readers |-> {"mat"},
     course |-> [finish |-> "finish"], roster |-> {"ann", "bob"},
     antennas |-> {[reader |-> "mat", antenna |-> 1, checkpoint |-> "finish"]},
     chips |-> {Worn("ann", 0, 5)}, mode |-> "gun", floor |-> 1,
     policy |-> [window |-> 1, rule |-> [is |-> "first"], minLap |-> None, own |-> <<>>],
     reads |-> <<At(4) @@ [seq |-> 1]>>]

MCArriving == {[At(6) EXCEPT !.antenna = 2]}

Start(at, forced) == [is |-> "start", at |-> at, forced |-> forced]
Policy(mode, window, minLap) ==
    [is |-> "policy", mode |-> mode, window |-> window, minLap |-> minLap]

Publications == {[is |-> "publish", allowUnchanged |-> allowed] : allowed \in BOOLEAN}

Chips(row) == [is |-> "import chips", file |-> <<row>>, bibs |-> {row.participant}]

MCCommands ==
    Publications \cup
    {Start(None, FALSE), Start(3, TRUE), [is |-> "stop", at |-> 8],
     Chips(Worn("bob", 5, None)), Chips(Worn("cid", 4, None)),
     Chips(Worn("bob", 0, 5)),
     [is |-> "import roster", file |-> {"ann", "cid"}],
     [is |-> "add checkpoint", checkpoint |-> "line", kind |-> "start"],
     [is |-> "create race", race |-> "10k"], [is |-> "add reader", reader |-> "gate"],
     [is |-> "map reader", reader |-> "gate", antenna |-> None, checkpoint |-> "finish"],
     [is |-> "map reader", reader |-> "mat", antenna |-> None, checkpoint |-> "finish"],
     [is |-> "map reader", reader |-> "mat", antenna |-> 1, checkpoint |-> "line"],
     Policy("chip", None, None), Policy(None, 3, None), Policy(None, None, 2),
     [is |-> "set floor", to |-> 2],
     [is |-> "manual add", bibs |-> {"bob"}, checkpoint |-> "finish",
      row |-> [at |-> 5, participant |-> "bob", checkpoint |-> "finish"]],
     [is |-> "declare", bibs |-> {"ann"}, row |-> [participant |-> "ann", status |-> "dq"]]}

(* Nothing tells one console from another.                                 *)
Consoles == Permutations(Operators)
=============================================================================
