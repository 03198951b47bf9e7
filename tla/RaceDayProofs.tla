---------------------------- MODULE RaceDayProofs ----------------------------
(***************************************************************************)
(* What is proved of race day at the console, for any number of operators, *)
(* any commands, any tables to begin with and any bounds:                  *)
(*                                                                         *)
(*   RulesMeetEvidence  no revision applies a rule to less evidence than   *)
(*                      there was when the rule was read;                  *)
(*   ChipsStayApart     no chip is two runners' at once, where chips are   *)
(*                      imported one file at a time;                       *)
(*   TrailIsTrue        the trail tells what was done;                     *)
(*   RevisionsInOrder   the revisions of a race are one history;           *)
(*   DoctorIsRight      doctor, the gates and /health agree.               *)
(*                                                                         *)
(* A command is a script, and where it is in it says what it has done.  So *)
(* the scripts come first, statement by statement, then what a step does   *)
(* to a console, whichever command it is (Steps), and then an inductive    *)
(* invariant for each theorem: what was read when (Orderly), what an       *)
(* import about to write has checked (ChipsApart), whose rows are where    *)
(* (Tally, SaidIsStored, SettingTold), and what a publish has found        *)
(* (OneHistory).  The last needs to know that a sheet is in one order,     *)
(* whatever was read, which TimingProofs has, and what two sheets tell     *)
(* apart: IsDigest to DiffTells.                                           *)
(***************************************************************************)
EXTENDS RaceDay, TimingProofs

-----------------------------------------------------------------------------
(* What the commands are made of.                                          *)

(* Two sequences put together, given what they come to.                    *)
LEMMA Concat ==
    ASSUME NEW S, NEW a \in Seq(S), NEW b \in Seq(S), NEW s \in Seq(S),
           Len(s) = Len(a) + Len(b),
           \A i \in 1..Len(a) : s[i] = a[i],
           \A i \in 1..Len(b) : s[Len(a) + i] = b[i]
    PROVE  a \o b = s
<1>1. /\ a \o b \in Seq(S) /\ Len(a \o b) = Len(a) + Len(b)
      /\ \A i \in 1..(Len(a) + Len(b)) : (a \o b)[i] = IF i <= Len(a) THEN a[i] ELSE b[i - Len(a)]
  BY ConcatProperties
<1>2. Len(a) \in Nat /\ Len(b) \in Nat
  OBVIOUS
<1>3. ASSUME NEW i \in 1..Len(s)
      PROVE  (a \o b)[i] = s[i]
  <2>1. CASE i <= Len(a)
    BY <1>1, <1>2, <2>1
  <2>2. CASE ~(i <= Len(a))
    <3>1. i - Len(a) \in 1..Len(b) /\ Len(a) + (i - Len(a)) = i
      BY <1>2, <2>2
    <3>2. s[Len(a) + (i - Len(a))] = b[i - Len(a)]
      BY <3>1
    <3> QED
      BY <1>1, <1>2, <2>2, <3>1, <3>2
  <2> QED
    BY <2>1, <2>2
<1> QED
  BY <1>1, <1>3, SeqEqual

(* publish, a statement at a time.                                         *)
LEMMA PublishScript ==
    PublishStatements =
        <<"races", "course", "roster", "chips", "antennas", "policy", "mode", "sessions",
          "reads", "manual", "declared", "number", "latest", "publish", "audit">>
<1> DEFINE S == Looks \cup {"publish", "audit"}
           a == <<"races">>
           b == <<"course", "roster", "chips", "antennas", "policy", "mode", "sessions",
                  "reads", "manual", "declared">>
           ab == <<"races", "course", "roster", "chips", "antennas", "policy", "mode", "sessions",
                   "reads", "manual", "declared">>
           c == <<"number", "latest", "publish">>
           abc == <<"races", "course", "roster", "chips", "antennas", "policy", "mode", "sessions",
                    "reads", "manual", "declared", "number", "latest", "publish">>
           d == <<"audit">>
           abcd == <<"races", "course", "roster", "chips", "antennas", "policy", "mode",
                     "sessions", "reads", "manual", "declared", "number", "latest", "publish",
                     "audit">>
<1>1. \A n \in {"races", "course", "roster", "chips", "antennas", "policy", "mode", "sessions",
                "reads", "manual", "declared", "number", "latest", "publish", "audit"} : n \in S
  <2>1. Range(ReadOrder) = {"course", "roster", "chips", "antennas", "policy", "mode",
                            "sessions", "reads", "manual", "declared"}
    BY DEF ReadOrder, Range
  <2> QED
    BY <2>1 DEF Looks
<1> HIDE DEF S
<1>2. a \in Seq(S) /\ b \in Seq(S) /\ ab \in Seq(S) /\ c \in Seq(S) /\ abc \in Seq(S)
        /\ d \in Seq(S) /\ abcd \in Seq(S)
  BY <1>1
<1>3. /\ Len(ab) = Len(a) + Len(b) /\ \A i \in 1..Len(a) : ab[i] = a[i]
      /\ \A i \in 1..Len(b) : ab[Len(a) + i] = b[i]
  OBVIOUS
<1>4. /\ Len(abc) = Len(ab) + Len(c) /\ \A i \in 1..Len(ab) : abc[i] = ab[i]
      /\ \A i \in 1..Len(c) : abc[Len(ab) + i] = c[i]
  OBVIOUS
<1>5. /\ Len(abcd) = Len(abc) + Len(d) /\ \A i \in 1..Len(abc) : abcd[i] = abc[i]
      /\ \A i \in 1..Len(d) : abcd[Len(abc) + i] = d[i]
  OBVIOUS
<1>6. PublishStatements = ((a \o b) \o c) \o d
  BY DEF PublishStatements, ReadOrder, RevisionStatements
<1> HIDE DEF a, b, ab, c, abc, d, abcd
<1>7. a \o b = ab
  BY <1>2, <1>3, Concat, Zenon
<1>8. ab \o c = abc
  BY <1>2, <1>4, Concat, Zenon
<1>9. abc \o d = abcd
  BY <1>2, <1>5, Concat, ZenonT(60)
<1> QED
  BY <1>6, <1>7, <1>8, <1>9 DEF abcd

(* Each command's script.                                                  *)
LEMMA Scripts ==
    ASSUME NEW c \in Commands
    PROVE  /\ c.is \in Kinds
           /\ c.is = "start" => Script(c) \in {<<"floor", "space", "races", "start", "audit">>,
                  <<"floor", "space", "clock", "races", "start", "audit">>}
           /\ c.is = "stop" => Script(c) = <<"races", "stop", "audit">>
           /\ c.is = "import roster" => Script(c) = <<"races", "roster", "import roster", "audit">>
           /\ c.is = "add checkpoint" =>
                 Script(c) = <<"races", "course", "add checkpoint", "audit">>
           /\ c.is = "map reader" =>
                 Script(c) = <<"races", "readers", "course", "map reader", "audit">>
           /\ c.is = "import chips" =>
                 Script(c) = <<"races", "roster", "chips", "import chips", "audit">>
           /\ c.is = "manual add" =>
                 Script(c) = <<"races", "course", "roster", "manual add", "audit">>
           /\ c.is = "declare" => Script(c) = <<"races", "roster", "declare", "audit">>
           /\ c.is = "policy" =>
                 \/ Script(c) = <<"races", "policy", "set policy", "audit">>
                       /\ ~Some(c.mode) /\ ~OnlyMode(c)
                 \/ Script(c) = <<"races", "set mode", "policy", "audit">>
                       /\ Some(c.mode) /\ OnlyMode(c)
                 \/ Script(c) = <<"races", "set mode", "policy", "set policy", "audit">>
                       /\ Some(c.mode) /\ ~OnlyMode(c)
           /\ c.is = "publish" => Script(c) =
                 <<"races", "course", "roster", "chips", "antennas", "policy", "mode", "sessions",
                   "reads", "manual", "declared", "number", "latest", "publish", "audit">>
           /\ c.is = "set floor" => Script(c) = <<"set floor", "audit">>
           /\ c.is = "create race" => Script(c) = <<"create race", "audit">>
           /\ c.is = "add reader" => Script(c) = <<"add reader", "audit">>
<1>1. c.is \in Kinds /\ (c.is = "policy" => Some(c.mode) \/ ~OnlyMode(c))
  BY Known
<1>2. c.is = "start" => Script(c) = StartStatements(c)
  BY DEF Script
<1>3. c.is = "policy" => Script(c) = PolicyStatements(c)
  BY DEF Script
<1>4. c.is = "publish" => Script(c) = PublishStatements
  BY DEF Script
<1>5. c.is \in {"create race", "add reader"} => Script(c) = <<c.is, "audit">>
  BY DEF Script, PlainStatements
<1>6. c.is = "start" => Script(c) \in {<<"floor", "space", "races", "start", "audit">>,
                            <<"floor", "space", "clock", "races", "start", "audit">>}
  BY <1>2 DEF StartStatements
<1>7. c.is = "policy" =>
         \/ Script(c) = <<"races", "policy", "set policy", "audit">>
               /\ ~Some(c.mode) /\ ~OnlyMode(c)
         \/ Script(c) = <<"races", "set mode", "policy", "audit">>
               /\ Some(c.mode) /\ OnlyMode(c)
         \/ Script(c) = <<"races", "set mode", "policy", "set policy", "audit">>
               /\ Some(c.mode) /\ ~OnlyMode(c)
  BY ZenonT(60), <1>1, <1>3 DEF PolicyStatements
<1>8. /\ c.is = "stop" => Script(c) = <<"races", "stop", "audit">>
      /\ c.is = "import roster" => Script(c) = <<"races", "roster", "import roster", "audit">>
      /\ c.is = "add checkpoint" => Script(c) = <<"races", "course", "add checkpoint", "audit">>
      /\ c.is = "map reader" => Script(c) = <<"races", "readers", "course", "map reader", "audit">>
      /\ c.is = "import chips" => Script(c) = <<"races", "roster", "chips", "import chips", "audit">>
      /\ c.is = "manual add" => Script(c) = <<"races", "course", "roster", "manual add", "audit">>
      /\ c.is = "declare" => Script(c) = <<"races", "roster", "declare", "audit">>
      /\ c.is = "set floor" => Script(c) = <<"set floor", "audit">>
  BY Zenon DEF Script, StopStatements, RosterStatements, CheckpointStatements, MapStatements,
         ChipStatements, ManualStatements, DeclareStatements, DeviceStatements
<1> QED
  BY <1>1, <1>4, <1>5, <1>6, <1>7, <1>8, PublishScript

(* The statements that only look, by name.                                 *)
LEMMA LooksAre ==
    Looks = {"course", "roster", "chips", "antennas", "policy", "mode", "sessions", "reads",
             "manual", "declared", "races", "readers", "floor", "space", "clock", "number",
             "latest"}
<1>1. Range(ReadOrder) = {"course", "roster", "chips", "antennas", "policy", "mode",
                          "sessions", "reads", "manual", "declared"}
  BY DEF ReadOrder, Range
<1> QED
  BY <1>1 DEF Looks

(* A short sequence, element by element.                                   *)
LEMMA Two == ASSUME NEW a, NEW b
    PROVE  LET q == <<a, b>> IN Len(q) = 2 /\ q[1] = a /\ q[2] = b
  OBVIOUS

LEMMA Three == ASSUME NEW a, NEW b, NEW c
    PROVE  LET q == <<a, b, c>> IN Len(q) = 3 /\ q[1] = a /\ q[2] = b /\ q[3] = c
  OBVIOUS

LEMMA Four == ASSUME NEW a, NEW b, NEW c, NEW d
    PROVE  LET q == <<a, b, c, d>> IN Len(q) = 4 /\ q[1] = a /\ q[2] = b /\ q[3] = c /\ q[4] = d
  OBVIOUS

LEMMA Five == ASSUME NEW a, NEW b, NEW c, NEW d, NEW e
    PROVE  LET q == <<a, b, c, d, e>> IN
           Len(q) = 5 /\ q[1] = a /\ q[2] = b /\ q[3] = c /\ q[4] = d /\ q[5] = e
  OBVIOUS

LEMMA Six == ASSUME NEW a, NEW b, NEW c, NEW d, NEW e, NEW f
    PROVE  LET q == <<a, b, c, d, e, f>> IN
           Len(q) = 6 /\ q[1] = a /\ q[2] = b /\ q[3] = c /\ q[4] = d /\ q[5] = e /\ q[6] = f
  OBVIOUS

(* The script of publish, statement by statement.                          *)
IsPublishScript(q) ==
    /\ Len(q) = 15
    /\ q[1] = "races" /\ q[2] = "course" /\ q[3] = "roster" /\ q[4] = "chips"
    /\ q[5] = "antennas" /\ q[6] = "policy" /\ q[7] = "mode" /\ q[8] = "sessions"
    /\ q[9] = "reads" /\ q[10] = "manual" /\ q[11] = "declared" /\ q[12] = "number"
    /\ q[13] = "latest" /\ q[14] = "publish" /\ q[15] = "audit"

(* It is that.                                                             *)
LEMMA Fifteen == IsPublishScript(
        <<"races", "course", "roster", "chips", "antennas", "policy", "mode", "sessions",
          "reads", "manual", "declared", "number", "latest", "publish", "audit">>)
  BY DEF IsPublishScript

(* A place in a short sequence is one of a few.                            *)
LEMMA UpTo ==
    /\ \A s \in 1..2 : s = 1 \/ s = 2
    /\ \A s \in 1..3 : s = 1 \/ s = 2 \/ s = 3
    /\ \A s \in 1..4 : s = 1 \/ s = 2 \/ s = 3 \/ s = 4
    /\ \A s \in 1..5 : s = 1 \/ s = 2 \/ s = 3 \/ s = 4 \/ s = 5
    /\ \A s \in 1..6 : s = 1 \/ s = 2 \/ s = 3 \/ s = 4 \/ s = 5 \/ s = 6
    /\ \A s \in 1..15 : \/ s = 1 \/ s = 2 \/ s = 3 \/ s = 4 \/ s = 5 \/ s = 6 \/ s = 7 \/ s = 8
                          \/ s = 9 \/ s = 10 \/ s = 11 \/ s = 12 \/ s = 13 \/ s = 14 \/ s = 15
  OBVIOUS

(* The statements that write. What is typed is what is written, but for a  *)
(* policy, which is two writes.                                            *)
Writes == (Kinds \ {"policy"}) \cup {"set mode", "set policy"}

(* The statements by which a command writes.                               *)
WritesOf(c) == IF c.is = "policy" THEN {"set mode", "set policy"} ELSE {c.is}

(* A script looks until its first write, at w; only a policy's goes on     *)
(* after it, and the row of the trail is last.                             *)
Formed(c, q, w) ==
    /\ Len(q) \in Nat /\ w \in 1..(Len(q) - 1)
    /\ \A s \in 1..Len(q) : s < w => q[s] \in Looks
    /\ q[w] \in WritesOf(c)
    /\ \A s \in 1..Len(q) : w < s /\ s < Len(q) => c.is = "policy" /\ q[s] \in {"policy", "set policy"}
    /\ \A s \in 1..Len(q) : q[s] = "set policy" => s = Len(q) - 1
    /\ q[Len(q)] = "audit"

(* Sums of small numbers, to be cited where the solver has strings to do   *)
(* with as well.                                                           *)
LEMMA Sums ==
    /\ 1 \in Nat /\ 2 \in Nat /\ 3 \in Nat /\ 4 \in Nat /\ 5 \in Nat /\ 6 \in Nat
    /\ 14 \in Nat /\ 15 \in Nat
    /\ 2 = 1 + 1 /\ 3 = 2 + 1 /\ 4 = 3 + 1 /\ 5 = 4 + 1 /\ 6 = 5 + 1 /\ 15 = 14 + 1
    /\ 1 > 0 /\ 2 > 0 /\ 3 > 0 /\ 4 > 0 /\ 5 > 0 /\ 14 > 0
    /\ 2 \in 1..(4 - 1) /\ 4 - 1 = 3 /\ 2 \in 1..(5 - 1) /\ 5 - 1 = 4
    /\ \A s \in 1..4 : s < 2 => s = 1
    /\ \A s \in 1..4 : 2 < s /\ s < 4 => s = 3
    /\ \A s \in 1..5 : s < 2 => s = 1
    /\ \A s \in 1..5 : 2 < s /\ s < 5 => s = 3 \/ s = 4
  OBVIOUS

(* A script that looks, writes once and then tells the trail is formed.    *)
LEMMA WritesOnce ==
    ASSUME NEW c, NEW q, NEW n \in Nat, NEW w \in Nat, n = w + 1, w > 0, Len(q) = n,
           \A s \in 1..n : s = w \/ s = n \/ q[s] \in Looks,
           q[w] \in WritesOf(c), q[n] = "audit"
    PROVE  Formed(c, q, w)
<1>1. "set policy" \notin Looks /\ "audit" # "set policy"
  BY LooksAre
<1>2. \A s \in 1..n : q[s] = "set policy" => s = n - 1
  <2>1. n - 1 = w
    OBVIOUS
  <2> QED
    BY <1>1, <2>1, Zenon
<1>3. \A s \in 1..n : s < w => q[s] \in Looks
  OBVIOUS
<1>4. \A s \in 1..n : ~(w < s /\ s < n)
  OBVIOUS
<1>5. w \in 1..(n - 1)
  OBVIOUS
<1> QED
  BY <1>2, <1>3, <1>4, <1>5, Zenon DEF Formed

(* So is a policy's that sets the mode first.                              *)
LEMMA PolicyWrites ==
    ASSUME NEW c, c.is = "policy", NEW q,
           \/ Len(q) = 4 /\ q[1] = "races" /\ q[2] = "set mode" /\ q[3] = "policy" /\ q[4] = "audit"
           \/ /\ Len(q) = 5 /\ q[1] = "races" /\ q[2] = "set mode" /\ q[3] = "policy"
              /\ q[4] = "set policy" /\ q[5] = "audit"
    PROVE  Formed(c, q, 2)
<1>1. "races" \in Looks /\ "races" # "set policy" /\ "policy" # "set policy" /\ "set mode" # "set policy"
  BY LooksAre
<1>2. q[2] \in WritesOf(c)
  BY DEF WritesOf
<1>3. CASE Len(q) = 4 /\ q[1] = "races" /\ q[2] = "set mode" /\ q[3] = "policy" /\ q[4] = "audit"
  <2>1. \A s \in 1..4 : s = 1 \/ s = 2 \/ s = 3 \/ s = 4
    BY UpTo
  <2>2. /\ \A s \in 1..4 : s < 2 => q[s] \in Looks
        /\ \A s \in 1..4 : 2 < s /\ s < 4 => q[s] \in {"policy", "set policy"}
        /\ \A s \in 1..4 : q[s] = "set policy" => s = 3
    <3>2. "audit" # "set policy"
      OBVIOUS
    <3> QED
      BY <1>1, <1>3, <2>1, <3>2, Sums, Zenon
  <2>3. Len(q) \in Nat /\ 2 \in 1..(Len(q) - 1) /\ Len(q) - 1 = 3
    <3>2. Len(q) = 4
      BY <1>3, Zenon
    <3> QED
      BY <3>2, Sums, Zenon
  <2> QED
    BY <1>2, <1>3, <2>2, <2>3 DEF Formed
<1>4. CASE /\ Len(q) = 5 /\ q[1] = "races" /\ q[2] = "set mode" /\ q[3] = "policy"
           /\ q[4] = "set policy" /\ q[5] = "audit"
  <2>1. \A s \in 1..5 : s = 1 \/ s = 2 \/ s = 3 \/ s = 4 \/ s = 5
    BY UpTo
  <2>2. /\ \A s \in 1..5 : s < 2 => q[s] \in Looks
        /\ \A s \in 1..5 : 2 < s /\ s < 5 => q[s] \in {"policy", "set policy"}
        /\ \A s \in 1..5 : q[s] = "set policy" => s = 4
    <3>2. "audit" # "set policy"
      OBVIOUS
    <3> QED
      BY <1>1, <1>4, <2>1, <3>2, Sums, Zenon
  <2>3. Len(q) \in Nat /\ 2 \in 1..(Len(q) - 1) /\ Len(q) - 1 = 4
    <3>2. Len(q) = 5
      BY <1>4, Zenon
    <3> QED
      BY <3>2, Sums, Zenon
  <2> QED
    BY <1>2, <1>4, <2>2, <2>3 DEF Formed
<1> QED
  BY <1>3, <1>4

(* Every command's script is formed: nothing is written before everything  *)
(* is looked at, save a policy after its mode, and the trail is told last. *)
LEMMA ScriptsFormed ==
    ASSUME NEW c \in Commands
    PROVE  \E w : Formed(c, Script(c), w)
<1> DEFINE q == Script(c)
<1>1. /\ "races" \in Looks /\ "floor" \in Looks /\ "space" \in Looks /\ "clock" \in Looks
      /\ "roster" \in Looks /\ "course" \in Looks /\ "readers" \in Looks /\ "chips" \in Looks
      /\ "policy" \in Looks
  BY LooksAre
<1>2. c.is # "policy" => c.is \in WritesOf(c)
  BY DEF WritesOf
<1>3. CASE c.is \in {"set floor", "create race", "add reader"}
  <2>1. q = <<c.is, "audit">>
    BY <1>3, Scripts
  <2> HIDE DEF q
  <2>2. Len(q) = 2 /\ q[1] = c.is /\ q[2] = "audit"
    BY <2>1, Two
  <2>3. Formed(c, q, 1)
    <3>1. \A s \in 1..2 : s = 1 \/ s = 2
      BY UpTo
    <3> QED
      BY <1>2, <1>3, <2>2, <3>1, Sums, WritesOnce, Zenon
  <2> QED
    BY <2>3 DEF q
<1>4. CASE c.is = "stop"
  <2>1. q = <<"races", "stop", "audit">>
    BY <1>4, Scripts
  <2> HIDE DEF q
  <2>2. Len(q) = 3 /\ q[1] = "races" /\ q[2] = "stop" /\ q[3] = "audit"
    BY <2>1, Three
  <2>3. \A s \in 1..3 : s = 1 \/ s = 2 \/ s = 3
    BY UpTo
  <2>4. Formed(c, q, 2)
    BY <1>1, <1>2, <1>4, <2>2, <2>3, Sums, WritesOnce, ZenonT(60)
  <2> QED
    BY <2>4 DEF q
<1>5. CASE c.is \in {"import roster", "add checkpoint", "declare"}
  <2>1. q \in {<<"races", "roster", c.is, "audit">>, <<"races", "course", c.is, "audit">>}
    BY <1>5, Scripts
  <2> HIDE DEF q
  <2>2. Len(q) = 4 /\ q[1] = "races" /\ q[2] \in {"roster", "course"} /\ q[3] = c.is /\ q[4] = "audit"
    BY <2>1, Four
  <2>3. \A s \in 1..4 : s = 1 \/ s = 2 \/ s = 3 \/ s = 4
    BY UpTo
  <2>4. Formed(c, q, 3)
    BY <1>1, <1>2, <1>5, <2>2, <2>3, Sums, WritesOnce, ZenonT(60)
  <2> QED
    BY <2>4 DEF q
<1>6. CASE c.is \in {"map reader", "import chips", "manual add"}
  <2>1. q \in {<<"races", "readers", "course", c.is, "audit">>,
               <<"races", "roster", "chips", c.is, "audit">>,
               <<"races", "course", "roster", c.is, "audit">>}
    BY <1>6, Scripts
  <2> HIDE DEF q
  <2>2. /\ Len(q) = 5 /\ q[1] = "races" /\ q[2] \in {"readers", "roster", "course"}
        /\ q[3] \in {"course", "chips", "roster"} /\ q[4] = c.is /\ q[5] = "audit"
    BY <2>1, Five
  <2>3. \A s \in 1..5 : s = 1 \/ s = 2 \/ s = 3 \/ s = 4 \/ s = 5
    BY UpTo
  <2>4. Formed(c, q, 4)
    BY <1>1, <1>2, <1>6, <2>2, <2>3, Sums, WritesOnce, ZenonT(60)
  <2> QED
    BY <2>4 DEF q
<1>7. CASE c.is = "start"
  <2>1. \/ q = <<"floor", "space", "races", "start", "audit">>
        \/ q = <<"floor", "space", "clock", "races", "start", "audit">>
    BY <1>7, Scripts
  <2> HIDE DEF q
  <2>2. CASE q = <<"floor", "space", "races", "start", "audit">>
    <3>1. /\ Len(q) = 5 /\ q[1] = "floor" /\ q[2] = "space" /\ q[3] = "races" /\ q[4] = "start"
          /\ q[5] = "audit"
      BY <2>2, Five
    <3>2. \A s \in 1..5 : s = 1 \/ s = 2 \/ s = 3 \/ s = 4 \/ s = 5
      BY UpTo
    <3>3. Formed(c, q, 4)
      BY <1>1, <1>2, <1>7, <3>1, <3>2, Sums, WritesOnce, Zenon
    <3> QED
      BY <3>3 DEF q
  <2>3. CASE q = <<"floor", "space", "clock", "races", "start", "audit">>
    <3>1. /\ Len(q) = 6 /\ q[1] = "floor" /\ q[2] = "space" /\ q[3] = "clock" /\ q[4] = "races"
          /\ q[5] = "start" /\ q[6] = "audit"
      BY <2>3, Six
    <3>2. \A s \in 1..6 : s = 1 \/ s = 2 \/ s = 3 \/ s = 4 \/ s = 5 \/ s = 6
      BY UpTo
    <3>3. Formed(c, q, 5)
      BY <1>1, <1>2, <1>7, <3>1, <3>2, Sums, WritesOnce, ZenonT(60)
    <3> QED
      BY <3>3 DEF q
  <2> QED
    BY <2>1, <2>2, <2>3
<1>8. CASE c.is = "policy"
  <2>1. \/ q = <<"races", "policy", "set policy", "audit">>
        \/ q = <<"races", "set mode", "policy", "audit">>
        \/ q = <<"races", "set mode", "policy", "set policy", "audit">>
    BY <1>8, Scripts
  <2> HIDE DEF q
  <2>2. CASE q = <<"races", "policy", "set policy", "audit">>
    <3>1. Len(q) = 4 /\ q[1] = "races" /\ q[2] = "policy" /\ q[3] = "set policy" /\ q[4] = "audit"
      BY <2>2, Four
    <3>2. \A s \in 1..4 : s = 1 \/ s = 2 \/ s = 3 \/ s = 4
      BY UpTo
    <3>3. q[3] \in WritesOf(c)
      BY <1>8, <3>1 DEF WritesOf
    <3>4. Formed(c, q, 3)
      BY <1>1, <3>1, <3>2, <3>3, Sums, WritesOnce, ZenonT(60)
    <3> QED
      BY <3>4 DEF q
  <2>3. CASE q = <<"races", "set mode", "policy", "audit">>
    <3>1. Len(q) = 4 /\ q[1] = "races" /\ q[2] = "set mode" /\ q[3] = "policy" /\ q[4] = "audit"
      BY <2>3, Four
    <3>2. Formed(c, q, 2)
      BY <1>8, <3>1, PolicyWrites
    <3> QED
      BY <3>2 DEF q
  <2>4. CASE q = <<"races", "set mode", "policy", "set policy", "audit">>
    <3>1. /\ Len(q) = 5 /\ q[1] = "races" /\ q[2] = "set mode" /\ q[3] = "policy"
          /\ q[4] = "set policy" /\ q[5] = "audit"
      BY <2>4, Five
    <3>2. Formed(c, q, 2)
      BY <1>8, <3>1, PolicyWrites
    <3> QED
      BY <3>2 DEF q
  <2> QED
    BY <2>1, <2>2, <2>3, <2>4
<1>9. CASE c.is = "publish"
  <2>1. IsPublishScript(q)
    BY <1>9, Scripts, Fifteen
  <2> HIDE DEF q
  <2>2. \A s \in 1..15 : q[s] \in Looks \/ s = 14 \/ s = 15
    <3>1. /\ q[1] \in Looks /\ q[2] \in Looks /\ q[3] \in Looks /\ q[4] \in Looks
          /\ q[5] \in Looks /\ q[6] \in Looks /\ q[7] \in Looks /\ q[8] \in Looks
          /\ q[9] \in Looks /\ q[10] \in Looks /\ q[11] \in Looks /\ q[12] \in Looks
          /\ q[13] \in Looks
      BY <2>1, LooksAre, Zenon DEF IsPublishScript
    <3> QED
      BY <3>1, UpTo
  <2>3. Len(q) = 15 /\ q[14] \in WritesOf(c) /\ q[15] = "audit"
    BY <1>2, <1>9, <2>1 DEF IsPublishScript
  <2>4. Formed(c, q, 14)
    BY <2>2, <2>3, Sums, WritesOnce, Zenon
  <2> QED
    BY <2>4 DEF q
<1> QED
  BY <1>3, <1>4, <1>5, <1>6, <1>7, <1>8, <1>9, Scripts DEF Kinds

-----------------------------------------------------------------------------
(* What is where.                                                          *)

(* The tables.                                                             *)
Tables == {"races", "readers", "course", "roster", "antennas", "chips", "policy", "mode", "floor",
           "sessions", "reads", "manual", "declared", "revisions"}

(* What is only ever added to.                                             *)
Journals == {"sessions", "reads", "manual", "declared", "revisions"}

(* A sequence of whatever it is a sequence of.                             *)
Listing(s) == s \in Seq(Range(s))

(* What is kept of a command that runs.                                    *)
Fields == {"id", "command", "step", "seen", "asOf", "said"}

(* A command at a console, and where it is in its script.                  *)
IsCommand(c) ==
    /\ DOMAIN c = Fields
    /\ c.command \in Commands
    /\ c.step \in 1..Len(Script(c.command))

(* What is where it is expected, and no two consoles run one command.      *)
Shape ==
    /\ DOMAIN console = Operators
    /\ begun \in Nat
    /\ killed \subseteq 1..begun
    /\ DOMAIN db = Tables
    /\ \A t \in Journals : Listing(db[t])
    /\ Listing(trail) /\ Listing(commits)
    /\ \A o \in Operators : Busy(o) =>
          IsCommand(console[o]) /\ console[o].id \in (1..begun) \ killed
    /\ \A o, p \in Operators : Busy(o) /\ Busy(p) /\ console[o].id = console[p].id => o = p

(* A sequence and one row more.                                            *)
LEMMA Appended ==
    ASSUME NEW s, Listing(s), NEW x
    PROVE  LET t == Append(s, x) IN
           /\ Listing(t) /\ Len(s) \in Nat /\ Len(t) = Len(s) + 1 /\ t[Len(s) + 1] = x
           /\ \A i \in 1..Len(s) : t[i] = s[i]
           /\ DOMAIN s = 1..Len(s) /\ DOMAIN t = 1..(Len(s) + 1)
           /\ Range(t) = Range(s) \cup {x}
<1> DEFINE S == Range(s) \cup {x}
           t == Append(s, x)
<1>1. s \in Seq(Range(s))
  BY DEF Listing
<1>2. s \in Seq(S) /\ Len(s) \in Nat /\ DOMAIN s = 1..Len(s)
  <2>1. Seq(Range(s)) \subseteq Seq(S)
    OBVIOUS
  <2> QED
    BY <1>1, <2>1
<1>3. /\ t \in Seq(S) /\ Len(t) = Len(s) + 1 /\ \A i \in 1..Len(s) : t[i] = s[i]
      /\ t[Len(s) + 1] = x
  BY <1>2, AppendProperties
<1>4. DOMAIN t = 1..(Len(s) + 1)
  BY <1>2, <1>3
<1> HIDE DEF t
<1>5. Range(t) = Range(s) \cup {x}
  <2>1. \A i \in 1..(Len(s) + 1) : i \in 1..Len(s) \/ i = Len(s) + 1
    BY <1>2
  <2>2. \A i \in 1..Len(s) : i \in 1..(Len(s) + 1)
    BY <1>2
  <2>3. Len(s) + 1 \in 1..(Len(s) + 1)
    BY <1>2
  <2> QED
    BY <1>2, <1>3, <1>4, <2>1, <2>2, <2>3 DEF Range
<1>6. t \in Seq(Range(t))
  BY <1>3, <1>5
<1> QED
  BY <1>2, <1>3, <1>4, <1>5, <1>6 DEF t, Listing

(* The statement due of a command, and what follows it.                    *)
LEMMA Onward ==
    ASSUME NEW c, IsCommand(c), Script(c.command)[c.step] # "audit"
    PROVE  c.step + 1 \in 1..Len(Script(c.command)) /\ c.step \in Nat
<1>1. PICK w : Formed(c.command, Script(c.command), w)
  BY ScriptsFormed DEF IsCommand
<1>2. /\ Len(Script(c.command)) \in Nat /\ Script(c.command)[Len(Script(c.command))] = "audit"
      /\ c.step \in 1..Len(Script(c.command))
  BY <1>1 DEF Formed, IsCommand
<1>3. c.step # Len(Script(c.command))
  BY <1>2, Zenon
<1> DEFINE s == c.step
           n == Len(Script(c.command))
<1>4. s \in 1..n /\ n \in Nat /\ s # n
  BY <1>2, <1>3
<1> HIDE DEF s, n
<1>5. s + 1 \in 1..n /\ s \in Nat
  BY <1>4
<1> QED
  BY <1>5 DEF s, n

(* A statement looks, writes or tells the trail, and does only one of      *)
(* them.                                                                   *)
LEMMA Kind ==
    /\ "audit" \notin Looks /\ "audit" \notin Writes /\ Looks \cap Writes = {}
    /\ "policy" \in Looks
    /\ \A c : c.is \in Kinds => WritesOf(c) \subseteq Writes
<1>1. \A x \in Looks : x # "audit" /\ x \notin Writes
  BY LooksAre DEF Writes, Kinds
<1>2. "audit" \notin Writes
  BY DEF Writes, Kinds
<1>3. "policy" \in Looks
  BY LooksAre
<1>4. \A c : c.is \in Kinds => WritesOf(c) \subseteq Writes
  BY DEF WritesOf, Writes
<1> QED
  BY <1>1, <1>2, <1>3, <1>4

-----------------------------------------------------------------------------
(* What a statement does.                                                  *)

(* A command is one statement further.                                     *)
Further(c, k) ==
    /\ IsCommand(k) /\ k.id = c.id /\ k.command = c.command
    /\ c.step \in Nat /\ k.step = c.step + 1

(* Only one console changes.                                               *)
Alone(o) ==
    /\ DOMAIN console' = Operators
    /\ \A p \in Operators : p # o => console'[p] = console[p]

(* What Having comes to.                                                   *)
LEMMA HavingIs ==
    ASSUME NEW f, NEW x, NEW value
    PROVE  /\ Having(f, x, value)[x] = value
           /\ DOMAIN Having(f, x, value) = DOMAIN f \cup {x}
           /\ \A y \in DOMAIN f : y # x => Having(f, x, value)[y] = f[y]
  BY DEF Having

(* One console is given something else.                                    *)
LEMMA Set ==
    ASSUME DOMAIN console = Operators, NEW o \in Operators, NEW k,
           console' = [console EXCEPT ![o] = k]
    PROVE  console'[o] = k /\ Alone(o)
  BY DEF Alone

(* Look, without the record it updates.                                    *)
LEMMA LookStep ==
    ASSUME Shape, NEW o \in Operators, Look(o)
    PROVE  LET c == console[o]
               k == console'[o] IN
           /\ Busy(o) /\ IsCommand(c) /\ Due(o) \in Looks
           /\ Further(c, k) /\ k.said = c.said
           /\ \E found \in Findings(Due(o)) :
                 ~GivesUp(c.command, Due(o), found, c.seen) /\ k.seen = Having(c.seen, Due(o), found)
           /\ k.asOf = Having(c.asOf, Due(o), Len(commits))
           /\ Alone(o)
           /\ UNCHANGED <<db, trail, commits, killed, begun>>
<1> DEFINE c == console[o]
<1>1. Busy(o) /\ Due(o) \in Looks /\ UNCHANGED <<db, trail, commits, killed, begun>>
  BY DEF Look
<1>2. DOMAIN console = Operators /\ IsCommand(c) /\ DOMAIN c = Fields
  BY <1>1 DEF Shape, IsCommand
<1>3. PICK found \in Findings(Due(o)) :
        /\ ~GivesUp(c.command, Due(o), found, c.seen)
        /\ console' = [console EXCEPT ![o].step = @ + 1,
                                      ![o].seen = Having(@, Due(o), found),
                                      ![o].asOf = Having(@, Due(o), Len(commits))]
  BY DEF Look
<1> DEFINE seen == Having(c.seen, Due(o), found)
           asOf == Having(c.asOf, Due(o), Len(commits))
           k == [c EXCEPT !.step = c.step + 1, !.seen = seen, !.asOf = asOf]
<1>4. console' = [console EXCEPT ![o] = k]
  BY <1>2, <1>3
<1> HIDE DEF seen, asOf
<1>5. /\ DOMAIN k = Fields /\ k.id = c.id /\ k.command = c.command /\ k.step = c.step + 1
      /\ k.said = c.said /\ k.seen = seen /\ k.asOf = asOf
  BY <1>2 DEF Fields
<1> HIDE DEF k
<1>6. console'[o] = k /\ Alone(o)
  BY <1>2, <1>4, Set
<1>7. c.step + 1 \in 1..Len(Script(c.command)) /\ c.step \in Nat
  BY <1>1, <1>2, Kind, Onward DEF Due
<1>8. Further(c, k)
  BY <1>2, <1>5, <1>7 DEF Further, IsCommand
<1> QED
  BY <1>1, <1>2, <1>3, <1>5, <1>6, <1>8 DEF seen, asOf

(* Commit, without the records it updates.                                 *)
LEMMA CommitStep ==
    ASSUME Shape, NEW o \in Operators, Busy(o), Due(o) # "audit", NEW table \in Tables, NEW row,
           NEW stored, Commit(o, table, row, stored)
    PROVE  LET c == console[o]
               k == console'[o] IN
           /\ IsCommand(c) /\ Further(c, k)
           /\ k.said = row /\ k.seen = c.seen /\ k.asOf = c.asOf
           /\ Alone(o)
           /\ DOMAIN db' = Tables /\ db'[table] = stored
           /\ \A t \in Tables : t # table => db'[t] = db[t]
           /\ commits' = Append(commits, [table |-> table, by |-> c.id, row |-> row])
           /\ UNCHANGED <<trail, killed, begun>>
<1> DEFINE c == console[o]
           k == [c EXCEPT !.step = c.step + 1, !.said = row]
<1>1. DOMAIN console = Operators /\ IsCommand(c) /\ DOMAIN c = Fields /\ DOMAIN db = Tables
  BY DEF Shape, IsCommand
<1>2. /\ db' = [db EXCEPT ![table] = stored]
      /\ commits' = Append(commits, [table |-> table, by |-> c.id, row |-> row])
      /\ console' = [console EXCEPT ![o].step = @ + 1, ![o].said = row]
      /\ UNCHANGED <<trail, killed, begun>>
  BY DEF Commit
<1>3. console' = [console EXCEPT ![o] = k]
  BY <1>1, <1>2
<1>4. /\ DOMAIN k = Fields /\ k.id = c.id /\ k.command = c.command /\ k.step = c.step + 1
      /\ k.said = row /\ k.seen = c.seen /\ k.asOf = c.asOf
  BY <1>1 DEF Fields
<1>5. /\ DOMAIN db' = Tables /\ db'[table] = stored
      /\ \A t \in Tables : t # table => db'[t] = db[t]
  BY <1>1, <1>2
<1> HIDE DEF k
<1>6. console'[o] = k /\ Alone(o)
  BY <1>1, <1>3, Set
<1>7. c.step + 1 \in 1..Len(Script(c.command)) /\ c.step \in Nat
  BY <1>1, Onward DEF Due
<1>8. Further(c, k)
  BY <1>1, <1>4, <1>7 DEF Further, IsCommand
<1> QED
  BY <1>1, <1>2, <1>4, <1>5, <1>6, <1>8

(* The actions of a command that write.                                    *)
Writing(o) ==
    \/ RecordSession(o) \/ ImportChips(o) \/ SetMode(o) \/ SetPolicy(o) \/ SetFloor(o)
    \/ ImportRoster(o) \/ AddCheckpoint(o) \/ MapReader(o) \/ AddManual(o) \/ Declare(o)
    \/ CreateRace(o) \/ AddReader(o) \/ Publish(o)

(* What they write to.                                                     *)
TableOf(statement) ==
    CASE statement = "create race" -> "races"
      [] statement = "add reader" -> "readers"
      [] statement \in {"start", "stop"} -> "sessions"
      [] statement = "import roster" -> "roster"
      [] statement = "add checkpoint" -> "course"
      [] statement = "map reader" -> "antennas"
      [] statement = "import chips" -> "chips"
      [] statement = "set mode" -> "mode"
      [] statement = "set policy" -> "policy"
      [] statement = "set floor" -> "floor"
      [] statement = "manual add" -> "manual"
      [] statement = "declare" -> "declared"
      [] statement = "publish" -> "revisions"

(* What a write comes to.                                                  *)
Wrote(o, table, row) ==
    /\ Busy(o) /\ IsCommand(console[o]) /\ table \in Tables
    /\ Due(o) \in Writes /\ table = TableOf(Due(o))
    /\ Further(console[o], console'[o])
    /\ console'[o].said = row /\ console'[o].seen = console[o].seen
    /\ console'[o].asOf = console[o].asOf
    /\ Alone(o)
    /\ DOMAIN db' = Tables
    /\ table \in Journals => db'[table] = Append(db[table], row)
    /\ \A t \in Tables : t # table => db'[t] = db[t]
    /\ commits' = Append(commits, [table |-> table, by |-> console[o].id, row |-> row])
    /\ UNCHANGED <<trail, killed, begun>>

(* A write goes to a table, and which go to what is only added to.         *)
LEMMA TablesAre ==
    \A s \in Writes :
        /\ TableOf(s) \in Tables
        /\ TableOf(s) \in Journals =>
              /\ s \in {"start", "stop", "manual add", "declare", "publish"}
              /\ s \in {"start", "stop"} => TableOf(s) = "sessions"
              /\ s = "manual add" => TableOf(s) = "manual"
              /\ s = "declare" => TableOf(s) = "declared"
              /\ s = "publish" => TableOf(s) = "revisions"
<1>1. /\ TableOf("create race") = "races" /\ TableOf("add reader") = "readers"
      /\ TableOf("start") = "sessions" /\ TableOf("stop") = "sessions"
      /\ TableOf("import roster") = "roster" /\ TableOf("add checkpoint") = "course"
      /\ TableOf("map reader") = "antennas" /\ TableOf("import chips") = "chips"
      /\ TableOf("set mode") = "mode" /\ TableOf("set policy") = "policy"
      /\ TableOf("set floor") = "floor" /\ TableOf("manual add") = "manual"
      /\ TableOf("declare") = "declared" /\ TableOf("publish") = "revisions"
  BY DEF TableOf
<1>2. ASSUME NEW s \in Writes
      PROVE  s \in {"create race", "add reader", "start", "stop", "import roster",
                    "add checkpoint", "map reader", "import chips", "set mode", "set policy",
                    "set floor", "manual add", "declare", "publish"}
  BY DEF Writes, Kinds
<1> QED
  BY ZenonT(60), <1>1, <1>2 DEF Tables, Journals

(* A write that commits what it should to its table is one.                *)
LEMMA WroteIs ==
    ASSUME Shape, NEW o \in Operators, Busy(o), Due(o) \in Writes, NEW row, NEW stored,
           Commit(o, TableOf(Due(o)), row, stored),
           TableOf(Due(o)) \in Journals => stored = Append(db[TableOf(Due(o))], row)
    PROVE  Wrote(o, TableOf(Due(o)), row) /\ db'[TableOf(Due(o))] = stored
<1> DEFINE table == TableOf(Due(o))
<1>1. table \in Tables
  BY TablesAre
<1>2. Due(o) # "audit"
  BY Kind
<1> HIDE DEF table
<1>3. Commit(o, table, row, stored)
  BY DEF table
<1> QED
  BY <1>1, <1>2, <1>3, CommitStep DEF Wrote, table

(* Every action of a command that writes is one.                           *)
LEMMA WritingIs ==
    ASSUME Shape, NEW o \in Operators, Writing(o)
    PROVE  \E row : Wrote(o, TableOf(Due(o)), row)
<1>1. ASSUME NEW s \in Writes, NEW t, t = TableOf(s), Due(o) = s, Busy(o), NEW row,
             Insert(o, t, row)
      PROVE  \E r : Wrote(o, TableOf(Due(o)), r)
  <2>1. Commit(o, TableOf(Due(o)), row, Append(db[TableOf(Due(o))], row))
    BY <1>1 DEF Insert
  <2> QED
    BY <1>1, <2>1, WroteIs
<1>2. ASSUME NEW s \in Writes, NEW t, t = TableOf(s), t \notin Journals, Due(o) = s, Busy(o),
             NEW row, NEW stored, Commit(o, t, row, stored)
      PROVE  \E r : Wrote(o, TableOf(Due(o)), r)
  <2>1. Commit(o, TableOf(Due(o)), row, stored)
    BY <1>2
  <2> QED
    BY <1>2, <2>1, WroteIs
<1>3. /\ "create race" \in Writes /\ "races" = TableOf("create race") /\ "races" \notin Journals
      /\ "add reader" \in Writes /\ "readers" = TableOf("add reader") /\ "readers" \notin Journals
      /\ "start" \in Writes /\ "sessions" = TableOf("start")
      /\ "stop" \in Writes /\ "sessions" = TableOf("stop")
      /\ "import roster" \in Writes /\ "roster" = TableOf("import roster") /\ "roster" \notin Journals
      /\ "add checkpoint" \in Writes /\ "course" = TableOf("add checkpoint") /\ "course" \notin Journals
      /\ "map reader" \in Writes /\ "antennas" = TableOf("map reader") /\ "antennas" \notin Journals
      /\ "import chips" \in Writes /\ "chips" = TableOf("import chips") /\ "chips" \notin Journals
      /\ "set mode" \in Writes /\ "mode" = TableOf("set mode") /\ "mode" \notin Journals
      /\ "set policy" \in Writes /\ "policy" = TableOf("set policy") /\ "policy" \notin Journals
      /\ "set floor" \in Writes /\ "floor" = TableOf("set floor") /\ "floor" \notin Journals
      /\ "manual add" \in Writes /\ "manual" = TableOf("manual add")
      /\ "declare" \in Writes /\ "declared" = TableOf("declare")
      /\ "publish" \in Writes /\ "revisions" = TableOf("publish")
  BY DEF TableOf, Writes, Kinds, Journals
<1>4. CASE RecordSession(o)
  BY <1>1, <1>3, <1>4 DEF RecordSession
<1>5. CASE ImportChips(o)
  BY <1>2, <1>3, <1>5 DEF ImportChips
<1>6. CASE SetMode(o)
  BY <1>2, <1>3, <1>6 DEF SetMode
<1>7. CASE SetPolicy(o)
  BY <1>2, <1>3, <1>7 DEF SetPolicy
<1>8. CASE SetFloor(o)
  BY <1>2, <1>3, <1>8 DEF SetFloor
<1>9. CASE ImportRoster(o)
  BY <1>2, <1>3, <1>9 DEF ImportRoster
<1>10. CASE AddCheckpoint(o)
  BY <1>2, <1>3, <1>10 DEF AddCheckpoint
<1>11. CASE MapReader(o)
  BY <1>2, <1>3, <1>11 DEF MapReader
<1>12. CASE AddManual(o)
  BY <1>1, <1>3, <1>12 DEF AddManual
<1>13. CASE Declare(o)
  BY <1>1, <1>3, <1>13 DEF Declare
<1>14. CASE CreateRace(o)
  BY <1>2, <1>3, <1>14 DEF CreateRace
<1>15. CASE AddReader(o)
  BY <1>2, <1>3, <1>15 DEF AddReader
<1>16. CASE Publish(o)
  BY <1>1, <1>3, <1>16 DEF Publish
<1> QED
  BY <1>4, <1>5, <1>6, <1>7, <1>8, <1>9, <1>10, <1>11, <1>12, <1>13, <1>14, <1>15, <1>16
  DEF Writing

(* The first of a command.                                                 *)
Fresh(command) ==
    [id |-> begun + 1, command |-> command, step |-> 1, seen |-> <<>>, asOf |-> <<>>,
     said |-> None]

(* A command is typed at an idle console.                                  *)
Typed(o, command) ==
    /\ ~Busy(o) /\ begun < MaxCommands
    /\ ImportsAlone /\ command.is = "import chips" =>
          \A p \in Operators : Busy(p) => console[p].command.is # "import chips"
    /\ console'[o] = Fresh(command) /\ IsCommand(console'[o])
    /\ Alone(o)
    /\ begun' = begun + 1
    /\ UNCHANGED <<db, trail, commits, killed>>

(* Begin, without the record it makes.                                     *)
LEMMA BeginStep ==
    ASSUME Shape, NEW o \in Operators, Begin(o)
    PROVE  \E command \in Commands : Typed(o, command)
<1>1. PICK command \in Commands :
        /\ ImportsAlone /\ command.is = "import chips" =>
              \A p \in Operators : Busy(p) => console[p].command.is # "import chips"
        /\ console' = [console EXCEPT ![o] = Fresh(command)]
  BY DEF Begin, Fresh
<1>2. DOMAIN console = Operators
  BY DEF Shape
<1>3. console'[o] = Fresh(command) /\ Alone(o)
  BY <1>1, <1>2, Set
<1>4. IsCommand(Fresh(command))
  <2>1. DOMAIN Fresh(command) = Fields
    BY DEF Fresh, Fields
  <2>2. Fresh(command).command = command /\ Fresh(command).step = 1
    BY DEF Fresh
  <2>3. PICK w : Formed(command, Script(command), w)
    BY ScriptsFormed
  <2> DEFINE n == Len(Script(command))
  <2>4. n \in Nat /\ w \in 1..(n - 1)
    BY <2>3 DEF Formed
  <2> HIDE DEF n
  <2>5. 1 \in 1..n
    BY <2>4
  <2> QED
    BY <2>1, <2>2, <2>5 DEF IsCommand, n
<1> QED
  BY <1>1, <1>3, <1>4 DEF Begin, Typed

(* A command that ends, and says nothing of it.                            *)
Ended(o) ==
    /\ Busy(o) /\ ~Busy(o)' /\ Alone(o)
    /\ UNCHANGED <<db, trail, commits, begun>>

(* A console is idle again.                                                *)
LEMMA SetIdle ==
    ASSUME Shape, NEW o \in Operators, console' = [console EXCEPT ![o] = Idle]
    PROVE  ~Busy(o)' /\ Alone(o)
<1>1. DOMAIN console = Operators
  BY DEF Shape
<1>2. console'[o] = Idle /\ Alone(o)
  BY <1>1, Set
<1> QED
  BY <1>2 DEF Busy, Idle

(* GiveUp leaves everything, and the statement looked at something that    *)
(* refuses it.                                                             *)
LEMMA GiveUpStep ==
    ASSUME Shape, NEW o \in Operators, GiveUp(o)
    PROVE  /\ Ended(o) /\ killed' = killed /\ Due(o) \in Looks
           /\ \E found \in Findings(Due(o)) :
                 GivesUp(console[o].command, Due(o), found, console[o].seen)
  BY SetIdle DEF GiveUp, Ended

(* Conflict leaves everything too.                                         *)
LEMMA ConflictStep ==
    ASSUME Shape, NEW o \in Operators, Conflict(o)
    PROVE  /\ Ended(o) /\ killed' = killed
           /\ Due(o) \in {"publish", "add checkpoint", "create race"}
  BY SetIdle DEF Conflict, Ended

(* Kill leaves everything but the console.                                 *)
LEMMA KillStep ==
    ASSUME Shape, NEW o \in Operators, Kill(o)
    PROVE  Ended(o) /\ killed' = killed \cup {console[o].id}
  BY SetIdle DEF Kill, Ended

(* What the trail is told.                                                 *)
Detail(c) == IF c.command.is = "policy" THEN Changed(c.seen.policy, c.command) ELSE c.said

(* A command tells the trail, and is over.                                 *)
Audited(o) ==
    /\ Busy(o) /\ ~Busy(o)' /\ Alone(o) /\ Due(o) = "audit"
    /\ trail' = Append(trail, [by |-> console[o].id, action |-> console[o].command.is,
                               detail |-> Detail(console[o])])
    /\ UNCHANGED <<db, commits, killed, begun>>

(* Audit, without the record it appends.                                   *)
LEMMA AuditStep ==
    ASSUME Shape, NEW o \in Operators, Audit(o)
    PROVE  Audited(o)
  BY SetIdle DEF Audit, Audited, Detail

(* A read comes.                                                           *)
Arrived(read) ==
    /\ DOMAIN db' = Tables
    /\ db'["reads"] = Append(db["reads"], read)
    /\ \A t \in Tables : t # "reads" => db'[t] = db[t]
    /\ commits' = Append(commits, [table |-> "reads", by |-> 0, row |-> read])
    /\ UNCHANGED <<trail, console, killed, begun>>

(* ReadArrives, whichever read it is.                                      *)
LEMMA ArrivalStep ==
    ASSUME Shape, ReadArrives
    PROVE  \E read : Arrived(read)
<1>1. PICK reading \in Arriving :
        LET read == Having(reading, "seq", Len(db.reads) + 1) IN
        /\ db' = [db EXCEPT !.reads = Append(@, read)]
        /\ commits' = Append(commits, [table |-> "reads", by |-> 0, row |-> read])
  BY DEF ReadArrives
<1> DEFINE read == Having(reading, "seq", Len(db.reads) + 1)
<1> HIDE DEF read
<1>2. db' = [db EXCEPT !.reads = Append(@, read)]
  BY <1>1 DEF read
<1>3. commits' = Append(commits, [table |-> "reads", by |-> 0, row |-> read])
  BY <1>1 DEF read
<1>4. DOMAIN db = Tables /\ "reads" \in Tables
  BY DEF Shape, Tables
<1>5. Arrived(read)
  BY <1>2, <1>3, <1>4 DEF Arrived, ReadArrives
<1> QED
  BY <1>5

(* A step is one of these.                                                 *)
Done(o) ==
    \/ \E command \in Commands : Typed(o, command)
    \/ Look(o)
    \/ GiveUp(o)
    \/ Conflict(o)
    \/ Kill(o)
    \/ Audited(o)
    \/ Writing(o)

(* Every step of the race is one of these.                                 *)
LEMMA Steps ==
    ASSUME Shape, Next
    PROVE  (\E o \in Operators : Done(o)) \/ ReadArrives
<1>1. ASSUME NEW o \in Operators, Writing(o)
      PROVE  Done(o)
  BY <1>1 DEF Done
<1>2. ASSUME NEW o \in Operators, Begin(o)
      PROVE  Done(o)
  BY <1>2, BeginStep DEF Done
<1>3. ASSUME NEW o \in Operators, Audit(o)
      PROVE  Done(o)
  BY <1>3, AuditStep DEF Done
<1>4. ASSUME NEW o \in Operators, Look(o) \/ GiveUp(o) \/ Conflict(o) \/ Kill(o)
      PROVE  Done(o)
  BY <1>4 DEF Done
<1>5. ASSUME NEW o \in Operators,
             \/ Begin(o) \/ Look(o) \/ GiveUp(o) \/ Audit(o) \/ Kill(o)
             \/ RecordSession(o) \/ ImportChips(o) \/ SetMode(o) \/ SetPolicy(o) \/ SetFloor(o)
             \/ ImportRoster(o) \/ AddCheckpoint(o) \/ MapReader(o) \/ AddManual(o) \/ Declare(o)
             \/ CreateRace(o) \/ AddReader(o)
             \/ Publish(o) \/ Conflict(o)
      PROVE  Done(o)
  <2>1. Begin(o) \/ Audit(o) \/ Writing(o) \/ (Look(o) \/ GiveUp(o) \/ Conflict(o) \/ Kill(o))
    BY <1>5 DEF Writing
  <2> QED
    BY <1>1, <1>2, <1>3, <1>4, <2>1
<1> QED
  BY <1>5 DEF Next

(* What is stored is where it is, whoever wrote it.                        *)
Stands ==
    /\ DOMAIN db' = Tables
    /\ \A t \in Journals : Listing(db'[t])
    /\ Listing(trail') /\ Listing(commits')

(* What is enough for the shape to be kept, of a step at one console.      *)
LEMMA ShapeKept ==
    ASSUME Shape, NEW o \in Operators, Alone(o), Stands,
           begun' \in Nat, begun <= begun', killed' \subseteq 1..begun',
           Busy(o)' => IsCommand(console'[o]) /\ console'[o].id \in (1..begun') \ killed',
           \A p \in Operators : p # o /\ Busy(p) =>
               /\ console[p].id \notin killed'
               /\ Busy(o)' => console[p].id # console'[o].id
    PROVE  Shape'
<1>1. \A p \in Operators : p # o => console'[p] = console[p] /\ (Busy(p)' <=> Busy(p))
  BY DEF Alone, Busy
<1>2. \A p \in Operators : Busy(p)' =>
         IsCommand(console'[p]) /\ console'[p].id \in (1..begun') \ killed'
  <2>1. ASSUME NEW p \in Operators, p # o, Busy(p)
        PROVE  IsCommand(console[p]) /\ console[p].id \in (1..begun') \ killed'
    <3>1. IsCommand(console[p]) /\ console[p].id \in 1..begun /\ begun \in Nat
      BY <2>1 DEF Shape
    <3>2. console[p].id \in 1..begun'
      BY <3>1
    <3> QED
      BY <2>1, <3>1, <3>2
  <2> QED
    BY <1>1, <2>1
<1>3. \A p, r \in Operators : Busy(p)' /\ Busy(r)' /\ console'[p].id = console'[r].id => p = r
  <2>1. \A p, r \in Operators : Busy(p) /\ Busy(r) /\ console[p].id = console[r].id => p = r
    BY DEF Shape
  <2> QED
    BY <1>1, <2>1
<1> QED
  BY <1>2, <1>3 DEF Shape, Alone, Stands, IsCommand, Busy

(* What is stored is not touched.                                          *)
LEMMA Standing ==
    ASSUME Shape, UNCHANGED <<db, commits>>, Listing(trail')
    PROVE  Stands
  BY DEF Shape, Stands

(* One row is added to one table.                                          *)
LEMMA StandingOn ==
    ASSUME Shape, NEW table \in Tables, NEW row, DOMAIN db' = Tables,
           table \in Journals => db'[table] = Append(db[table], row),
           \A t \in Tables : t # table => db'[t] = db[t],
           NEW commit, commits' = Append(commits, commit), trail' = trail
    PROVE  Stands
<1>1. Listing(commits')
  BY Appended DEF Shape
<1>2. ASSUME NEW t \in Journals
      PROVE  Listing(db'[t])
  <2>1. t \in Tables /\ Listing(db[t])
    BY DEF Journals, Tables, Shape
  <2>2. CASE t = table
    <3>1. Listing(Append(db[t], row))
      BY <2>1, Appended
    <3>2. db'[t] = Append(db[t], row)
      BY <2>2
    <3> QED
      BY <3>1, <3>2
  <2>3. CASE t # table
    BY <2>1, <2>3
  <2> QED
    BY <2>2, <2>3
<1> QED
  BY <1>1, <1>2 DEF Stands, Shape

(* The shape is kept by every step.                                        *)
LEMMA ShapeHolds == ASSUME Shape, [Next]_vars PROVE Shape'
<1>1. CASE UNCHANGED vars
  BY <1>1 DEF vars, Shape, Busy, IsCommand
<1>2. CASE ReadArrives
  <2>1. PICK read : Arrived(read)
    BY <1>2, ArrivalStep
  <2>2. "reads" \in Tables
    BY DEF Tables
  <2>3. Stands
    BY <2>1, <2>2, StandingOn DEF Arrived
  <2> QED
    BY <2>1, <2>3 DEF Shape, Stands, Arrived, Busy, IsCommand
<1>3. ASSUME NEW o \in Operators, Done(o)
      PROVE  Shape'
  <2>1. /\ begun \in Nat /\ killed \subseteq 1..begun /\ Listing(trail)
        /\ \A p \in Operators : Busy(p) => console[p].id \in 1..begun /\ console[p].id \notin killed
        /\ \A p \in Operators : Busy(p) => IsCommand(console[p])
        /\ \A p, r \in Operators : Busy(p) /\ Busy(r) /\ console[p].id = console[r].id => p = r
    BY DEF Shape
  <2>2. CASE \E command \in Commands : Typed(o, command)
    <3>1. PICK command \in Commands : Typed(o, command)
      BY <2>2
    <3>2. console'[o].id = begun + 1 /\ IsCommand(console'[o]) /\ begun' = begun + 1 /\ killed' = killed
            /\ Alone(o) /\ UNCHANGED <<db, commits, trail>>
      <4>1. Fresh(command).id = begun + 1
        BY DEF Fresh
      <4> QED
        BY <3>1, <4>1, Zenon DEF Typed
    <3>3. /\ begun' \in Nat /\ begun <= begun' /\ killed \subseteq 1..begun'
          /\ begun + 1 \in (1..begun') \ killed
      BY <2>1, <3>2
    <3>4. \A p \in Operators : Busy(p) => console[p].id # begun + 1
      BY <2>1
    <3>5. Stands
      BY <2>1, <3>2, Standing
    <3> QED
      BY <2>1, <3>2, <3>3, <3>4, <3>5, ShapeKept
  <2>3. ASSUME Busy(o), Alone(o), Stands, UNCHANGED <<begun, killed>>,
               Further(console[o], console'[o])
        PROVE  Shape'
    <3>1. IsCommand(console'[o]) /\ console'[o].id = console[o].id
      BY <2>3 DEF Further
    <3>2. /\ begun' \in Nat /\ begun <= begun' /\ killed' \subseteq 1..begun'
          /\ console'[o].id \in (1..begun') \ killed'
      BY <2>1, <2>3, <3>1
    <3> QED
      BY <2>1, <2>3, <3>1, <3>2, ShapeKept
  <2>4. ASSUME Busy(o), ~Busy(o)', Alone(o), Stands, begun' = begun,
               killed' \subseteq killed \cup {console[o].id}
        PROVE  Shape'
    <3>1. begun' \in Nat /\ begun <= begun' /\ killed' \subseteq 1..begun'
      BY <2>1, <2>4
    <3>2. \A p \in Operators : p # o /\ Busy(p) => console[p].id \notin killed'
      BY <2>1, <2>4
    <3> QED
      BY <2>4, <3>1, <3>2, ShapeKept
  <2>5. CASE Look(o)
    <3>1. /\ Busy(o) /\ Alone(o) /\ Further(console[o], console'[o])
          /\ UNCHANGED <<db, trail, commits, killed, begun>>
      BY <2>5, LookStep
    <3> QED
      BY <2>1, <2>3, <3>1, Standing
  <2>6. CASE GiveUp(o) \/ Conflict(o) \/ Kill(o)
    <3>1. Ended(o) /\ killed' \subseteq killed \cup {console[o].id}
      BY <2>6, GiveUpStep, ConflictStep, KillStep
    <3> QED
      BY <2>1, <2>4, <3>1, Standing DEF Ended
  <2>7. CASE Audited(o)
    <3>1. Listing(trail')
      BY <2>1, <2>7, Appended DEF Audited
    <3> QED
      BY <2>1, <2>4, <2>7, <3>1, Standing DEF Audited
  <2>8. CASE Writing(o)
    <3>1. PICK row : Wrote(o, TableOf(Due(o)), row)
      BY <2>8, WritingIs
    <3> DEFINE table == TableOf(Due(o))
    <3> HIDE DEF table
    <3>2. Wrote(o, table, row)
      BY <3>1 DEF table
    <3>3. Stands
      BY <3>2, StandingOn DEF Wrote
    <3> QED
      BY <2>3, <3>2, <3>3 DEF Wrote
  <2> QED
    BY <1>3, <2>2, <2>5, <2>6, <2>7, <2>8 DEF Done
<1> QED
  BY <1>1, <1>2, <1>3, Steps

(* The shape is there at first.                                            *)
LEMMA ShapeAtFirst == ASSUME Init, Listing(Stored.reads) PROVE Shape
<1>1. /\ trail = <<>> /\ commits = <<>> /\ killed = {} /\ begun = 0
      /\ console = [o \in Operators |-> Idle]
      /\ DOMAIN db = Tables
      /\ \A t \in Journals : db[t] \in {<<>>, Stored.reads}
  BY DEF Init, Tables, Journals
<1>2. \A o \in Operators : ~Busy(o)
  BY <1>1 DEF Busy
<1>3. Listing(<<>>)
  BY DEF Listing
<1>4. \A t \in Journals : Listing(db[t])
  BY <1>1, <1>3
<1> QED
  BY <1>1, <1>2, <1>3, <1>4 DEF Shape

-----------------------------------------------------------------------------
(* What publish read, and when.                                            *)

(* Only one action writes a statement that matters below.                  *)
LEMMA OnlyBy ==
    ASSUME NEW o, Writing(o)
    PROVE  /\ Due(o) = "publish" => Publish(o)
           /\ Due(o) = "import chips" => ImportChips(o)
           /\ Due(o) = "set policy" => SetPolicy(o)
           /\ Due(o) = "set floor" => SetFloor(o)
           /\ Due(o) = "import roster" => ImportRoster(o)
           /\ Due(o) = "add checkpoint" => AddCheckpoint(o)
  BY DEF Writing, RecordSession, ImportChips, SetMode, SetPolicy, SetFloor, ImportRoster,
         AddCheckpoint, MapReader, AddManual, Declare, CreateRace, AddReader, Publish

(* Only one statement writes a table that matters below.                   *)
LEMMA WrittenBy ==
    \A s \in Writes :
        /\ TableOf(s) = "revisions" => s = "publish"
        /\ TableOf(s) = "chips" => s = "import chips"
        /\ TableOf(s) = "policy" => s = "set policy"
        /\ TableOf(s) = "floor" => s = "set floor"
        /\ TableOf(s) = "roster" => s = "import roster"
        /\ TableOf(s) = "course" => s = "add checkpoint"
<1>1. /\ TableOf("create race") = "races" /\ TableOf("add reader") = "readers"
      /\ TableOf("start") = "sessions" /\ TableOf("stop") = "sessions"
      /\ TableOf("import roster") = "roster" /\ TableOf("add checkpoint") = "course"
      /\ TableOf("map reader") = "antennas" /\ TableOf("import chips") = "chips"
      /\ TableOf("set mode") = "mode" /\ TableOf("set policy") = "policy"
      /\ TableOf("set floor") = "floor" /\ TableOf("manual add") = "manual"
      /\ TableOf("declare") = "declared" /\ TableOf("publish") = "revisions"
  BY DEF TableOf
<1>2. ASSUME NEW s \in Writes
      PROVE  s \in {"create race", "add reader", "start", "stop", "import roster",
                    "add checkpoint", "map reader", "import chips", "set mode", "set policy",
                    "set floor", "manual add", "declare", "publish"}
  BY DEF Writes, Kinds
<1> QED
  BY <1>1, <1>2

(* Where in its script publish has a statement.                            *)
Place(s) ==
    CASE s = "races" -> 1 [] s = "course" -> 2 [] s = "roster" -> 3 [] s = "chips" -> 4
      [] s = "antennas" -> 5 [] s = "policy" -> 6 [] s = "mode" -> 7 [] s = "sessions" -> 8
      [] s = "reads" -> 9 [] s = "manual" -> 10 [] s = "declared" -> 11 [] s = "number" -> 12
      [] s = "latest" -> 13 [] s = "publish" -> 14 [] s = "audit" -> 15

(* Each statement of publish has one place.                                *)
LEMMA Placed ==
    ASSUME NEW q, IsPublishScript(q)
    PROVE  \A i \in 1..15 : Place(q[i]) = i
<1>1. /\ Place("races") = 1 /\ Place("course") = 2 /\ Place("roster") = 3
      /\ Place("chips") = 4 /\ Place("antennas") = 5 /\ Place("policy") = 6
      /\ Place("mode") = 7 /\ Place("sessions") = 8 /\ Place("reads") = 9
      /\ Place("manual") = 10 /\ Place("declared") = 11 /\ Place("number") = 12
      /\ Place("latest") = 13 /\ Place("publish") = 14 /\ Place("audit") = 15
  BY SMTT(60) DEF Place
<1>2. /\ Place(q[1]) = 1 /\ Place(q[2]) = 2 /\ Place(q[3]) = 3
      /\ Place(q[4]) = 4 /\ Place(q[5]) = 5 /\ Place(q[6]) = 6
      /\ Place(q[7]) = 7 /\ Place(q[8]) = 8 /\ Place(q[9]) = 9
      /\ Place(q[10]) = 10 /\ Place(q[11]) = 11 /\ Place(q[12]) = 12
      /\ Place(q[13]) = 13 /\ Place(q[14]) = 14 /\ Place(q[15]) = 15
  BY <1>1, ZenonT(60) DEF IsPublishScript
<1> QED
  BY <1>2, UpTo

(* What publish read later, it read in a later state.                      *)
ReadBefore(c, n) ==
    \A j \in 1..13 : j < c.step =>
        LET q == Script(c.command) IN
        /\ q[j] \in DOMAIN c.asOf
        /\ c.asOf[q[j]] \in Nat /\ c.asOf[q[j]] <= n
        /\ \A i \in 1..j : c.asOf[q[i]] <= c.asOf[q[j]]

(* No rule was read after any evidence.                                    *)
Knows(asOf) ==
    \A rule \in Rules, table \in Evidence :
        asOf[rule] \in Nat /\ asOf[table] \in Nat /\ asOf[rule] <= asOf[table]

(* Every publish that runs has read in order, and every revision was       *)
(* published by one that did. With the shape this is inductive;            *)
(* RulesMeetTheirEvidence, of stored revisions alone, is not.              *)
Orderly ==
    /\ \A o \in Operators : Busy(o) /\ console[o].command.is = "publish" =>
          ReadBefore(console[o], Len(commits))
    /\ \A i \in DOMAIN db["revisions"] : Knows(db["revisions"][i].asOf)

(* One more look, in a later state than every look before it.              *)
LEMMA ReadOn ==
    ASSUME NEW c, NEW k, IsCommand(c), c.command.is = "publish", Further(c, k), NEW n \in Nat,
           Script(c.command)[c.step] \in Looks,
           k.asOf = Having(c.asOf, Script(c.command)[c.step], n), ReadBefore(c, n)
    PROVE  ReadBefore(k, n)
<1> DEFINE q == Script(c.command)
           s == c.step
<1>1. IsPublishScript(q)
  BY Scripts, Fifteen DEF IsCommand
<1> HIDE DEF q
<1>2. \A i, j \in 1..15 : q[i] = q[j] => i = j
  BY <1>1, Placed
<1>3. s \in Nat /\ k.step = s + 1 /\ k.command = c.command
  BY DEF Further
<1>4. /\ k.asOf[q[s]] = n /\ DOMAIN k.asOf = DOMAIN c.asOf \cup {q[s]}
      /\ \A y \in DOMAIN c.asOf : y # q[s] => k.asOf[y] = c.asOf[y]
  BY SMTT(60), HavingIs DEF q
<1>5. Len(q) = 15 /\ s \in 1..15
  BY SMTT(60), <1>1 DEF IsPublishScript, IsCommand, q
<1> DEFINE a == c.asOf
           b == k.asOf
<1>6. \A j \in 1..13 : j < s =>
        /\ q[j] \in DOMAIN a /\ a[q[j]] \in Nat /\ a[q[j]] <= n
        /\ \A i \in 1..j : a[q[i]] <= a[q[j]]
  BY Zenon DEF ReadBefore, q
<1> HIDE DEF s, a, b
<1>7. \A j \in 1..13 : j < s => q[j] \in DOMAIN b /\ b[q[j]] = a[q[j]] /\ b[q[j]] \in Nat /\ b[q[j]] <= n
  <2>1. ASSUME NEW j \in 1..13, j < s
        PROVE  q[j] \in DOMAIN b /\ b[q[j]] = a[q[j]]
    <3>1. q[j] # q[s]
      BY <1>2, <1>5, <2>1
    <3>2. q[j] \in DOMAIN a
      BY <1>6, <2>1
    <3> QED
      BY <1>4, <3>1, <3>2 DEF a, b, s
  <2> QED
    BY <1>6, <2>1
<1>8. q[s] \in DOMAIN b /\ b[q[s]] = n
  BY <1>4 DEF b, s
<1>9. ASSUME NEW j \in 1..13, j < s + 1
      PROVE  /\ q[j] \in DOMAIN b /\ b[q[j]] \in Nat /\ b[q[j]] <= n
             /\ \A i \in 1..j : b[q[i]] <= b[q[j]]
  <2>1. CASE j = s
    <3>1. \A i \in 1..j : b[q[i]] <= n
      <4>1. ASSUME NEW i \in 1..j
            PROVE  b[q[i]] <= n
        <5>1. CASE i < s
          <6>1. i \in 1..13
            BY <5>1, <2>1
          <6> QED
            BY <5>1, <6>1, <1>7
        <5>2. CASE i = s
          BY <5>2, <1>8
        <5> QED
          BY <5>1, <5>2, <2>1, <1>3
      <4> QED
        BY <4>1
    <3> QED
      BY <1>8, <2>1, <3>1
  <2>2. CASE j < s
    <3>1. /\ q[j] \in DOMAIN b /\ b[q[j]] \in Nat /\ b[q[j]] <= n /\ b[q[j]] = a[q[j]]
          /\ \A i \in 1..j : a[q[i]] <= a[q[j]]
      BY <1>6, <1>7, <2>2
    <3>2. ASSUME NEW i \in 1..j
          PROVE  b[q[i]] <= b[q[j]]
      <4>1. i \in 1..13 /\ i < s
        BY <2>2, <1>3
      <4>2. b[q[i]] = a[q[i]]
        BY <4>1, <1>7
      <4> QED
        BY <3>1, <4>2
    <3> QED
      BY <3>1, <3>2
  <2> QED
    BY <1>3, <1>9, <2>1, <2>2
<1> QED
  BY ZenonT(60), <1>3, <1>9 DEF ReadBefore, q, b, s

(* When publish comes to write, it has read every rule before any          *)
(* evidence.                                                               *)
LEMMA KnowsEnough ==
    ASSUME NEW c, IsCommand(c), c.command.is = "publish", Script(c.command)[c.step] = "publish",
           NEW n, ReadBefore(c, n)
    PROVE  Knows(c.asOf)
<1> DEFINE q == Script(c.command)
<1>1. IsPublishScript(q)
  BY Scripts, Fifteen DEF IsCommand
<1> HIDE DEF q
<1>2. c.step = 14
  <2>1. c.step \in 1..15
    BY <1>1 DEF IsPublishScript, IsCommand, q
  <2>2. q[c.step] = "publish"
    BY SMTT(60) DEF q
  <2> QED
    <3>1. Place(q[c.step]) = c.step
      BY <1>1, <2>1, Placed
    <3>2. Place("publish") = 14
      BY DEF Place
    <3> QED
      BY <2>2, <3>1, <3>2
<1>3. \A j \in 1..13 : c.asOf[q[j]] \in Nat /\ \A i \in 1..j : c.asOf[q[i]] <= c.asOf[q[j]]
  BY SMTT(60), <1>2 DEF ReadBefore, q
<1>4. \A rule \in Rules : \E i \in 2..8 : q[i] = rule
  <2>1. 2 \in 2..8 /\ 3 \in 2..8 /\ 4 \in 2..8 /\ 5 \in 2..8 /\ 6 \in 2..8 /\ 7 \in 2..8 /\ 8 \in 2..8
    OBVIOUS
  <2> QED
    BY <1>1, <2>1, ZenonT(60) DEF IsPublishScript, Rules
<1>5. \A table \in Evidence : \E j \in 9..11 : q[j] = table
  <2>1. 9 \in 9..11 /\ 10 \in 9..11 /\ 11 \in 9..11
    OBVIOUS
  <2> QED
    BY <1>1, <2>1, Zenon DEF IsPublishScript, Evidence
<1>6. ASSUME NEW rule \in Rules, NEW table \in Evidence
      PROVE  c.asOf[rule] \in Nat /\ c.asOf[table] \in Nat /\ c.asOf[rule] <= c.asOf[table]
  <2>1. PICK i \in 2..8 : q[i] = rule
    BY <1>4
  <2>2. PICK j \in 9..11 : q[j] = table
    BY <1>5
  <2>3. i \in 1..13 /\ j \in 1..13 /\ i \in 1..j
    OBVIOUS
  <2>4. c.asOf[q[i]] \in Nat /\ c.asOf[q[j]] \in Nat /\ c.asOf[q[i]] <= c.asOf[q[j]]
    BY <1>3, <2>3
  <2> QED
    BY <2>1, <2>2, <2>4
<1> QED
  BY <1>6 DEF Knows

(* A command writes what it is for.                                        *)
LEMMA WhoWrites ==
    ASSUME NEW c, IsCommand(c), Script(c.command)[c.step] \in Writes
    PROVE  Script(c.command)[c.step] \in WritesOf(c.command)
<1> DEFINE q == Script(c.command)
           s == c.step
           n == Len(q)
<1>1. PICK w : Formed(c.command, q, w)
  BY ScriptsFormed DEF IsCommand
<1>2. s \in 1..n /\ q[s] \in Writes
  BY DEF IsCommand
<1>3. /\ n \in Nat /\ w \in 1..(n - 1) /\ q[n] = "audit" /\ q[w] \in WritesOf(c.command)
      /\ s < w => q[s] \in Looks
      /\ w < s /\ s < n => c.command.is = "policy" /\ q[s] \in {"policy", "set policy"}
  BY <1>1, <1>2 DEF Formed
<1> HIDE DEF q, s, n
<1>4. s # n /\ ~(s < w)
  BY <1>2, <1>3, Kind
<1>5. s = w \/ (w < s /\ s < n)
  <2>1. s \in 1..n /\ n \in Nat /\ w \in 1..(n - 1)
    BY <1>2, <1>3, Zenon
  <2> QED
    BY <1>4, <2>1
<1>6. q[s] \in WritesOf(c.command)
  <2>1. CASE s = w
    BY <1>3, <2>1
  <2>2. CASE w < s /\ s < n
    BY <1>2, <1>3, <2>2, Kind DEF WritesOf
  <2> QED
    BY <1>5, <2>1, <2>2
<1> QED
  BY <1>6 DEF q, s

(* Orderly is kept by every step.                                          *)
LEMMA OrderlyHolds == ASSUME Shape, Orderly, [Next]_vars PROVE Orderly'
<1>1. CASE UNCHANGED vars
  BY <1>1 DEF vars, Orderly, Busy
<1>2. Shape'
  BY ShapeHolds
<1>3. Len(commits) \in Nat
  BY DEF Shape, Listing
<1>4. ASSUME NEW c, NEW n \in Nat, n >= Len(commits), ReadBefore(c, Len(commits))
      PROVE  ReadBefore(c, n)
  <2>1. \A x \in Nat : x <= Len(commits) => x <= n
    BY <1>3, <1>4
  <2> QED
    BY <1>4, <2>1, Zenon DEF ReadBefore
<1>5. ASSUME NEW o \in Operators, Alone(o), db'["revisions"] = db["revisions"],
             Len(commits') \in Nat, Len(commits') >= Len(commits),
             Busy(o)' /\ console'[o].command.is = "publish" => ReadBefore(console'[o], Len(commits'))
      PROVE  Orderly'
  BY <1>4, <1>5 DEF Orderly, Alone, Busy
<1>6. CASE ReadArrives
  <2>1. PICK read : Arrived(read)
    BY <1>6, ArrivalStep
  <2>2. "revisions" \in Tables /\ "revisions" # "reads"
    BY DEF Tables
  <2>3. db'["revisions"] = db["revisions"] /\ console' = console
    BY <2>1, <2>2 DEF Arrived
  <2>4. Len(commits') = Len(commits) + 1
    BY <2>1, Appended DEF Arrived, Shape
  <2>5. Len(commits') \in Nat /\ Len(commits') >= Len(commits)
    BY <1>3, <2>4
  <2> QED
    BY <1>4, <2>3, <2>5 DEF Orderly, Busy
<1>7. ASSUME NEW o \in Operators, Done(o)
      PROVE  Orderly'
  <2>1. CASE \E command \in Commands : Typed(o, command)
    <3>1. PICK command \in Commands : Typed(o, command)
      BY <2>1
    <3>2. console'[o].step = 1 /\ UNCHANGED <<db, commits>> /\ Alone(o)
      <4>1. Fresh(command).step = 1
        BY DEF Fresh
      <4> QED
        BY <3>1, <4>1, Zenon DEF Typed
    <3>3. ReadBefore(console'[o], Len(commits'))
      BY <3>2 DEF ReadBefore
    <3> QED
      BY <1>3, <1>5, <3>2, <3>3
  <2>2. CASE Look(o)
    <3>1. /\ Busy(o) /\ Alone(o) /\ Further(console[o], console'[o]) /\ IsCommand(console[o])
          /\ Due(o) \in Looks /\ UNCHANGED <<db, commits>>
          /\ console'[o].asOf = Having(console[o].asOf, Due(o), Len(commits))
      BY <2>2, LookStep
    <3>2. console'[o].command.is = "publish" => ReadBefore(console'[o], Len(commits))
      BY <1>3, <3>1, ReadOn DEF Orderly, Further, Due
    <3> QED
      BY <1>3, <1>5, <3>1, <3>2
  <2>3. CASE GiveUp(o) \/ Conflict(o) \/ Kill(o)
    <3>1. Ended(o)
      BY <2>3, GiveUpStep, ConflictStep, KillStep
    <3> QED
      BY <1>3, <1>5, <3>1 DEF Ended
  <2>4. CASE Audited(o)
    BY <1>3, <1>5, <2>4 DEF Audited
  <2>5. CASE Writing(o)
    <3>1. PICK row : Wrote(o, TableOf(Due(o)), row)
      BY <2>5, WritingIs
    <3> DEFINE c == console[o]
               k == console'[o]
    <3>2. /\ Busy(o) /\ Alone(o) /\ Further(c, k) /\ IsCommand(c) /\ Due(o) \in Writes
          /\ k.asOf = c.asOf
      BY <3>1 DEF Wrote
    <3>3. Len(commits') = Len(commits) + 1
      BY SMTT(60), <3>1, Appended DEF Wrote, Shape
    <3>4. Len(commits') \in Nat /\ Len(commits') >= Len(commits)
      BY SMTT(60), <1>3, <3>3
    <3>5. k.command.is = "publish" => ReadBefore(k, Len(commits'))
      <4>1. SUFFICES ASSUME c.command.is = "publish"
                     PROVE  ReadBefore(k, Len(commits'))
        BY <3>2 DEF Further
      <4>2. ReadBefore(c, Len(commits'))
        BY <1>4, <3>2, <3>4, <4>1 DEF Orderly
      <4> DEFINE q == Script(c.command)
      <4>3. IsPublishScript(q)
        BY <3>2, <4>1, Scripts, Fifteen DEF IsCommand
      <4>4. c.step \in 1..15 /\ q[c.step] \in Writes
        BY <3>2, <4>3 DEF IsPublishScript, IsCommand, Due
      <4>5. c.step \notin 1..13
        <5>1. \A i \in 1..13 : q[i] \in Looks
          <6>1. /\ q[1] \in Looks /\ q[2] \in Looks /\ q[3] \in Looks /\ q[4] \in Looks
                /\ q[5] \in Looks /\ q[6] \in Looks /\ q[7] \in Looks /\ q[8] \in Looks
                /\ q[9] \in Looks /\ q[10] \in Looks /\ q[11] \in Looks /\ q[12] \in Looks
                /\ q[13] \in Looks
            BY <4>3, LooksAre, Zenon DEF IsPublishScript
          <6> HIDE DEF q
          <6> QED
            BY <6>1
        <5> QED
          BY <4>4, <5>1, Kind
      <4>6. \A j \in 1..13 : j < c.step
        BY <4>4, <4>5
      <4> QED
        BY Zenon, <3>2, <4>2, <4>6 DEF ReadBefore, Further
    <3>6. CASE Due(o) # "publish"
      <4>1. TableOf(Due(o)) # "revisions" /\ "revisions" \in Tables
        BY <3>2, <3>6, WrittenBy DEF Tables
      <4>2. db'["revisions"] = db["revisions"]
        BY <3>1, <4>1 DEF Wrote
      <4> QED
        BY <1>5, <3>2, <3>4, <3>5, <4>2
    <3>7. CASE Due(o) = "publish"
      <4>1. Publish(o)
        BY <2>5, <3>7, OnlyBy
      <4> DEFINE r == [number |-> c.seen.number, sheet |-> Sheet(c.seen),
                       allowUnchanged |-> c.command.allowUnchanged, asOf |-> c.asOf]
      <4>2. Commit(o, "revisions", r, Append(db["revisions"], r))
        BY <4>1 DEF Publish, Insert
      <4>3. r.asOf = c.asOf
        OBVIOUS
      <4> HIDE DEF r
      <4>4. "revisions" \in Tables /\ Due(o) # "audit"
        BY <3>7 DEF Tables
      <4>5. db'["revisions"] = Append(db["revisions"], r)
        <5> DEFINE stored == Append(db["revisions"], r)
        <5>1. Commit(o, "revisions", r, stored)
          BY <4>2
        <5> HIDE DEF stored
        <5>2. db'["revisions"] = stored
          BY <4>4, <5>1 DEF Commit, Shape
        <5> QED
          BY <5>2 DEF stored
      <4>6. c.command.is = "publish"
        BY <3>2, <3>7, WhoWrites DEF Due, WritesOf
      <4>7. Knows(r.asOf)
        BY <3>2, <3>7, <4>3, <4>6, KnowsEnough DEF Due, Orderly
      <4>8. \A i \in DOMAIN db'["revisions"] : Knows(db'["revisions"][i].asOf)
        <5> DEFINE a == db["revisions"]
                   b == db'["revisions"]
        <5>1. Listing(a) /\ \A i \in DOMAIN a : Knows(a[i].asOf)
          BY DEF Shape, Journals, Orderly
        <5>2. b = Append(a, r)
          BY <4>5
        <5> HIDE DEF a, b
        <5>3. /\ DOMAIN a = 1..Len(a) /\ DOMAIN b = 1..(Len(a) + 1) /\ Len(a) \in Nat
              /\ \A i \in 1..Len(a) : b[i] = a[i]
              /\ b[Len(a) + 1] = r
          BY <5>1, <5>2, Appended
        <5>4. \A i \in DOMAIN b : Knows(b[i].asOf)
          BY <4>7, <5>1, <5>3
        <5> QED
          BY <5>4 DEF b
      <4>9. \A p \in Operators : Busy(p)' /\ console'[p].command.is = "publish" =>
               ReadBefore(console'[p], Len(commits'))
        BY <1>4, <3>2, <3>4, <3>5 DEF Orderly, Alone, Busy
      <4> QED
        BY <4>8, <4>9 DEF Orderly
    <3> QED
      BY <3>6, <3>7
  <2> QED
    BY <1>7, <2>1, <2>2, <2>3, <2>4, <2>5 DEF Done
<1> QED
  BY <1>1, <1>6, <1>7, Steps

(* Orderly says what RulesMeetTheirEvidence does.                          *)
LEMMA OrderlyIsEnough == ASSUME Orderly PROVE RulesMeetTheirEvidence
<1>1. SUFFICES ASSUME NEW i \in DOMAIN db.revisions, NEW rule \in Rules, NEW table \in Evidence,
                      NEW k \in KnownOf(db.revisions[i], rule), NEW m \in 1..k,
                      commits[m].table = table
               PROVE  m \in KnownOf(db.revisions[i], table)
  BY DEF RulesMeetTheirEvidence
<1> DEFINE asOf == db.revisions[i].asOf
<1>2. asOf[rule] \in Nat /\ asOf[table] \in Nat /\ asOf[rule] <= asOf[table]
  BY DEF Orderly, Knows
<1>3. k \in 1..asOf[rule]
  BY DEF KnownOf
<1>4. m \in 1..asOf[table]
  BY <1>2, <1>3
<1> QED
  BY <1>1, <1>4 DEF KnownOf

(* Both hold at first.                                                     *)
LEMMA FirstShape == ASSUME Init PROVE Shape /\ Orderly
<1>1. Listing(Stored.reads)
  BY StoredReads DEF Listing
<1>2. Shape
  BY <1>1, ShapeAtFirst
<1>3. \A o \in Operators : ~Busy(o)
  BY DEF Init, Busy
<1>4. DOMAIN db["revisions"] = {}
  BY DEF Init
<1> QED
  BY <1>2, <1>3, <1>4 DEF Orderly

(* Publish (run_results) loads the configuration before it opens the       *)
(* journal, so no revision, however many commands run beside it, whatever  *)
(* they write between its statements and whichever of them are killed,     *)
(* applies a rule it read to less evidence than there was when it read the *)
(* rule. Nothing is assumed but what RaceDay does.                         *)
THEOREM RulesMeetEvidence == Spec => []RulesMeetTheirEvidence
<1>1. Init => Shape /\ Orderly
  BY FirstShape
<1>2. Shape /\ Orderly /\ [Next]_vars => (Shape /\ Orderly)'
  BY ShapeHolds, OrderlyHolds
<1>3. Shape /\ Orderly => RulesMeetTheirEvidence
  BY OrderlyIsEnough
<1> QED
  BY <1>1, <1>2, <1>3, PTL DEF Spec

(* The windows of a chip end after they begin.                             *)
Forward(w) ==
    /\ w.from \in Int
    /\ Some(w.until) => w.until \in Int /\ w.from < w.until

(* The next row of a chip, after one that has others behind it.            *)
LEMMA NextRow ==
    ASSUME NEW n \in Nat, NEW rows, DOMAIN rows = 1..n,
           \A i \in 1..n : Forward(rows[i]),
           NEW i \in 1..n, NEW j \in 1..n, BeginsBefore(rows, i, j)
    PROVE  \E k \in 1..n : Neighbours(rows, i, k) /\ rows[k].from <= rows[j].from
<1> DEFINE After == {k \in 1..n : BeginsBefore(rows, i, k)}
           begins(k) == rows[k].from - rows[i].from
           B == {begins(k) : k \in After}
<1>1. \A k \in 1..n : rows[k].from \in Int
  BY DEF Forward
<1>2. B \in SUBSET Nat /\ B # {}
  <2>1. ASSUME NEW k \in After
        PROVE  begins(k) \in Nat
    BY <1>1 DEF BeginsBefore
  <2>2. j \in After
    OBVIOUS
  <2> QED
    BY <2>1, <2>2
<1>3. PICK b \in B : \A y \in B : b <= y
  BY <1>2, LeastOf
<1> DEFINE First == {k \in After : begins(k) = b}
<1>4. First \in SUBSET Nat /\ First # {}
  BY <1>3
<1>5. PICK k \in First : \A y \in First : k <= y
  BY <1>4, LeastOf
<1>6. k \in 1..n /\ BeginsBefore(rows, i, k) /\ begins(k) = b
  BY <1>5
<1>7. ~\E m \in DOMAIN rows : BeginsBefore(rows, i, m) /\ BeginsBefore(rows, m, k)
  <2>1. SUFFICES ASSUME NEW m \in 1..n, BeginsBefore(rows, i, m), BeginsBefore(rows, m, k)
                 PROVE  FALSE
    OBVIOUS
  <2>2. m \in After /\ begins(m) \in B
    BY <2>1
  <2>3. b <= begins(m)
    BY <1>3, <2>2
  <2>4. rows[m].from \in Int /\ rows[k].from \in Int /\ rows[i].from \in Int
    BY <1>1, <1>6
  <2>5. rows[m].from = rows[k].from /\ m < k
    BY <1>6, <2>1, <2>3, <2>4 DEF BeginsBefore
  <2>6. m \in First
    BY <1>6, <2>2, <2>5
  <2>7. k <= m
    BY <1>5, <2>6
  <2> QED
    BY <1>6, <2>5, <2>7
<1>8. begins(j) \in B
  OBVIOUS
<1>9. b <= begins(j)
  BY <1>3, <1>8
<1>10. rows[k].from <= rows[j].from
  BY <1>1, <1>6, <1>9
<1> QED
  BY <1>6, <1>7, <1>10 DEF Neighbours

(* from_assignments compares neighbours only: where every window ends      *)
(* after it begins, that is enough to keep any two windows of a chip       *)
(* apart.                                                                  *)
LEMMA RegistryKeepsApart ==
    ASSUME NEW n \in Nat, NEW rows, DOMAIN rows = 1..n, Registry(rows),
           \A i \in 1..n : Forward(rows[i]),
           NEW i \in 1..n, NEW j \in 1..n, i # j, rows[i].chip = rows[j].chip
    PROVE  ~Overlaps(rows[i], rows[j])
<1>1. ASSUME NEW x \in 1..n, NEW y \in 1..n, BeginsBefore(rows, x, y)
      PROVE  ~Overlaps(rows[x], rows[y])
  <2>1. PICK k \in 1..n : Neighbours(rows, x, k) /\ rows[k].from <= rows[y].from
    BY <1>1, NextRow
  <2>2. ~Overlaps(rows[x], rows[k])
    BY <2>1 DEF Registry
  <2>3. Forward(rows[x]) /\ Forward(rows[k]) /\ Forward(rows[y])
    OBVIOUS
  <2>4. rows[x].from <= rows[k].from
    BY <2>1, <2>3 DEF Neighbours, BeginsBefore, Forward
  <2>5. Some(rows[x].until) /\ rows[x].until <= rows[k].from
    BY <2>2, <2>3, <2>4 DEF Overlaps, Forward
  <2> QED
    BY <2>1, <2>3, <2>5 DEF Overlaps, Forward
<1>2. rows[i].from \in Int /\ rows[j].from \in Int
  BY DEF Forward
<1>3. BeginsBefore(rows, i, j) \/ BeginsBefore(rows, j, i)
  BY <1>2 DEF BeginsBefore
<1>4. Overlaps(rows[i], rows[j]) => Overlaps(rows[j], rows[i])
  BY DEF Overlaps
<1> QED
  BY <1>1, <1>3, <1>4

-----------------------------------------------------------------------------
(* Chips.                                                                  *)

(* SetToSeq puts every element of a finite set somewhere.                  *)
LEMMA Sequenced ==
    ASSUME NEW S, IsFiniteSet(S)
    PROVE  /\ Cardinality(S) \in Nat
           /\ SetToSeq(S) \in [1..Cardinality(S) -> S]
           /\ \A x \in S : \E i \in 1..Cardinality(S) : SetToSeq(S)[i] = x
<1> DEFINE n == Cardinality(S)
<1>1. n \in Nat /\ ExistsBijection(1..n, S)
  BY FS_CardinalityType
<1>2. PICK g : g \in Bijection(1..n, S)
  BY <1>1 DEF ExistsBijection
<1>3. g \in [1..n -> S] /\ IsInjective(g)
  BY <1>2 DEF Bijection, Injection
<1>4. SetToSeq(S) \in [1..n -> S] /\ IsInjective(SetToSeq(S))
  BY <1>3 DEF SetToSeq
<1> DEFINE f == SetToSeq(S)
<1> HIDE DEF f
<1>5. f \in Injection(1..n, S)
  BY <1>4 DEF f, Injection
<1>6. IsFiniteSet(1..n) /\ Cardinality(1..n) = n
  BY <1>1, FS_Interval
<1>7. f \in Surjection(1..n, S)
  BY <1>5, <1>6, FS_Injection
<1> QED
  BY <1>1, <1>4, <1>7 DEF f, Surjection

(* The rows of a file after those that are stored.                         *)
HoldsThem(rows, S, file) ==
    \E n \in Nat :
        /\ DOMAIN rows = 1..n
        /\ \A i \in 1..n : rows[i] \in S \cup Range(file)
        /\ \A x \in S \cup Range(file) : \E i \in 1..n : rows[i] = x

(* A file after what is stored.                                            *)
LEMMA RowsOfBoth ==
    ASSUME NEW S, IsFiniteSet(S), NEW file, Listing(file),
           NEW rows, rows = SetToSeq(S) \o file
    PROVE  HoldsThem(rows, S, file)
<1> DEFINE T == S \cup Range(file)
           f == SetToSeq(S)
           a == Cardinality(S)
           b == Len(file)
<1>1. a \in Nat /\ f \in [1..a -> S] /\ \A x \in S : \E i \in 1..a : f[i] = x
  BY Sequenced
<1>2. file \in Seq(Range(file)) /\ b \in Nat /\ DOMAIN file = 1..b
  BY DEF Listing
<1>0. rows = f \o file
  OBVIOUS
<1> HIDE DEF f, a
<1>3. f \in Seq(T) /\ Len(f) = a
  <2>1. f \in [1..a -> T]
    BY <1>1
  <2> QED
    BY <1>1, <2>1, SeqDef, LenProperties
<1>4. file \in Seq(T)
  BY <1>2
<1>5. /\ rows \in Seq(T) /\ Len(rows) = a + b
      /\ \A i \in 1..(a + b) : rows[i] = IF i <= a THEN f[i] ELSE file[i - a]
  BY <1>0, <1>3, <1>4, ConcatProperties
<1> HIDE DEF b
<1>6. a + b \in Nat /\ DOMAIN rows = 1..(a + b) /\ \A i \in 1..(a + b) : rows[i] \in T
  BY <1>1, <1>2, <1>5
<1>7. ASSUME NEW x \in T
      PROVE  \E i \in 1..(a + b) : rows[i] = x
  <2>1. CASE x \in S
    <3>1. PICK i \in 1..a : f[i] = x
      BY <1>1, <2>1
    <3>2. i \in 1..(a + b) /\ i <= a
      BY <1>1, <1>2
    <3> QED
      BY <1>5, <3>1, <3>2
  <2>2. CASE x \in Range(file)
    <3>1. PICK j \in 1..b : file[j] = x
      BY <1>2, <2>2 DEF Range
    <3>2. j + a \in 1..(a + b) /\ ~(j + a <= a) /\ (j + a) - a = j
      BY <1>1, <1>2
    <3> QED
      BY <1>5, <3>1, <3>2
  <2> QED
    BY <2>1, <2>2
<1> QED
  BY <1>6, <1>7 DEF HoldsThem

(* An import that was checked leaves every chip on one runner.             *)
LEMMA ImportKeepsApart ==
    ASSUME NEW chips, IsFiniteSet(chips), NEW file, Listing(file),
           \A w \in chips \cup Range(file) : Forward(w),
           ~Overlapping(chips, file),
           NEW v \in Import(chips, file), NEW w \in Import(chips, file),
           v.chip = w.chip, v # w
    PROVE  ~Overlaps(v, w)
<1> DEFINE rows == SetToSeq(chips) \o file
<1>2. Registry(rows) /\ rows = SetToSeq(chips) \o file
  BY DEF Overlapping
<1> HIDE DEF rows
<1>1. PICK n \in Nat :
        /\ DOMAIN rows = 1..n
        /\ \A i \in 1..n : rows[i] \in chips \cup Range(file)
        /\ \A x \in chips \cup Range(file) : \E i \in 1..n : rows[i] = x
  <2>1. HoldsThem(rows, chips, file)
    BY <1>2, RowsOfBoth
  <2> QED
    BY <2>1 DEF HoldsThem
<1>3. v \in chips \cup Range(file) /\ w \in chips \cup Range(file)
  BY DEF Import
<1>4. PICK i \in 1..n : rows[i] = v
  BY <1>1, <1>3
<1>5. PICK j \in 1..n : rows[j] = w
  BY <1>1, <1>3
<1>6. \A x \in 1..n : Forward(rows[x])
  BY <1>1
<1> QED
  BY <1>1, <1>2, <1>4, <1>5, <1>6, RegistryKeepsApart

(* What an import leaves is what was stored or is in the file.             *)
LEMMA ImportIs ==
    ASSUME NEW chips, IsFiniteSet(chips), NEW file, Listing(file)
    PROVE  IsFiniteSet(Import(chips, file)) /\ Import(chips, file) \subseteq chips \cup Range(file)
<1>1. Import(chips, file) \subseteq chips \cup Range(file)
  BY DEF Import
<1>2. IsFiniteSet(Range(file))
  <2>1. file \in Seq(Range(file)) /\ Len(file) \in Nat /\ DOMAIN file = 1..Len(file)
    BY DEF Listing
  <2>2. IsFiniteSet(1..Len(file))
    BY <2>1, FS_Interval
  <2>3. file \in Surjection(1..Len(file), Range(file))
    BY <2>1 DEF Surjection, Range
  <2> QED
    BY <2>2, <2>3, FS_Surjection
<1> QED
  BY <1>1, <1>2, FS_Union, FS_Subset

(* An import is written when the chips have been looked at.                *)
LEMMA ChipsScript ==
    ASSUME NEW c, IsCommand(c), c.command.is = "import chips"
    PROVE  LET q == Script(c.command) IN
           /\ q[c.step] \in Looks /\ q[c.step + 1] = "import chips" => q[c.step] = "chips"
           /\ q[c.step] = "import chips" => q[c.step + 1] = "audit"
<1> DEFINE q == Script(c.command)
           s == c.step
<1>1. q = <<"races", "roster", "chips", "import chips", "audit">> /\ s \in 1..Len(q)
  BY Scripts DEF IsCommand
<1> HIDE DEF q, s
<1>2. /\ Len(q) = 5 /\ q[1] = "races" /\ q[2] = "roster" /\ q[3] = "chips"
      /\ q[4] = "import chips" /\ q[5] = "audit"
  BY <1>1, Five
<1>3. s \in 1..5
  BY <1>1, <1>2, Zenon
<1>4. s = 1 \/ s = 2 \/ s = 3 \/ s = 4 \/ s = 5
  BY <1>3, UpTo, Zenon
<1>5. 1 + 1 = 2 /\ 2 + 1 = 3 /\ 3 + 1 = 4 /\ 4 + 1 = 5
  BY Sums, Zenon
<1>6. "import chips" \notin Looks /\ "audit" \notin Looks
  BY LooksAre
<1>7. q[s] \in Looks /\ q[s + 1] = "import chips" => q[s] = "chips"
  <2>1. "roster" # "import chips" /\ "chips" # "import chips"
    OBVIOUS
  <2> QED
    BY <1>2, <1>4, <1>5, <1>6, <2>1, Zenon
<1>8. q[s] = "import chips" => q[s + 1] = "audit"
  <2>1. "races" # "import chips" /\ "roster" # "import chips" /\ "chips" # "import chips"
           /\ "audit" # "import chips"
    OBVIOUS
  <2> QED
    BY <1>2, <1>4, <1>5, <2>1, Zenon
<1> QED
  BY <1>7, <1>8 DEF q, s

(* Windows that end after they begin, in what is stored and in every file. *)
ForwardWindows ==
    /\ IsFiniteSet(Stored.chips)
    /\ \A w \in Stored.chips : Forward(w)
    /\ \A command \in Commands : command.is = "import chips" =>
          Listing(command.file) /\ \A w \in Range(command.file) : Forward(w)

(* No chip is two runners' at once.                                        *)
Apart(chips) == \A v, w \in chips : v.chip = w.chip /\ v # w => ~Overlaps(v, w)

(* A console that imports chips.                                           *)
Importing(o) == Busy(o) /\ console[o].command.is = "import chips"

(* Chips are apart, one import runs at most, and one that is about to      *)
(* write has checked what is stored now: nobody else could have changed it *)
(* since.                                                                  *)
ChipsApart ==
    /\ IsFiniteSet(db["chips"]) /\ Apart(db["chips"])
    /\ \A w \in db["chips"] : Forward(w)
    /\ \A o, p \in Operators : Importing(o) /\ Importing(p) => o = p
    /\ \A o \in Operators : Importing(o) /\ Due(o) = "import chips" =>
          ~Overlapping(db["chips"], console[o].command.file)

(* ChipsApart is kept by every step.                                       *)
LEMMA ChipsHold ==
    ASSUME ImportsAlone, ForwardWindows, Shape, ChipsApart, [Next]_vars
    PROVE  ChipsApart'
<1>1. CASE UNCHANGED vars
  BY <1>1 DEF vars, ChipsApart, Importing, Busy, Due
<1>2. ASSUME NEW o \in Operators, Alone(o), db'["chips"] = db["chips"],
             Importing(o)' =>
                 /\ \A p \in Operators : Importing(p) => p = o
                 /\ Due(o)' = "import chips" =>
                       ~Overlapping(db["chips"], console'[o].command.file)
      PROVE  ChipsApart'
  <2>1. \A p \in Operators : p # o =>
          /\ Importing(p)' <=> Importing(p)
          /\ Due(p)' = Due(p) /\ console'[p] = console[p]
    BY <1>2 DEF Alone, Importing, Busy, Due
  <2>2. \A p, r \in Operators : Importing(p)' /\ Importing(r)' => p = r
    BY <1>2, <2>1 DEF ChipsApart
  <2>3. \A p \in Operators : Importing(p)' /\ Due(p)' = "import chips" =>
          ~Overlapping(db["chips"], console'[p].command.file)
    BY <1>2, <2>1 DEF ChipsApart
  <2> QED
    BY <1>2, <2>2, <2>3 DEF ChipsApart
<1>3. CASE ReadArrives
  <2>1. PICK read : Arrived(read)
    BY <1>3, ArrivalStep
  <2>2. "chips" \in Tables /\ "chips" # "reads"
    BY DEF Tables
  <2>3. db'["chips"] = db["chips"] /\ console' = console
    BY <2>1, <2>2 DEF Arrived
  <2> QED
    BY <2>3 DEF ChipsApart, Importing, Busy, Due
<1>4. ASSUME NEW o \in Operators, Done(o)
      PROVE  ChipsApart'
  <2>1. CASE \E command \in Commands : Typed(o, command)
    <3>1. PICK command \in Commands : Typed(o, command)
      BY <2>1
    <3>2. console'[o].command = command /\ console'[o].step = 1 /\ UNCHANGED db /\ Alone(o)
      <4>1. Fresh(command).step = 1 /\ Fresh(command).command = command
        BY DEF Fresh
      <4> QED
        BY <3>1, <4>1, Zenon DEF Typed
    <3>3. command.is = "import chips" =>
            \A p \in Operators : Busy(p) => console[p].command.is # "import chips"
      BY <3>1 DEF Typed
    <3>4. command.is = "import chips" => Due(o)' # "import chips"
      <4>1. command.is = "import chips" => Script(command)[1] = "races"
        <5>1. <<"races", "roster", "chips", "import chips", "audit">>[1] = "races"
          OBVIOUS
        <5> QED
          BY <5>1, Scripts
      <4> QED
        BY <3>2, <4>1 DEF Due
    <3> QED
      BY <1>2, <3>2, <3>3, <3>4 DEF Importing
  <2>2. CASE Look(o)
    <3> DEFINE c == console[o]
               k == console'[o]
    <3>1. /\ Busy(o) /\ Alone(o) /\ Further(c, k) /\ IsCommand(c)
          /\ Due(o) \in Looks /\ UNCHANGED <<db, commits>>
          /\ \E found \in Findings(Due(o)) : ~GivesUp(c.command, Due(o), found, c.seen)
      BY <2>2, LookStep
    <3>2. k.command = c.command /\ k.step = c.step + 1
      BY <3>1 DEF Further
    <3>3. ASSUME Importing(o)', Due(o)' = "import chips"
          PROVE  ~Overlapping(db["chips"], k.command.file)
      <4>1. c.command.is = "import chips"
        BY <3>2, <3>3 DEF Importing
      <4>2. Due(o) = "chips"
        BY <3>1, <3>2, <3>3, <4>1, ChipsScript DEF Due
      <4>3. Findings("chips") = {db["chips"]}
        BY DEF Findings, Query
      <4>4. ~GivesUp(c.command, "chips", db["chips"], c.seen)
        BY <3>1, <4>2, <4>3
      <4>5. ~Overlapping(db["chips"], c.command.file)
        BY <4>1, <4>4 DEF GivesUp
      <4> QED
        BY <3>2, <4>5
    <3>4. Importing(o)' => \A p \in Operators : Importing(p) => p = o
      BY <3>1, <3>2 DEF Importing, ChipsApart
    <3> QED
      BY <1>2, <3>1, <3>3, <3>4
  <2>3. CASE GiveUp(o) \/ Conflict(o) \/ Kill(o)
    <3>1. Ended(o)
      BY <2>3, GiveUpStep, ConflictStep, KillStep
    <3> QED
      BY <1>2, <3>1 DEF Ended, Importing
  <2>4. CASE Audited(o)
    BY <1>2, <2>4 DEF Audited, Importing
  <2>5. CASE Writing(o)
    <3> DEFINE c == console[o]
               k == console'[o]
    <3>1. PICK row : Wrote(o, TableOf(Due(o)), row)
      BY <2>5, WritingIs
    <3>2. Busy(o) /\ Alone(o) /\ Further(c, k) /\ IsCommand(c) /\ Due(o) \in Writes
      BY <3>1 DEF Wrote
    <3>3. k.command = c.command /\ k.step = c.step + 1
      BY <3>2 DEF Further
    <3>4. Importing(o)' => Importing(o) /\ Due(o) = "import chips" /\ Due(o)' = "audit"
      <4>1. SUFFICES ASSUME c.command.is = "import chips"
                     PROVE  Due(o) = "import chips" /\ Due(o)' = "audit"
        BY <3>2, <3>3 DEF Importing
      <4>2. Due(o) = "import chips"
        BY <3>2, <4>1, WhoWrites DEF Due, WritesOf
      <4> QED
        BY <3>2, <3>3, <4>1, <4>2, ChipsScript DEF Due
    <3>5. Importing(o)' => \A p \in Operators : Importing(p) => p = o
      BY <3>4 DEF ChipsApart
    <3>6. Importing(o)' => Due(o)' # "import chips"
      BY <3>4
    <3>7. CASE Due(o) # "import chips"
      <4>1. TableOf(Due(o)) # "chips" /\ "chips" \in Tables
        BY <3>2, <3>7, WrittenBy DEF Tables
      <4>2. db'["chips"] = db["chips"]
        BY <3>1, <4>1 DEF Wrote
      <4> QED
        BY <1>2, <3>2, <3>5, <3>6, <4>2
    <3>8. CASE Due(o) = "import chips"
      <4> DEFINE old == db["chips"]
                 new == db'["chips"]
                 file == c.command.file
      <4>1. c.command.is = "import chips"
        BY <3>2, <3>8, WhoWrites DEF Due, WritesOf
      <4>2. new = Import(old, file)
        <5>1. ImportChips(o)
          BY <2>5, <3>8, OnlyBy
        <5>2. Commit(o, "chips", file, Import(old, file))
          BY <5>1 DEF ImportChips
        <5> QED
          BY <5>2 DEF Commit, Shape, Tables
      <4>3. ~Overlapping(old, file)
        BY <3>2, <3>8, <4>1 DEF ChipsApart, Importing
      <4>4. Listing(file) /\ \A w \in Range(file) : Forward(w)
        BY <3>2, <4>1 DEF IsCommand, ForwardWindows
      <4>5. IsFiniteSet(old) /\ \A w \in old : Forward(w)
        BY DEF ChipsApart
      <4> HIDE DEF old, new, file
      <4>6. IsFiniteSet(new) /\ \A w \in new : Forward(w)
        BY <4>2, <4>4, <4>5, ImportIs
      <4>7. \A w \in old \cup Range(file) : Forward(w)
        BY <4>4, <4>5
      <4>8. Apart(new)
        BY <4>2, <4>3, <4>4, <4>5, <4>7, ImportKeepsApart DEF Apart
      <4>9. \A p \in Operators : p # o => ~Importing(p)'
        <5>1. \A p \in Operators : p # o => ~Importing(p)
          BY <3>2, <4>1 DEF ChipsApart, Importing
        <5> QED
          BY <3>2, <5>1 DEF Alone, Importing, Busy
      <4> QED
        BY <3>6, <4>6, <4>8, <4>9 DEF ChipsApart, new
    <3> QED
      BY <3>7, <3>8
  <2> QED
    BY <1>4, <2>1, <2>2, <2>3, <2>4, <2>5 DEF Done
<1> QED
  BY <1>1, <1>3, <1>4, Steps

(* No sequence of commands, killed wherever they may be, gives a chip to   *)
(* two runners at one time, however many files are imported. Imports are   *)
(* one at a time here (ImportsAlone), which the code leaves to the         *)
(* operators: of two at once, each can pass the check before the other     *)
(* writes. Every window in what is stored and in the files ends after it   *)
(* begins, which nothing in the code refuses either: a window that ends    *)
(* before it begins can stand between two that overlap, and                *)
(* from_assignments compares neighbours only.                              *)
THEOREM ChipsStayApart ==
    ASSUME ImportsAlone, ForwardWindows, Apart(Stored.chips)
    PROVE  Spec => []OneRunnerPerChip
<1>1. Init => Shape /\ ChipsApart
  <2> SUFFICES ASSUME Init
                 PROVE  Shape /\ ChipsApart
    OBVIOUS
  <2>2. \A o \in Operators : ~Busy(o)
    BY DEF Init, Busy
  <2>3. db["chips"] = Stored.chips
    BY DEF Init
  <2>4. ChipsApart
    BY <2>2, <2>3 DEF ChipsApart, ForwardWindows, Importing
  <2> QED
    BY <2>4, FirstShape
<1>2. Shape /\ ChipsApart /\ [Next]_vars => (Shape /\ ChipsApart)'
  BY ShapeHolds, ChipsHold
<1>3. ChipsApart => OneRunnerPerChip
  BY DEF ChipsApart, Apart, OneRunnerPerChip
<1> QED
  BY <1>1, <1>2, <1>3, PTL DEF Spec

-----------------------------------------------------------------------------
(* The trail.                                                              *)

(* Whether a command has written something, and whether the policy.        *)
HasWritten(c) == \E j \in 1..(c.step - 1) : Script(c.command)[j] \in Writes

(* Whether it has written the policy.                                      *)
HasSet(c) == \E j \in 1..(c.step - 1) : Script(c.command)[j] = "set policy"

(* Places before one, to be cited where the solver has strings to do with  *)
(* as well.                                                                *)
LEMMA PlacesBefore ==
    ASSUME NEW s \in Nat, NEW n \in Nat, NEW w \in 1..(n - 1)
    PROVE  /\ \A j \in 1..(s - 1) : j < s /\ j \in Nat
           /\ s \in 1..n /\ s # n /\ ~(s < w) => s = w \/ (w < s /\ s < n)
           /\ s = n => w \in 1..(s - 1)
           /\ \A j \in 1..(s - 1) : s \in 1..n => j \in 1..n /\ j < n
           /\ \A j \in 1..(s - 1) : s \in 1..n /\ ~(j < w) /\ s # n => w < s /\ s < n
           /\ \A j \in 1..(s - 1) : s \in 1..n /\ j = n - 1 => s = n
           /\ \A j : j \in 1..((s + 1) - 1) <=> j \in 1..(s - 1) \/ (j = s /\ s > 0)
           /\ s \in 1..n => s > 0
  OBVIOUS

(* One statement further.                                                  *)
LEMMA AfterOne ==
    ASSUME NEW c, NEW k, IsCommand(c), Further(c, k)
    PROVE  LET s == Script(c.command)[c.step] IN
           /\ HasWritten(k) <=> HasWritten(c) \/ s \in Writes
           /\ HasSet(k) <=> HasSet(c) \/ s = "set policy"
<1> DEFINE q == Script(c.command)
<1>1. k.command = c.command /\ c.step \in Nat /\ k.step = c.step + 1
  BY DEF Further
<1>2. c.step > 0
  <2>1. PICK w : Formed(c.command, q, w)
    BY ScriptsFormed DEF IsCommand
  <2>2. c.step \in 1..Len(q)
    BY DEF IsCommand
  <2> HIDE DEF q
  <2> QED
    BY <1>1, <2>2
<1>3. \A j : j \in 1..(k.step - 1) <=> j \in 1..(c.step - 1) \/ j = c.step
  BY <1>1, <1>2
<1> QED
  BY <1>1, <1>3 DEF HasWritten, HasSet

(* When the trail is told something has been written, what has been        *)
(* written has only the trail to tell, save a policy, and a policy that is *)
(* written tells at once.                                                  *)
LEMMA AtTheTrail ==
    ASSUME NEW c, IsCommand(c)
    PROVE  LET s == Script(c.command)[c.step] IN
           /\ s = "audit" => HasWritten(c)
           /\ HasWritten(c) /\ s # "audit" => c.command.is = "policy" /\ s \in {"policy", "set policy"}
           /\ HasSet(c) => s = "audit"
<1> DEFINE q == Script(c.command)
           s == c.step
           n == Len(q)
<1>1. PICK w : Formed(c.command, q, w)
  BY ScriptsFormed DEF IsCommand
<1>2. s \in 1..n
  BY DEF IsCommand
<1>3. /\ n \in Nat /\ w \in 1..(n - 1)
      /\ \A j \in 1..n : j < w => q[j] \in Looks
      /\ q[w] \in WritesOf(c.command)
      /\ \A j \in 1..n : w < j /\ j < n => c.command.is = "policy" /\ q[j] \in {"policy", "set policy"}
      /\ \A j \in 1..n : q[j] = "set policy" => j = n - 1
      /\ q[n] = "audit"
  BY <1>1 DEF Formed
<1>4. c.command.is \in Kinds
  BY Scripts DEF IsCommand
<1>5. q[w] \in Writes /\ q[w] # "audit"
  BY <1>3, <1>4, Kind
<1>6. HasWritten(c) <=> \E j \in 1..(s - 1) : q[j] \in Writes
  BY DEF HasWritten
<1>7. HasSet(c) <=> \E j \in 1..(s - 1) : q[j] = "set policy"
  BY DEF HasSet
<1> HIDE DEF q, s, n
<1>8. s \in Nat
  BY <1>2
<1>9. ASSUME q[s] = "audit"
      PROVE  s = n
  <2>1. SUFFICES ASSUME s # n
                 PROVE  FALSE
    OBVIOUS
  <2>2. ~(s < w)
    BY <1>2, <1>3, <1>9, Kind, Zenon
  <2>3. s = w \/ (w < s /\ s < n)
    BY <1>2, <1>3, <1>8, <2>1, <2>2, PlacesBefore, Zenon
  <2>4. "audit" \notin {"policy", "set policy"}
    OBVIOUS
  <2> QED
    BY <1>2, <1>3, <1>5, <1>9, <2>3, <2>4, Zenon
<1>10. q[s] = "audit" => HasWritten(c)
  BY <1>3, <1>5, <1>6, <1>8, <1>9, PlacesBefore, Zenon
<1>11. ASSUME HasWritten(c), q[s] # "audit"
       PROVE  c.command.is = "policy" /\ q[s] \in {"policy", "set policy"}
  <2>1. PICK j \in 1..(s - 1) : q[j] \in Writes
    BY <1>6, <1>11
  <2>2. s # n
    BY <1>3, <1>11, Zenon
  <2>3. j \in 1..n
    BY <1>2, <1>3, <1>8, PlacesBefore, Zenon
  <2>4. ~(j < w)
    BY <1>3, <2>1, <2>3, Kind, Zenon
  <2>5. w < s /\ s < n
    BY <1>2, <1>3, <1>8, <2>2, <2>4, PlacesBefore, Zenon
  <2> QED
    BY <1>2, <1>3, <2>5, Zenon
<1>12. ASSUME HasSet(c)
       PROVE  q[s] = "audit"
  <2>1. PICK j \in 1..(s - 1) : q[j] = "set policy"
    BY <1>7, <1>12
  <2>2. j \in 1..n
    BY <1>2, <1>3, <1>8, PlacesBefore, Zenon
  <2>3. s = n
    BY <1>2, <1>3, <1>8, <2>1, <2>2, PlacesBefore, Zenon
  <2> QED
    BY <1>3, <2>3, Zenon
<1> QED
  BY <1>10, <1>11, <1>12 DEF q, s

(* A command that gives up, or finds its number or name taken, has written *)
(* nothing.                                                                *)
LEMMA NothingLeft ==
    ASSUME Shape, NEW o \in Operators, GiveUp(o) \/ Conflict(o)
    PROVE  ~HasWritten(console[o])
<1>1. Busy(o) /\ IsCommand(console[o])
  BY DEF GiveUp, Conflict, Shape
<1>2. ASSUME HasWritten(console[o]), Due(o) # "audit"
      PROVE  console[o].command.is = "policy" /\ Due(o) \in {"policy", "set policy"}
  BY <1>1, <1>2, AtTheTrail DEF Due
<1>3. CASE GiveUp(o)
  <2>1. PICK found \in Findings(Due(o)) :
            GivesUp(console[o].command, Due(o), found, console[o].seen)
    BY <1>3, GiveUpStep
  <2>2. Due(o) # "policy"
    BY <2>1 DEF GivesUp
  <2>3. Due(o) \in Looks /\ Due(o) # "audit" /\ Due(o) # "set policy"
    BY <1>3, GiveUpStep, LooksAre
  <2> QED
    BY <1>2, <2>2, <2>3
<1>4. CASE Conflict(o)
  BY <1>2, <1>4, ConflictStep
<1> QED
  BY <1>3, <1>4

(* Whether there is a row of a command's.                                  *)
RowOf(rows, id) == \E k \in DOMAIN rows : rows[k].by = id

(* Whether a command still runs.                                           *)
RunningNow(id) == \E o \in Operators : Busy(o) /\ console[o].id = id

(* Rows of commits and of the trail, command by command: a row of the      *)
(* trail is of a command that has written, each has one at most, a command *)
(* that runs has committed as far as its script says and has yet to tell,  *)
(* and one that has written is in the trail, killed, or still running.     *)
Tally ==
    /\ \A k \in DOMAIN commits : commits[k].by \in 0..begun
    /\ \A i \in DOMAIN trail : trail[i].by \in 1..begun /\ RowOf(commits, trail[i].by)
    /\ \A i, j \in DOMAIN trail : trail[i].by = trail[j].by => i = j
    /\ \A o \in Operators : Busy(o) =>
          /\ RowOf(commits, console[o].id) <=> HasWritten(console[o])
          /\ ~RowOf(trail, console[o].id)
    /\ \A id \in 1..begun : RowOf(commits, id) => RowOf(trail, id) \/ id \in killed \/ RunningNow(id)

(* A sequence of rows that is one longer.                                  *)
Grown(a, b, row) ==
    \A k \in DOMAIN b :
        \/ k \in DOMAIN a /\ b[k] = a[k]
        \/ k = Len(a) + 1 /\ b[k] = row

(* One row more, and whose rows there are.                                 *)
LEMMA OneMore ==
    ASSUME NEW a, Listing(a), NEW row, NEW b, b = Append(a, row)
    PROVE  /\ \A id : RowOf(b, id) <=> RowOf(a, id) \/ row.by = id
           /\ Grown(a, b, row)
<1>1. /\ DOMAIN a = 1..Len(a) /\ DOMAIN b = 1..(Len(a) + 1) /\ Len(a) \in Nat
      /\ \A i \in 1..Len(a) : b[i] = a[i]
      /\ b[Len(a) + 1] = row
  BY Appended
<1>2. \A k \in DOMAIN b : k \in DOMAIN a \/ k = Len(a) + 1
  BY <1>1
<1>3. \A k \in DOMAIN a : k \in DOMAIN b /\ b[k] = a[k]
  BY <1>1
<1>4. Len(a) + 1 \in DOMAIN b
  BY <1>1
<1>5. \A id : RowOf(b, id) <=> RowOf(a, id) \/ row.by = id
  BY <1>1, <1>2, <1>3, <1>4 DEF RowOf
<1>6. ASSUME NEW k \in DOMAIN b
      PROVE  \/ k \in DOMAIN a /\ b[k] = a[k]
             \/ k = Len(a) + 1 /\ b[k] = row
  BY <1>1, <1>2, <1>3
<1> QED
  BY <1>5, <1>6, Zenon DEF Grown

(* What stays, for the consoles that nothing happens at.                   *)
LEMMA TallyBeside ==
    ASSUME Shape, Tally, NEW o \in Operators, Alone(o), begun' = begun, trail' = trail,
           killed \subseteq killed',
           \A id : RowOf(commits, id) => RowOf(commits', id),
           \A id : RowOf(commits', id) /\ ~RowOf(commits, id) => Busy(o)' /\ id = console'[o].id,
           \A k \in DOMAIN commits' : commits'[k].by \in 0..begun,
           Busy(o), Busy(o)' => console'[o].id = console[o].id,
           Busy(o)' => (RowOf(commits', console'[o].id) <=> HasWritten(console'[o])),
           ~Busy(o)' => console[o].id \in killed' \/ ~RowOf(commits, console[o].id)
    PROVE  Tally'
<1>1. \A id : RowOf(trail', id) <=> RowOf(trail, id)
  BY DEF RowOf
<1>2. \A p \in Operators : p # o => console'[p] = console[p] /\ (Busy(p)' <=> Busy(p))
  BY DEF Alone, Busy
<1>3. \A p \in Operators : p # o /\ Busy(p) => console[p].id # console[o].id
  BY DEF Shape
<1>4. \A p \in Operators : Busy(p)' =>
          /\ RowOf(commits', console'[p].id) <=> HasWritten(console'[p])
          /\ ~RowOf(trail', console'[p].id)
  <2>1. ASSUME NEW p \in Operators, p # o, Busy(p)
        PROVE  /\ RowOf(commits', console[p].id) <=> HasWritten(console[p])
               /\ ~RowOf(trail', console[p].id)
    <3>1. RowOf(commits', console[p].id) <=> RowOf(commits, console[p].id)
      BY <1>3, <2>1
    <3> QED
      BY <1>1, <2>1, <3>1 DEF Tally
  <2>2. Busy(o)' => ~RowOf(trail', console'[o].id)
    BY <1>1 DEF Tally
  <2> QED
    BY <1>2, <2>1, <2>2
<1>5. \A id \in 1..begun : RowOf(commits', id) => RowOf(trail', id) \/ id \in killed' \/ RunningNow(id)'
  <2>1. SUFFICES ASSUME NEW id \in 1..begun, RowOf(commits', id), ~RowOf(trail, id), id \notin killed'
                 PROVE  RunningNow(id)'
    BY <1>1
  <2>2. CASE ~RowOf(commits, id)
    BY <2>1, <2>2 DEF RunningNow
  <2>3. CASE RowOf(commits, id)
    <3>1. PICK p \in Operators : Busy(p) /\ console[p].id = id
      BY <2>1, <2>3 DEF Tally, RunningNow
    <3>2. CASE p = o
      BY <2>1, <2>3, <3>1, <3>2 DEF RunningNow
    <3>3. CASE p # o
      BY <1>2, <3>1, <3>3 DEF RunningNow
    <3> QED
      BY <3>2, <3>3
  <2> QED
    BY <2>2, <2>3
<1>6. \A i \in DOMAIN trail : trail[i].by \in 1..begun /\ RowOf(commits', trail[i].by)
  BY DEF Tally
<1>7. \A i, j \in DOMAIN trail : trail[i].by = trail[j].by => i = j
  BY DEF Tally
<1> QED
  BY <1>4, <1>5, <1>6, <1>7 DEF Tally

(* Tally is kept by every step.                                            *)
LEMMA TallyHolds == ASSUME Shape, Tally, [Next]_vars PROVE Tally'
<1>1. CASE UNCHANGED vars
  BY <1>1 DEF vars, Tally, RowOf, RunningNow, Busy
<1>2. begun \in Nat
  BY DEF Shape
<1>3. CASE ReadArrives
  <2>1. PICK read : Arrived(read)
    BY <1>3, ArrivalStep
  <2> DEFINE commit == [table |-> "reads", by |-> 0, row |-> read]
  <2>2. commits' = Append(commits, commit) /\ UNCHANGED <<trail, console, killed, begun>>
    BY <2>1 DEF Arrived
  <2>3. commit.by = 0
    OBVIOUS
  <2> HIDE DEF commit
  <2>4. /\ \A id : RowOf(commits', id) <=> RowOf(commits, id) \/ 0 = id
        /\ \A k \in DOMAIN commits' : commits'[k].by \in 0..begun
    <3>1. 0 \in 0..begun
      BY <1>2
    <3>2. Listing(commits)
      BY DEF Shape
    <3>3. Grown(commits, commits', commit)
      BY <2>2, <3>2, OneMore, Zenon
    <3>4. \A id : RowOf(commits', id) <=> RowOf(commits, id) \/ commit.by = id
      BY <2>2, <3>2, OneMore, Zenon
    <3> QED
      BY <2>3, <3>1, <3>3, <3>4 DEF Tally, Grown
  <2>5. \A o \in Operators : Busy(o) => console[o].id # 0
    BY <1>2 DEF Shape
  <2>6. \A id \in 1..begun : id # 0
    BY <1>2
  <2>7. \A id : (RowOf(trail', id) <=> RowOf(trail, id)) /\ (RunningNow(id)' <=> RunningNow(id))
    BY <2>2 DEF RowOf, RunningNow, Busy
  <2>8. \A o \in Operators : Busy(o)' =>
          /\ RowOf(commits', console'[o].id) <=> HasWritten(console'[o])
          /\ ~RowOf(trail', console'[o].id)
    BY <2>2, <2>4, <2>5, <2>7 DEF Tally, Busy
  <2>9. \A i \in DOMAIN trail : trail[i].by \in 1..begun /\ RowOf(commits', trail[i].by)
    BY <2>4 DEF Tally
  <2>10. \A id \in 1..begun : RowOf(commits', id) => RowOf(trail', id) \/ id \in killed \/ RunningNow(id)'
    BY <2>4, <2>6, <2>7 DEF Tally
  <2>11. \A i, j \in DOMAIN trail : trail[i].by = trail[j].by => i = j
    BY DEF Tally
  <2> QED
    BY <2>2, <2>4, <2>8, <2>9, <2>10, <2>11 DEF Tally
<1>4. ASSUME NEW o \in Operators, Done(o)
      PROVE  Tally'
  <2> DEFINE c == console[o]
             k == console'[o]
  <2>1. CASE \E command \in Commands : Typed(o, command)
    <3>1. PICK command \in Commands : Typed(o, command)
      BY <2>1
    <3>2. /\ ~Busy(o) /\ k.step = 1 /\ k.id = begun + 1
          /\ begun' = begun + 1 /\ UNCHANGED <<db, trail, commits, killed>> /\ Alone(o)
          /\ IsCommand(k)
      <4>1. Fresh(command).step = 1 /\ Fresh(command).id = begun + 1
        BY DEF Fresh
      <4> QED
        BY <3>1, <4>1, Zenon DEF Typed
    <3>3. Busy(o)'
      <4>1. "id" \in DOMAIN k
        BY <3>2 DEF IsCommand, Fields
      <4>2. "id" \notin DOMAIN Idle
        BY DEF Idle
      <4> QED
        BY <4>1, <4>2 DEF Busy
    <3>4. \A id : (RowOf(commits', id) <=> RowOf(commits, id)) /\ (RowOf(trail', id) <=> RowOf(trail, id))
      BY <3>2 DEF RowOf
    <3>5. ~HasWritten(k)
      BY <3>2 DEF HasWritten
    <3>6. ~RowOf(commits, begun + 1) /\ ~RowOf(trail, begun + 1)
      BY <1>2 DEF RowOf, Tally
    <3>7. \A p \in Operators : p # o => console'[p] = console[p] /\ (Busy(p)' <=> Busy(p))
      BY <3>2 DEF Alone, Busy
    <3>8. \A p \in Operators : Busy(p)' =>
            /\ RowOf(commits', console'[p].id) <=> HasWritten(console'[p])
            /\ ~RowOf(trail', console'[p].id)
      BY <3>2, <3>4, <3>5, <3>6, <3>7 DEF Tally
    <3>9. \A id \in 1..begun' : RowOf(commits', id) => RowOf(trail', id) \/ id \in killed \/ RunningNow(id)'
      <4>1. SUFFICES ASSUME NEW id \in 1..begun', RowOf(commits, id), ~RowOf(trail, id), id \notin killed
                     PROVE  RunningNow(id)'
        BY <3>4
      <4>2. id \in 1..begun
        BY <1>2, <3>2, <3>6, <4>1
      <4>3. PICK p \in Operators : Busy(p) /\ console[p].id = id
        BY <4>1, <4>2 DEF Tally, RunningNow
      <4> QED
        BY <3>2, <3>7, <4>3 DEF RunningNow
    <3>10. /\ \A x \in DOMAIN commits : commits[x].by \in 0..begun'
           /\ \A i \in DOMAIN trail : trail[i].by \in 1..begun' /\ RowOf(commits', trail[i].by)
      <4>1. \A x : x \in 0..begun => x \in 0..begun'
        BY <1>2, <3>2
      <4>2. \A x : x \in 1..begun => x \in 1..begun'
        BY <1>2, <3>2
      <4> QED
        BY <3>4, <4>1, <4>2 DEF Tally
    <3>11. \A i, j \in DOMAIN trail : trail[i].by = trail[j].by => i = j
      BY DEF Tally
    <3> QED
      BY <3>2, <3>8, <3>9, <3>10, <3>11 DEF Tally
  <2>2. CASE Look(o)
    <3>1. /\ Busy(o) /\ Alone(o) /\ Further(c, k) /\ IsCommand(c) /\ Due(o) \in Looks
          /\ UNCHANGED <<db, trail, commits, killed, begun>>
      BY <2>2, LookStep
    <3>2. HasWritten(k) <=> HasWritten(c)
      BY <3>1, AfterOne, Kind DEF Due
    <3>3. k.id = c.id /\ Busy(o)'
      <4>1. IsCommand(k) /\ k.id = c.id
        BY <3>1 DEF Further
      <4>2. "id" \in DOMAIN k
        BY <4>1 DEF IsCommand, Fields
      <4>3. "id" \notin DOMAIN Idle
        BY DEF Idle
      <4> QED
        BY <4>1, <4>2, <4>3 DEF Busy
    <3>4. \A id : RowOf(commits', id) <=> RowOf(commits, id)
      BY <3>1 DEF RowOf
    <3>5. RowOf(commits', k.id) <=> HasWritten(k)
      BY <3>1, <3>2, <3>3, <3>4 DEF Tally
    <3>6. \A x \in DOMAIN commits' : commits'[x].by \in 0..begun
      BY <3>1 DEF Tally
    <3> QED
      BY <3>1, <3>3, <3>4, <3>5, <3>6, TallyBeside
  <2>3. CASE GiveUp(o) \/ Conflict(o) \/ Kill(o)
    <3>1. Ended(o)
      BY <2>3, GiveUpStep, ConflictStep, KillStep
    <3>2. /\ killed \subseteq killed'
          /\ c.id \in killed' \/ ~RowOf(commits, c.id)
      <4>1. CASE GiveUp(o) \/ Conflict(o)
        BY <3>1, <4>1, NothingLeft, GiveUpStep, ConflictStep DEF Tally, Ended
      <4>2. CASE Kill(o)
        BY <4>2, KillStep
      <4> QED
        BY <2>3, <4>1, <4>2
    <3>3. \A id : RowOf(commits', id) <=> RowOf(commits, id)
      BY <3>1 DEF RowOf, Ended
    <3>4. \A x \in DOMAIN commits' : commits'[x].by \in 0..begun
      BY <3>1 DEF Tally, Ended
    <3> QED
      BY <3>1, <3>2, <3>3, <3>4, TallyBeside DEF Ended
  <2>4. CASE Audited(o)
    <3> DEFINE row == [by |-> c.id, action |-> c.command.is, detail |-> Detail(c)]
    <3>1. /\ Busy(o) /\ ~Busy(o)' /\ Alone(o) /\ Due(o) = "audit" /\ trail' = Append(trail, row)
          /\ UNCHANGED <<db, commits, killed, begun>>
      BY <2>4 DEF Audited
    <3>2. row.by = c.id
      OBVIOUS
    <3> HIDE DEF row
    <3>3. Listing(trail) /\ IsCommand(c) /\ c.id \in 1..begun
      BY <3>1 DEF Shape
    <3>4. /\ \A id : RowOf(trail', id) <=> RowOf(trail, id) \/ c.id = id
          /\ \A i \in DOMAIN trail' : \/ i \in DOMAIN trail /\ trail'[i] = trail[i]
                                      \/ i = Len(trail) + 1 /\ trail'[i] = row
      <4>1. Grown(trail, trail', row)
        BY <3>1, <3>3, OneMore, Zenon
      <4>2. \A id : RowOf(trail', id) <=> RowOf(trail, id) \/ row.by = id
        BY <3>1, <3>3, OneMore, Zenon
      <4> QED
        BY <3>2, <4>1, <4>2 DEF Grown
    <3>5. RowOf(commits, c.id) /\ ~RowOf(trail, c.id)
      BY <3>1, <3>3, AtTheTrail DEF Tally, Due
    <3>6. \A i \in DOMAIN trail' : trail'[i].by \in 1..begun /\ RowOf(commits, trail'[i].by)
      BY <3>2, <3>3, <3>4, <3>5 DEF Tally
    <3>7. \A i \in DOMAIN trail : trail[i].by # c.id
      BY <3>5 DEF RowOf
    <3>8. ASSUME NEW i \in DOMAIN trail', NEW j \in DOMAIN trail', trail'[i].by = trail'[j].by
          PROVE  i = j
      BY <3>2, <3>4, <3>7, <3>8 DEF Tally
    <3>9. \A p \in Operators : p # o => console'[p] = console[p] /\ (Busy(p)' <=> Busy(p))
      BY <3>1 DEF Alone, Busy
    <3>10. \A p \in Operators : Busy(p)' =>
             /\ RowOf(commits', console'[p].id) <=> HasWritten(console'[p])
             /\ ~RowOf(trail', console'[p].id)
      <4>1. \A p \in Operators : p # o /\ Busy(p) => console[p].id # c.id
        BY <3>1 DEF Shape
      <4> QED
        BY <3>1, <3>4, <3>9, <4>1 DEF Tally
    <3>11. \A id \in 1..begun : RowOf(commits, id) => RowOf(trail', id) \/ id \in killed \/ RunningNow(id)'
      <4>1. SUFFICES ASSUME NEW id \in 1..begun, RowOf(commits, id), ~RowOf(trail, id), id \notin killed,
                            id # c.id
                     PROVE  RunningNow(id)'
        BY <3>4
      <4>2. PICK p \in Operators : Busy(p) /\ console[p].id = id
        BY <4>1 DEF Tally, RunningNow
      <4> QED
        BY <3>9, <4>1, <4>2 DEF RunningNow
    <3>12. \A x \in DOMAIN commits : commits[x].by \in 0..begun
      BY DEF Tally
    <3> QED
      BY <3>1, <3>6, <3>8, <3>10, <3>11, <3>12 DEF Tally
  <2>5. CASE Writing(o)
    <3>1. PICK row : Wrote(o, TableOf(Due(o)), row)
      BY <2>5, WritingIs
    <3> DEFINE commit == [table |-> TableOf(Due(o)), by |-> c.id, row |-> row]
    <3>2. /\ Busy(o) /\ Alone(o) /\ Further(c, k) /\ IsCommand(c) /\ Due(o) \in Writes
          /\ commits' = Append(commits, commit) /\ UNCHANGED <<trail, killed, begun>>
      BY <3>1 DEF Wrote
    <3>3. commit.by = c.id
      OBVIOUS
    <3> HIDE DEF commit
    <3>4. HasWritten(k)
      BY <3>2, AfterOne DEF Due
    <3>5. k.id = c.id /\ Busy(o)'
      <4>1. IsCommand(k) /\ k.id = c.id
        BY <3>2 DEF Further
      <4>2. "id" \in DOMAIN k
        BY <4>1 DEF IsCommand, Fields
      <4>3. "id" \notin DOMAIN Idle
        BY DEF Idle
      <4> QED
        BY <4>1, <4>2, <4>3 DEF Busy
    <3>6. \A id : RowOf(commits', id) <=> RowOf(commits, id) \/ c.id = id
      BY <3>2, <3>3, OneMore DEF Shape
    <3>7. \A x \in DOMAIN commits' : commits'[x].by \in 0..begun
      <4>1. c.id \in 0..begun
        BY <1>2, <3>2 DEF Shape
      <4>2. Listing(commits)
        BY DEF Shape
      <4> QED
        BY <3>2, <3>3, <4>1, <4>2, OneMore DEF Tally, Grown
    <3> QED
      BY <3>2, <3>4, <3>5, <3>6, <3>7, TallyBeside
  <2> QED
    BY <1>4, <2>1, <2>2, <2>3, <2>4, <2>5 DEF Done
<1> QED
  BY <1>1, <1>3, <1>4, Steps

(* The commands that add to what is only added to.                         *)
Telling == {"start", "stop", "manual add", "declare", "publish"}

(* What a command will tell of such a row is in the table, and so is what  *)
(* one told.                                                               *)
SaidIsStored ==
    /\ \A o \in Operators :
          Busy(o) /\ console[o].command.is \in Telling /\ HasWritten(console[o]) =>
              console[o].said \in Range(db[TableOf(console[o].command.is)])
    /\ \A i \in DOMAIN trail : trail[i].action \in Telling =>
          trail[i].detail \in Range(db[TableOf(trail[i].action)])

(* Their tables are only added to.                                         *)
LEMMA TellingTables ==
    \A a \in Telling : TableOf(a) \in Journals /\ a \in Kinds /\ a # "policy"
<1>1. /\ TableOf("start") = "sessions" /\ TableOf("stop") = "sessions"
      /\ TableOf("manual add") = "manual" /\ TableOf("declare") = "declared"
      /\ TableOf("publish") = "revisions"
  BY DEF TableOf
<1> QED
  BY <1>1 DEF Telling, Journals, Kinds

(* What is only added to loses nothing.                                    *)
LEMMA JournalsGrow ==
    ASSUME Shape, NEW table \in Tables, NEW row, DOMAIN db' = Tables,
           table \in Journals => db'[table] = Append(db[table], row),
           \A t \in Tables : t # table => db'[t] = db[t]
    PROVE  /\ \A t \in Journals : Range(db[t]) \subseteq Range(db'[t])
           /\ table \in Journals => row \in Range(db'[table])
<1>1. ASSUME table \in Journals
      PROVE  Range(db'[table]) = Range(db[table]) \cup {row}
  <2> DEFINE a == db[table]
             b == db'[table]
  <2>1. Listing(a) /\ b = Append(a, row)
    BY <1>1 DEF Shape
  <2> HIDE DEF a, b
  <2>2. Range(b) = Range(a) \cup {row}
    BY <2>1, Appended
  <2> QED
    BY <2>2 DEF a, b
<1>2. Journals \subseteq Tables
  BY DEF Journals, Tables
<1> QED
  BY <1>1, <1>2

(* What stays, for the consoles that nothing happens at.                   *)
LEMMA SaidBeside ==
    ASSUME SaidIsStored, NEW o \in Operators, Alone(o),
           \A t \in Journals : Range(db[t]) \subseteq Range(db'[t]),
           trail' = trail,
           Busy(o)' /\ console'[o].command.is \in Telling /\ HasWritten(console'[o]) =>
               console'[o].said \in Range(db'[TableOf(console'[o].command.is)])
    PROVE  SaidIsStored'
<1>1. \A p \in Operators : p # o => console'[p] = console[p] /\ (Busy(p)' <=> Busy(p))
  BY DEF Alone, Busy
<1>2. ASSUME NEW p \in Operators, Busy(p)', console'[p].command.is \in Telling, HasWritten(console'[p])
      PROVE  console'[p].said \in Range(db'[TableOf(console'[p].command.is)])
  <2>1. CASE p = o
    BY <1>2, <2>1
  <2>2. CASE p # o
    <3>1. console[p].said \in Range(db[TableOf(console[p].command.is)])
      BY <1>1, <1>2, <2>2 DEF SaidIsStored
    <3>2. TableOf(console[p].command.is) \in Journals
      BY <1>1, <1>2, <2>2, TellingTables
    <3> QED
      BY <1>1, <2>2, <3>1, <3>2
  <2> QED
    BY <2>1, <2>2
<1>3. ASSUME NEW i \in DOMAIN trail, trail[i].action \in Telling
      PROVE  trail[i].detail \in Range(db'[TableOf(trail[i].action)])
  BY <1>3, TellingTables DEF SaidIsStored
<1> QED
  BY <1>2, <1>3 DEF SaidIsStored

(* SaidIsStored is kept by every step.                                     *)
LEMMA SaidHolds == ASSUME Shape, SaidIsStored, [Next]_vars PROVE SaidIsStored'
<1>1. CASE UNCHANGED vars
  BY <1>1 DEF vars, SaidIsStored, Busy
<1>2. CASE ReadArrives
  <2>1. PICK read : Arrived(read)
    BY <1>2, ArrivalStep
  <2>2. "reads" \in Tables
    BY DEF Tables
  <2>3. (\A t \in Journals : Range(db[t]) \subseteq Range(db'[t])) /\ UNCHANGED <<trail, console>>
    BY <2>1, <2>2, JournalsGrow DEF Arrived
  <2>4. ASSUME NEW o \in Operators, Busy(o), console[o].command.is \in Telling, HasWritten(console[o])
        PROVE  console[o].said \in Range(db'[TableOf(console[o].command.is)])
    BY <2>3, <2>4, TellingTables DEF SaidIsStored
  <2>5. ASSUME NEW i \in DOMAIN trail, trail[i].action \in Telling
        PROVE  trail[i].detail \in Range(db'[TableOf(trail[i].action)])
    BY <2>3, <2>5, TellingTables DEF SaidIsStored
  <2> QED
    BY <2>3, <2>4, <2>5 DEF SaidIsStored, Busy
<1>3. ASSUME NEW o \in Operators, Done(o)
      PROVE  SaidIsStored'
  <2> DEFINE c == console[o]
             k == console'[o]
  <2>1. CASE \E command \in Commands : Typed(o, command)
    <3>1. k.step = 1 /\ UNCHANGED <<db, trail>> /\ Alone(o)
      <4>1. \A command : Fresh(command).step = 1
        BY DEF Fresh
      <4> QED
        BY <2>1, <4>1, Zenon DEF Typed
    <3>2. ~HasWritten(k)
      BY <3>1 DEF HasWritten
    <3> QED
      BY <3>1, <3>2, SaidBeside
  <2>2. CASE Look(o)
    <3>1. /\ Busy(o) /\ Alone(o) /\ Further(c, k) /\ IsCommand(c) /\ Due(o) \in Looks
          /\ UNCHANGED <<db, trail>> /\ k.said = c.said
      BY <2>2, LookStep
    <3>2. HasWritten(k) <=> HasWritten(c)
      BY <3>1, AfterOne, Kind DEF Due
    <3>3. k.command = c.command
      BY <3>1 DEF Further
    <3>4. k.command.is \in Telling /\ HasWritten(k) => k.said \in Range(db'[TableOf(k.command.is)])
      BY <3>1, <3>2, <3>3 DEF SaidIsStored
    <3> QED
      BY <3>1, <3>4, SaidBeside
  <2>3. CASE GiveUp(o) \/ Conflict(o) \/ Kill(o)
    <3>1. Ended(o)
      BY <2>3, GiveUpStep, ConflictStep, KillStep
    <3> QED
      BY <3>1, SaidBeside DEF Ended
  <2>4. CASE Audited(o)
    <3> DEFINE row == [by |-> c.id, action |-> c.command.is, detail |-> Detail(c)]
    <3>1. /\ Busy(o) /\ ~Busy(o)' /\ Alone(o) /\ Due(o) = "audit" /\ trail' = Append(trail, row)
          /\ UNCHANGED <<db, commits, killed, begun>>
      BY <2>4 DEF Audited
    <3>2. row.action = c.command.is /\ row.detail = Detail(c)
      OBVIOUS
    <3> HIDE DEF row
    <3>3. Listing(trail) /\ IsCommand(c)
      BY <3>1 DEF Shape
    <3>4. Grown(trail, trail', row)
      BY <3>1, <3>3, OneMore, Zenon
    <3>5. row.action \in Telling => row.detail \in Range(db[TableOf(row.action)])
      <4>1. HasWritten(c)
        BY <3>1, <3>3, AtTheTrail DEF Due
      <4> QED
        BY <3>1, <3>2, <4>1, TellingTables DEF SaidIsStored, Detail
    <3>6. \A i \in DOMAIN trail' : trail'[i].action \in Telling =>
             trail'[i].detail \in Range(db[TableOf(trail'[i].action)])
      BY <3>4, <3>5 DEF Grown, SaidIsStored
    <3>7. \A p \in Operators : p # o => console'[p] = console[p] /\ (Busy(p)' <=> Busy(p))
      BY <3>1 DEF Alone, Busy
    <3>8. \A p \in Operators :
             Busy(p)' /\ console'[p].command.is \in Telling /\ HasWritten(console'[p]) =>
                 console'[p].said \in Range(db[TableOf(console'[p].command.is)])
      BY <3>1, <3>7 DEF SaidIsStored
    <3> QED
      BY <3>1, <3>6, <3>8 DEF SaidIsStored
  <2>5. CASE Writing(o)
    <3>1. PICK row : Wrote(o, TableOf(Due(o)), row)
      BY <2>5, WritingIs
    <3> DEFINE table == TableOf(Due(o))
    <3> HIDE DEF table
    <3>2. Wrote(o, table, row)
      BY <3>1 DEF table
    <3>3. /\ Busy(o) /\ Alone(o) /\ Further(c, k) /\ IsCommand(c) /\ Due(o) \in Writes
          /\ k.said = row /\ trail' = trail /\ table \in Tables
      BY <3>2 DEF Wrote
    <3>4. /\ \A t \in Journals : Range(db[t]) \subseteq Range(db'[t])
          /\ table \in Journals => row \in Range(db'[table])
      BY <3>2, JournalsGrow DEF Wrote
    <3>5. ASSUME k.command.is \in Telling
          PROVE  k.said \in Range(db'[TableOf(k.command.is)])
      <4>1. k.command = c.command
        BY <3>3 DEF Further
      <4>2. Due(o) = c.command.is
        BY <3>3, <3>5, <4>1, WhoWrites, TellingTables DEF Due, WritesOf
      <4>3. table = TableOf(k.command.is) /\ table \in Journals
        BY <3>5, <4>1, <4>2, TellingTables DEF table
      <4> QED
        BY <3>3, <3>4, <4>3
    <3> QED
      BY <3>3, <3>4, <3>5, SaidBeside
  <2> QED
    BY <1>3, <2>1, <2>2, <2>3, <2>4, <2>5 DEF Done
<1> QED
  BY <1>1, <1>2, <1>3, Steps

(* A command that has changed a setting and has yet to say so.             *)
Owes(c, action, value) ==
    /\ c.command.is = action /\ HasWritten(c)
    /\ action = "policy" => HasSet(c)
    /\ Detail(c) = value

(* The trail tells of a setting's value.                                   *)
TellsOf(rows, action, value) ==
    \E i \in DOMAIN rows : rows[i].action = action /\ rows[i].detail = value

(* It goes on telling it, and tells what is appended.                      *)
LEMMA TellsMore ==
    ASSUME NEW a, Listing(a), NEW row, NEW b, b = Append(a, row), NEW action, NEW value
    PROVE  /\ TellsOf(a, action, value) => TellsOf(b, action, value)
           /\ row.action = action /\ row.detail = value => TellsOf(b, action, value)
<1>1. /\ DOMAIN a = 1..Len(a) /\ DOMAIN b = 1..(Len(a) + 1) /\ Len(a) \in Nat
      /\ \A i \in 1..Len(a) : b[i] = a[i]
      /\ b[Len(a) + 1] = row
  BY Appended
<1>2. \A i \in DOMAIN a : i \in DOMAIN b /\ b[i] = a[i]
  BY <1>1
<1>3. Len(a) + 1 \in DOMAIN b
  BY <1>1
<1> QED
  BY <1>1, <1>2, <1>3 DEF TellsOf

(* A setting is the first, or in the trail, or about to be.                *)
SettingTold(table, action, first) ==
    \/ killed # {}
    \/ db[table] = first
    \/ TellsOf(trail, action, db[table])
    \/ \E o \in Operators : Busy(o) /\ Owes(console[o], action, db[table])

(* A command that owes a row is at its last statement.                     *)
LEMMA OwesItsRow ==
    ASSUME NEW c, IsCommand(c), NEW action \in {"set floor", "policy"}, NEW value,
           Owes(c, action, value)
    PROVE  Script(c.command)[c.step] = "audit"
<1>1. HasWritten(c) /\ c.command.is = action /\ (action = "policy" => HasSet(c))
  BY DEF Owes
<1>2. CASE action = "policy"
  BY <1>1, <1>2, AtTheTrail
<1>3. CASE action = "set floor"
  BY <1>1, <1>3, AtTheTrail
<1> QED
  BY <1>2, <1>3

(* What stays, unless the one command that owed the row is over without    *)
(* it.                                                                     *)
LEMMA SettingBeside ==
    ASSUME NEW table, NEW action, NEW first, SettingTold(table, action, first),
           NEW o \in Operators, Alone(o), db'[table] = db[table],
           killed \subseteq killed',
           TellsOf(trail, action, db[table]) => TellsOf(trail', action, db[table]),
           \/ ~Busy(o)
           \/ ~Owes(console[o], action, db[table])
           \/ killed' # {}
           \/ TellsOf(trail', action, db[table])
    PROVE  SettingTold(table, action, first)'
<1>1. \A p \in Operators : p # o => console'[p] = console[p] /\ (Busy(p)' <=> Busy(p))
  BY DEF Alone, Busy
<1>2. CASE killed # {} \/ db[table] = first \/ TellsOf(trail, action, db[table])
  BY <1>2 DEF SettingTold
<1>3. CASE \E p \in Operators : Busy(p) /\ Owes(console[p], action, db[table])
  <2>1. PICK p \in Operators : Busy(p) /\ Owes(console[p], action, db[table])
    BY <1>3
  <2>2. CASE p = o
    BY <2>1, <2>2 DEF SettingTold
  <2>3. CASE p # o
    <3>1. Busy(p)' /\ Owes(console'[p], action, db'[table])
      BY <1>1, <2>1, <2>3
    <3> QED
      BY <3>1 DEF SettingTold
  <2> QED
    BY <2>2, <2>3
<1> QED
  BY <1>2, <1>3 DEF SettingTold

(* A commit stores what it stores, and the command remembers what it said. *)
LEMMA CommitSays ==
    ASSUME Shape, NEW o \in Operators, Busy(o), NEW table \in Tables, NEW row, NEW stored,
           Commit(o, table, row, stored)
    PROVE  db'[table] = stored /\ console'[o].said = row
<1>1. DOMAIN console = Operators /\ DOMAIN console[o] = Fields /\ DOMAIN db = Tables
  BY DEF Shape, IsCommand
<1>2. db'[table] = stored
  BY <1>1 DEF Commit
<1>3. console'[o].said = row
  <2>1. console' = [console EXCEPT ![o].step = @ + 1, ![o].said = row] /\ "said" \in Fields
    BY DEF Commit, Fields
  <2> QED
    BY <1>1, <2>1
<1> QED
  BY <1>2, <1>3

(* SettingTold is kept by every step, of the two settings the trail can be *)
(* asked for.                                                              *)
LEMMA SettingHolds ==
    ASSUME Shape, [Next]_vars, NEW table, NEW action, NEW first,
           \/ table = "floor" /\ action = "set floor"
           \/ table = "policy" /\ action = "policy",
           SettingTold(table, action, first)
    PROVE  SettingTold(table, action, first)'
<1>1. CASE UNCHANGED vars
  BY <1>1 DEF vars, SettingTold, Busy
<1>2. \/ table = "floor" /\ action = "set floor"
      \/ table = "policy" /\ action = "policy"
  OBVIOUS
<1>3. table \in Tables /\ table \notin Journals /\ table # "reads" /\ action \in {"set floor", "policy"}
  BY <1>2 DEF Tables, Journals
<1>4. CASE ReadArrives
  <2>1. PICK read : Arrived(read)
    BY <1>4, ArrivalStep
  <2>2. db'[table] = db[table] /\ UNCHANGED <<trail, console, killed>>
    BY <1>3, <2>1 DEF Arrived
  <2> QED
    BY <2>2 DEF SettingTold, Busy
<1>5. ASSUME NEW o \in Operators, Done(o)
      PROVE  SettingTold(table, action, first)'
  <2> DEFINE c == console[o]
             k == console'[o]
  <2>1. ASSUME Busy(o), Due(o) # "audit"
        PROVE  ~Owes(c, action, db[table])
    BY <1>3, <2>1, OwesItsRow DEF Shape, Due
  <2>2. CASE \E command \in Commands : Typed(o, command)
    <3>1. ~Busy(o) /\ Alone(o) /\ UNCHANGED <<db, trail, killed>>
      BY <2>2 DEF Typed
    <3> QED
      BY <3>1, SettingBeside
  <2>3. CASE Look(o)
    <3>1. Busy(o) /\ Alone(o) /\ Due(o) \in Looks /\ UNCHANGED <<db, trail, killed>>
      BY <2>3, LookStep
    <3> QED
      BY <2>1, <3>1, SettingBeside, Kind
  <2>4. CASE GiveUp(o) \/ Conflict(o)
    <3>1. Ended(o) /\ killed' = killed /\ Due(o) # "audit"
      BY <2>4, GiveUpStep, ConflictStep, Kind
    <3> QED
      BY <2>1, <3>1, SettingBeside DEF Ended
  <2>5. CASE Kill(o)
    <3>1. killed' # {}
      BY <2>5, KillStep
    <3> QED
      BY <3>1 DEF SettingTold
  <2>6. CASE Audited(o)
    <3> DEFINE row == [by |-> c.id, action |-> c.command.is, detail |-> Detail(c)]
    <3>1. /\ Busy(o) /\ ~Busy(o)' /\ Alone(o) /\ trail' = Append(trail, row)
          /\ UNCHANGED <<db, killed>>
      BY <2>6 DEF Audited
    <3>2. row.action = c.command.is /\ row.detail = Detail(c)
      OBVIOUS
    <3> HIDE DEF row
    <3>3. Listing(trail)
      BY DEF Shape
    <3>4. TellsOf(trail, action, db[table]) => TellsOf(trail', action, db[table])
      BY <3>1, <3>3, TellsMore, Zenon
    <3>5. Owes(c, action, db[table]) => TellsOf(trail', action, db[table])
      <4>1. row.action = action /\ row.detail = db[table] => TellsOf(trail', action, db[table])
        BY <3>1, <3>3, TellsMore, Zenon
      <4> QED
        BY <3>2, <4>1 DEF Owes
    <3> QED
      BY <3>1, <3>4, <3>5, SettingBeside
  <2>7. CASE Writing(o)
    <3>1. PICK row : Wrote(o, TableOf(Due(o)), row)
      BY <2>7, WritingIs
    <3>2. /\ Busy(o) /\ Alone(o) /\ Further(c, k) /\ IsCommand(c) /\ Due(o) \in Writes
          /\ k.seen = c.seen /\ UNCHANGED <<trail, killed>>
      BY <3>1 DEF Wrote
    <3>3. k.command = c.command /\ IsCommand(k)
      BY <3>2 DEF Further
    <3>4. Due(o) # "audit"
      BY <3>2, Kind
    <3>5. CASE TableOf(Due(o)) # table
      <4>1. db'[table] = db[table]
        BY <1>3, <3>1, <3>5 DEF Wrote
      <4> QED
        BY <2>1, <3>2, <3>4, <4>1, SettingBeside
    <3>6. CASE TableOf(Due(o)) = table
      <4>1. HasWritten(k) /\ (Due(o) = "set policy" => HasSet(k))
        BY <3>2, AfterOne DEF Due
      <4>2. Busy(o)'
        <5>1. "id" \in DOMAIN k
          BY <3>3 DEF IsCommand, Fields
        <5>2. "id" \notin DOMAIN Idle
          BY DEF Idle
        <5> QED
          BY <5>1, <5>2 DEF Busy
      <4>3. CASE Due(o) = "set floor"
        <5>1. SetFloor(o)
          BY <2>7, <4>3, OnlyBy
        <5>2. db'["floor"] = c.command.to /\ k.said = c.command.to
          <6>1. Commit(o, "floor", c.command.to, c.command.to)
            BY <5>1 DEF SetFloor
          <6>2. "floor" \in Tables
            BY DEF Tables
          <6> QED
            BY <3>2, <6>1, <6>2, CommitSays
        <5>3. c.command.is = "set floor"
          BY <3>2, <4>3, WhoWrites DEF Due, WritesOf
        <5>4. table = "floor" /\ action = "set floor"
          BY ZenonT(60), <1>2, <3>2, <3>6, <4>3, WrittenBy
        <5>5. Owes(k, action, db'[table])
          BY ZenonT(60), <3>3, <4>1, <5>2, <5>3, <5>4 DEF Owes, Detail
        <5> QED
          BY <4>2, <5>5 DEF SettingTold
      <4>4. CASE Due(o) = "set policy"
        <5> DEFINE new == Changed(c.seen.policy, c.command)
        <5>1. SetPolicy(o)
          BY <2>7, <4>4, OnlyBy
        <5>2. Commit(o, "policy", new, new)
          BY <5>1 DEF SetPolicy
        <5> HIDE DEF new
        <5>3. db'["policy"] = new
          <6>1. "policy" \in Tables
            BY DEF Tables
          <6> QED
            BY <3>2, <5>2, <6>1, CommitSays
        <5>4. c.command.is = "policy"
          <6>1. c.command.is # "set policy"
            BY <3>2, Scripts DEF IsCommand, Kinds
          <6> QED
            BY <3>2, <4>4, <6>1, WhoWrites DEF Due, WritesOf
        <5>5. table = "policy" /\ action = "policy"
          BY <1>2, <3>2, <3>6, <4>4, WrittenBy
        <5>6. Detail(k) = new
          BY <3>2, <3>3, <5>4 DEF Detail, new
        <5>7. Owes(k, action, db'[table])
          BY ZenonT(60), <3>3, <4>1, <4>4, <5>3, <5>4, <5>5, <5>6 DEF Owes
        <5> QED
          BY <4>2, <5>7 DEF SettingTold
      <4>5. Due(o) \in {"set floor", "set policy"}
        BY <1>2, <3>2, <3>6, WrittenBy
      <4> QED
        BY <4>3, <4>4, <4>5
    <3> QED
      BY <3>5, <3>6
  <2> QED
    BY ZenonT(60), <1>5, <2>2, <2>3, <2>4, <2>5, <2>6, <2>7 DEF Done
<1> QED
  BY <1>1, <1>4, <1>5, Steps

(* All of it: the tally, what is said, and the two settings.               *)
TrailInv ==
    /\ Shape /\ Tally /\ SaidIsStored
    /\ SettingTold("floor", "set floor", Stored.floor)
    /\ SettingTold("policy", "policy", Stored.policy)

(* It holds at first.                                                      *)
LEMMA TrailInvAtFirst == ASSUME Init PROVE TrailInv
<1>1. \A o \in Operators : ~Busy(o)
  BY DEF Init, Busy
<1>2. DOMAIN trail = {} /\ DOMAIN commits = {} /\ begun = 0
  BY DEF Init
<1>3. db["floor"] = Stored.floor /\ db["policy"] = Stored.policy
  BY DEF Init
<1>4. Tally
  <2>1. \A id \in 1..begun : FALSE
    BY <1>2
  <2> QED
    BY <1>1, <1>2, <2>1 DEF Tally
<1>5. SaidIsStored
  BY <1>1, <1>2 DEF SaidIsStored
<1>6. /\ SettingTold("floor", "set floor", Stored.floor)
      /\ SettingTold("policy", "policy", Stored.policy)
  BY <1>3 DEF SettingTold
<1> QED
  BY <1>4, <1>5, <1>6, FirstShape DEF TrailInv

(* It is kept by every step.                                               *)
LEMMA TrailInvHolds == ASSUME TrailInv, [Next]_vars PROVE TrailInv'
<1>1. /\ Shape /\ Tally /\ SaidIsStored
      /\ SettingTold("floor", "set floor", Stored.floor)
      /\ SettingTold("policy", "policy", Stored.policy)
  BY DEF TrailInv
<1>2. Shape' /\ Tally' /\ SaidIsStored'
  BY <1>1, ShapeHolds, TallyHolds, SaidHolds
<1>3. SettingTold("floor", "set floor", Stored.floor)'
  BY <1>1, SettingHolds
<1>4. SettingTold("policy", "policy", Stored.policy)'
  BY <1>1, SettingHolds
<1> QED
  BY <1>2, <1>3, <1>4 DEF TrailInv

(* A set whose elements are all equal has one at most.                     *)
LEMMA AtMostOne ==
    ASSUME NEW S, \A i, j \in S : i = j
    PROVE  Cardinality(S) <= 1
<1>1. CASE S = {}
  <2>1. Cardinality(S) = 0
    BY <1>1, FS_EmptySet
  <2> QED
    BY <2>1
<1>2. CASE S # {}
  <2>1. PICK x : S = {x}
    BY <1>2
  <2>2. Cardinality(S) = 1
    BY <2>1, FS_Singleton
  <2> QED
    BY <2>2
<1> QED
  BY <1>1, <1>2

(* It says what TrailTellsTheRace does.                                    *)
LEMMA TrailInvTells == ASSUME TrailInv PROVE TrailTellsTheRace
<1> DEFINE by(id) == {i \in DOMAIN trail : trail[i].by = id}
           wrote(id) == {k \in DOMAIN commits : commits[k].by = id}
           told(values) == {trail[i].detail : i \in {j \in DOMAIN trail : trail[j].action \in values}}
<1>1. Shape /\ Tally /\ SaidIsStored
  BY DEF TrailInv
<1>2. \A id : (RowOf(trail, id) <=> by(id) # {}) /\ (RowOf(commits, id) <=> wrote(id) # {})
  BY DEF RowOf
<1>3. \A id : RunningNow(id) => id \in Running
  BY DEF RunningNow, Running
<1>4. ASSUME NEW id \in 1..begun
      PROVE  /\ Cardinality(by(id)) <= 1
             /\ wrote(id) = {} => by(id) = {}
             /\ wrote(id) # {} /\ id \notin Running \cup killed => by(id) # {}
  <2>1. \A i, j \in by(id) : i = j
    BY <1>1 DEF Tally
  <2>2. Cardinality(by(id)) <= 1
    BY <2>1, AtMostOne
  <2>3. RowOf(trail, id) => RowOf(commits, id)
    BY <1>1 DEF Tally, RowOf
  <2>4. RowOf(commits, id) => RowOf(trail, id) \/ id \in killed \/ RunningNow(id)
    BY <1>1 DEF Tally
  <2> QED
    BY <1>2, <1>3, <2>2, <2>3, <2>4
<1>5. ASSUME NEW values \in SUBSET Telling, NEW table, \A a \in values : TableOf(a) = table
      PROVE  told(values) \subseteq Range(db[table])
  BY <1>1, <1>5 DEF SaidIsStored
<1>6. /\ told({"start", "stop"}) \subseteq Range(db["sessions"])
      /\ told({"manual add"}) \subseteq Range(db["manual"])
      /\ told({"declare"}) \subseteq Range(db["declared"])
      /\ told({"publish"}) \subseteq Range(db["revisions"])
  <2>1. /\ TableOf("start") = "sessions" /\ TableOf("stop") = "sessions"
        /\ TableOf("manual add") = "manual" /\ TableOf("declare") = "declared"
        /\ TableOf("publish") = "revisions"
    BY DEF TableOf
  <2>2. /\ {"start", "stop"} \in SUBSET Telling /\ {"manual add"} \in SUBSET Telling
        /\ {"declare"} \in SUBSET Telling /\ {"publish"} \in SUBSET Telling
    BY DEF Telling
  <2> HIDE DEF told
  <2>3. told({"start", "stop"}) \subseteq Range(db["sessions"])
    BY <1>5, <2>1, <2>2
  <2>4. told({"manual add"}) \subseteq Range(db["manual"])
    BY <1>5, <2>1, <2>2
  <2>5. told({"declare"}) \subseteq Range(db["declared"])
    BY <1>5, <2>1, <2>2
  <2>6. told({"publish"}) \subseteq Range(db["revisions"])
    BY <1>5, <2>1, <2>2
  <2> QED
    BY <2>3, <2>4, <2>5, <2>6
<1>7. ASSUME Running = {}, killed = {}, NEW table, NEW action, NEW first,
             SettingTold(table, action, first)
      PROVE  db[table] \in told({action}) \cup {first}
  <2>1. \A o \in Operators : ~Busy(o)
    BY <1>7 DEF Running
  <2>2. db[table] = first \/ TellsOf(trail, action, db[table])
    BY <1>7, <2>1 DEF SettingTold
  <2> QED
    BY <2>2 DEF TellsOf
<1>8. Running = {} /\ killed = {} =>
        /\ db["floor"] \in told({"set floor"}) \cup {Stored.floor}
        /\ db["policy"] \in told({"policy"}) \cup {Stored.policy}
  <2> HIDE DEF told
  <2> QED
    BY <1>7 DEF TrailInv
<1> QED
  BY <1>4, <1>6, <1>8 DEF TrailTellsTheRace

(* The trail has one row at most for a command, none for one that changed  *)
(* nothing, and one for each that changed something and was neither killed *)
(* nor still runs; what it tells of starts, stops, manual entries,         *)
(* declarations and revisions is what is stored; and when nothing runs and *)
(* nothing was killed, the device floor and the policy are what it says or *)
(* what they were at first. For any number of operators and commands and   *)
(* any interleaving of their statements.                                   *)
THEOREM TrailIsTrue == Spec => []TrailTellsTheRace
<1>1. Init => TrailInv
  BY TrailInvAtFirst
<1>2. TrailInv /\ [Next]_vars => TrailInv'
  BY TrailInvHolds
<1>3. TrailInv => TrailTellsTheRace
  BY TrailInvTells
<1> QED
  BY <1>1, <1>2, <1>3, PTL DEF Spec

(* A sheet: lines in their order, no two of one bib.                       *)
IsSheet(s) ==
    \E n \in Nat :
        /\ DOMAIN s = 1..n /\ s = [i \in 1..n |-> s[i]]
        /\ \A i \in 1..n : Printed(s[i])
        /\ \A i, j \in 1..n : i < j => Listed(s[i], s[j])

(* A line and its bib.                                                     *)
LEMMA WithItsBib ==
    ASSUME NEW e, NEW b
    PROVE  Having(e, "bib", b).bib = b /\ "bib" \in DOMAIN Having(e, "bib", b)
  BY DEF Having

(* ... and its place.                                                      *)
LEMMA WithItsPlace ==
    ASSUME NEW e, "bib" \in DOMAIN e, NEW p
    PROVE  Having(e, "place", p).place = p /\ Having(e, "place", p).bib = e.bib
  BY DEF Having

(* score: everybody of a roster on a sheet.                                *)
LEMMA ScoreIsASheet ==
    ASSUME NEW input, IsRoster(input.roster)
    PROVE  IsSheet(Score(input))
<1> DEFINE bibs == input.roster
           runners == DOMAIN bibs
           entry(p) == Having(EntryOf(input, p), "bib", bibs[p])
           entries == {entry(p) : p \in runners}
           places == Places(entries)
           line(e) == Having(e, "place", places[e])
           lines == {line(e) : e \in entries}
           R == Pairs(lines, Listed)
<1>1. Score(input) = InOrder(lines, R)
  BY Zenon DEF Score
<1>2. IsFiniteSet(runners) /\ \A p \in runners : bibs[p] \in Int
  BY DEF IsRoster, Range
<1>3. \A p, q \in runners : bibs[p] = bibs[q] => p = q
  BY DEF IsRoster, IsInjective
<1>4. \A p \in runners : entry(p).bib = bibs[p] /\ "bib" \in DOMAIN entry(p)
  <2>1. ASSUME NEW p \in runners
        PROVE  entry(p).bib = bibs[p] /\ "bib" \in DOMAIN entry(p)
    <3> DEFINE e == EntryOf(input, p)
               b == bibs[p]
    <3> HIDE DEF e, b
    <3>1. Having(e, "bib", b).bib = b /\ "bib" \in DOMAIN Having(e, "bib", b)
      BY WithItsBib
    <3> QED
      BY <3>1 DEF e, b
  <2> QED
    BY <2>1
<1> HIDE DEF entry, bibs
<1>5. IsFiniteSet(entries)
  <2> DEFINE h == [p \in runners |-> entry(p)]
  <2>1. DOMAIN h = runners /\ entries = {h[p] : p \in DOMAIN h}
    OBVIOUS
  <2> HIDE DEF h
  <2> QED
    BY <1>2, <2>1, ImageFinite
<1>6. \A e \in entries : places[e] \in Nat \/ places[e] = None
  <2> HIDE DEF entries
  <2> QED
    BY <1>5, PlacesAre
<1>7. \A e \in entries : e.bib \in Int /\ "bib" \in DOMAIN e
  BY <1>2, <1>4
<1>8. \A e, f \in entries : e.bib = f.bib => e = f
  BY <1>3, <1>4
<1> HIDE DEF places, entries
<1>9. \A e \in entries : line(e).bib = e.bib /\ line(e).place = places[e]
  <2>1. ASSUME NEW e \in entries
        PROVE  line(e).bib = e.bib /\ line(e).place = places[e]
    <3>1. "bib" \in DOMAIN e
      BY <1>7
    <3> DEFINE place == places[e]
    <3> HIDE DEF place
    <3>2. Having(e, "place", place).place = place /\ Having(e, "place", place).bib = e.bib
      BY <3>1, WithItsPlace
    <3> QED
      BY <3>2 DEF place
  <2> QED
    BY <2>1
<1> HIDE DEF line
<1>10. IsFiniteSet(lines)
  <2> DEFINE h == [e \in entries |-> line(e)]
  <2>1. DOMAIN h = entries /\ lines = {h[e] : e \in DOMAIN h}
    OBVIOUS
  <2> HIDE DEF h
  <2> QED
    BY <1>5, <2>1, ImageFinite
<1>11. \A l \in lines : Printed(l)
  BY <1>6, <1>7, <1>9 DEF Printed
<1>12. \A l, m \in lines : l # m => l.bib # m.bib
  BY <1>8, <1>9
<1> HIDE DEF lines
<1>13. \A l, m \in lines : <<l, m>> \in R <=> Listed(l, m)
  BY DEF Pairs
<1>14. Orders(lines, R)
  BY <1>11, <1>12, <1>13, ListedOrders DEF Orders
<1> DEFINE s == InOrder(lines, R)
           n == Cardinality(lines)
<1>15. /\ n \in Nat /\ s \in [1..n -> lines]
       /\ \A i, j \in 1..n : i < j => <<s[i], s[j]>> \in R
  <2> HIDE DEF R
  <2> QED
    BY <1>10, <1>14, InOrderIs, Zenon
<1> HIDE DEF s, n
<1>16. IsSheet(s)
  <2>1. DOMAIN s = 1..n /\ s = [i \in 1..n |-> s[i]] /\ \A i \in 1..n : s[i] \in lines
    BY <1>15
  <2>2. \A i, j \in 1..n : i < j => Listed(s[i], s[j])
    BY <1>13, <1>15, <2>1
  <2> QED
    BY <1>11, <1>15, <2>1, <2>2 DEF IsSheet
<1> QED
  BY <1>1, <1>16 DEF s

(* What is compared of a line.                                             *)
OfLine(e) == [bib |-> e.bib, status |-> e.status, time |-> e.time, place |-> e.place]

(* A sheet is one still, as far as its digest covers it.                   *)
LEMMA DigestIsASheet ==
    ASSUME NEW s, IsSheet(s)
    PROVE  IsSheet(Digest(s)) /\ \A i \in DOMAIN Digest(s) : Digest(s)[i] = OfLine(Digest(s)[i])
<1>1. PICK n \in Nat :
        /\ DOMAIN s = 1..n /\ s = [i \in 1..n |-> s[i]]
        /\ \A i \in 1..n : Printed(s[i])
        /\ \A i, j \in 1..n : i < j => Listed(s[i], s[j])
  BY DEF IsSheet
<1> DEFINE d == Digest(s)
<1>2. d = [i \in 1..n |-> OfLine(s[i])]
  BY <1>1 DEF Digest, OfLine
<1> HIDE DEF d
<1>3. \A i \in 1..n : d[i] = OfLine(s[i])
  BY <1>2
<1>4. \A e : OfLine(e).bib = e.bib /\ OfLine(e).status = e.status /\ OfLine(e).time = e.time /\ OfLine(e).place = e.place
  BY DEF OfLine
<1>5. \A i \in 1..n : Printed(d[i]) /\ d[i] = OfLine(d[i])
  <2>1. ASSUME NEW i \in 1..n
        PROVE  Printed(d[i]) /\ d[i] = OfLine(d[i])
    <3>1. Printed(d[i])
      BY <1>1, <1>3, <1>4 DEF Printed
    <3>2. d[i] = OfLine(d[i])
      <4>1. OfLine(s[i]) = OfLine(OfLine(s[i]))
        BY <1>4 DEF OfLine
      <4> QED
        BY <1>3, <4>1
    <3> QED
      BY <3>1, <3>2
  <2> QED
    BY <2>1
<1>6. \A a, b : Listed(a, b) <=> Listed(OfLine(a), OfLine(b))
  BY <1>4, ListedIs DEF PlaceKey
<1>7. \A i, j \in 1..n : i < j => Listed(d[i], d[j])
  BY <1>1, <1>3, <1>6
<1>8. DOMAIN d = 1..n /\ d = [i \in 1..n |-> d[i]]
  BY <1>2
<1> QED
  BY <1>5, <1>7, <1>8 DEF IsSheet, d

-----------------------------------------------------------------------------
(* Two sheets, and what they tell apart.                                   *)

(* A sheet of nothing but what is compared.                                *)
IsDigest(s) == IsSheet(s) /\ \A i \in DOMAIN s : s[i] = OfLine(s[i])

(* Who is told the same of everybody has the same lines.                   *)
LEMMA NoDiff ==
    ASSUME NEW a, NEW b, IsDigest(a), IsDigest(b), Diff(a, b) = {}
    PROVE  Range(a) = Range(b)
<1> DEFINE bibs == {e.bib : e \in Range(a) \cup Range(b)}
           told(e) == [status |-> e.status, place |-> e.place, time |-> e.time]
           D == {x \in bibs : Told(a, x) # Told(b, x)}
           row(x) == [bib |-> x, change |-> Change(Told(a, x), Told(b, x)),
                      from |-> Told(a, x), to |-> Told(b, x)]
<1>1. D = {}
  <2>1. Diff(a, b) = {row(x) : x \in D}
    BY DEF Diff
  <2> HIDE DEF D, row
  <2> QED
    BY <2>1
<1>2. \A x \in bibs : Told(a, x) = Told(b, x)
  BY <1>1
<1>3. \A s, x : Told(s, x) = {told(e) : e \in {f \in Range(s) : f.bib = x}}
  BY DEF Told
<1> HIDE DEF D, bibs, told
<1>4. \A s : IsDigest(s) => \A e \in Range(s) : e = OfLine(e)
  BY DEF IsDigest, Range
<1>5. \A e, f : e.bib = f.bib /\ told(e) = told(f) => OfLine(e) = OfLine(f)
  <2>1. ASSUME NEW e, NEW f, e.bib = f.bib, told(e) = told(f)
        PROVE  OfLine(e) = OfLine(f)
    <3>1. told(e).status = e.status /\ told(e).place = e.place /\ told(e).time = e.time
      BY DEF told
    <3>2. told(f).status = f.status /\ told(f).place = f.place /\ told(f).time = f.time
      BY DEF told
    <3> QED
      BY <2>1, <3>1, <3>2 DEF OfLine
  <2> QED
    BY <2>1
<1>6. ASSUME NEW s, NEW t, IsDigest(s), IsDigest(t), Range(s) \subseteq Range(a) \cup Range(b),
             \A x \in bibs : Told(s, x) = Told(t, x)
      PROVE  Range(s) \subseteq Range(t)
  <2>1. ASSUME NEW e \in Range(s)
        PROVE  e \in Range(t)
    <3>1. e.bib \in bibs
      BY <1>6 DEF bibs
    <3>2. told(e) \in Told(s, e.bib)
      BY <1>3
    <3>3. told(e) \in Told(t, e.bib)
      BY <1>6, <3>1, <3>2
    <3>4. PICK f \in Range(t) : f.bib = e.bib /\ told(f) = told(e)
      BY <1>3, <3>3
    <3>5. OfLine(e) = OfLine(f)
      BY <1>5, <3>4
    <3> QED
      BY <1>4, <1>6, <3>4, <3>5
  <2> QED
    BY <2>1
<1>7. Range(a) \subseteq Range(b)
  BY <1>2, <1>6
<1>8. Range(b) \subseteq Range(a)
  BY <1>2, <1>6
<1> QED
  BY <1>7, <1>8

(* Two sheets with the same lines are the same sheet.                      *)
LEMMA OneOrder ==
    ASSUME NEW a, NEW b, IsSheet(a), IsSheet(b), Range(a) = Range(b)
    PROVE  a = b
<1>1. PICK n \in Nat :
        /\ DOMAIN a = 1..n /\ a = [i \in 1..n |-> a[i]]
        /\ \A i \in 1..n : Printed(a[i])
        /\ \A i, j \in 1..n : i < j => Listed(a[i], a[j])
  BY DEF IsSheet
<1>2. PICK m \in Nat :
        /\ DOMAIN b = 1..m /\ b = [i \in 1..m |-> b[i]]
        /\ \A i \in 1..m : Printed(b[i])
        /\ \A i, j \in 1..m : i < j => Listed(b[i], b[j])
  BY DEF IsSheet
<1>3. \A x, y : Printed(x) /\ Printed(y) => ~(Listed(x, y) /\ Listed(y, x)) /\ ~Listed(x, x)
  <2>1. ASSUME NEW x, NEW y, Printed(x), Printed(y)
        PROVE  ~(Listed(x, y) /\ Listed(y, x)) /\ ~Listed(x, x)
    BY <2>1, ListedOrders
  <2> QED
    BY <2>1
<1>4. (\A i \in 1..n : \E j \in 1..m : a[i] = b[j]) /\ (\A j \in 1..m : \E i \in 1..n : b[j] = a[i])
  <2>1. DOMAIN a = 1..n /\ DOMAIN b = 1..m
    BY <1>1, <1>2
  <2>2. (\A i \in 1..n : a[i] \in Range(a)) /\ (\A j \in 1..m : b[j] \in Range(b))
    BY <2>1 DEF Range
  <2>3. (\A x \in Range(b) : \E j \in 1..m : x = b[j]) /\ (\A x \in Range(a) : \E i \in 1..n : x = a[i])
    BY <2>1 DEF Range
  <2> QED
    BY <2>2, <2>3
<1> DEFINE Other == {i \in Nat \ {0} : i <= n /\ i <= m /\ a[i] # b[i]}
<1>5. Other = {}
  <2>1. SUFFICES ASSUME Other # {} PROVE FALSE
    OBVIOUS
  <2>2. PICK i \in Other : \A y \in Other : i <= y
    <3>1. Other \in SUBSET Nat
      OBVIOUS
    <3> HIDE DEF Other
    <3> QED
      BY <2>1, <3>1, LeastOf
  <2>3. i \in 1..n /\ i \in 1..m /\ a[i] # b[i]
    OBVIOUS
  <2>4. \A k \in 1..(i - 1) : k \in 1..n /\ k \in 1..m /\ a[k] = b[k]
    <3>1. ASSUME NEW k \in 1..(i - 1)
          PROVE  k \in 1..n /\ k \in 1..m /\ a[k] = b[k]
      <4>1. k \in 1..n /\ k \in 1..m /\ k \in Nat \ {0} /\ k < i /\ k <= n /\ k <= m
        BY <2>3
      <4>2. k \notin Other
        <5> HIDE DEF Other
        <5> QED
          BY <2>2, <2>3, <4>1
      <4> QED
        BY <4>1, <4>2
    <3> QED
      BY <3>1
  <2>5. PICK j \in 1..m : a[i] = b[j]
    BY <1>4, <2>3
  <2>6. i < j
    <3>1. ~(j < i)
      <4>1. SUFFICES ASSUME j < i PROVE FALSE
        OBVIOUS
      <4>2. j \in 1..(i - 1) /\ j \in 1..n
        BY <2>3, <4>1
      <4>3. Listed(a[j], a[i]) /\ a[j] = a[i]
        BY <1>1, <2>3, <2>4, <2>5, <4>1, <4>2
      <4> QED
        BY <1>1, <1>3, <2>3, <4>2, <4>3
    <3>2. j # i
      BY <2>3, <2>5
    <3> QED
      BY <2>3, <3>1, <3>2
  <2>7. PICK k \in 1..n : b[i] = a[k]
    BY <1>4, <2>3
  <2>8. i < k
    <3>1. ~(k < i)
      <4>1. SUFFICES ASSUME k < i PROVE FALSE
        OBVIOUS
      <4>2. k \in 1..(i - 1) /\ k \in 1..m
        BY <2>3, <4>1
      <4>3. Listed(b[k], b[i]) /\ b[k] = b[i]
        BY <1>2, <2>3, <2>4, <2>7, <4>1, <4>2
      <4> QED
        BY <1>2, <1>3, <2>3, <4>2, <4>3
    <3>2. k # i
      BY <2>3, <2>7
    <3> QED
      BY <2>3, <3>1, <3>2
  <2>9. Listed(b[i], a[i])
    BY <1>2, <2>3, <2>5, <2>6
  <2>10. Listed(a[i], b[i])
    BY <1>1, <2>3, <2>7, <2>8
  <2> QED
    BY <1>1, <1>2, <1>3, <2>3, <2>9, <2>10
<1>6. \A i \in 1..n : i \in 1..m => a[i] = b[i]
  <2>1. ASSUME NEW i \in 1..n, i \in 1..m, a[i] # b[i]
        PROVE  FALSE
    <3>1. i \in Nat \ {0} /\ i <= n /\ i <= m
      BY <2>1
    <3>2. i \in Other
      BY <2>1, <3>1
    <3> QED
      BY <1>5, <3>2
  <2> QED
    BY <2>1
<1> HIDE DEF Other
<1>7. n = m
  <2>1. ~(n < m)
    <3>1. SUFFICES ASSUME n < m PROVE FALSE
      OBVIOUS
    <3>2. n + 1 \in 1..m
      BY <3>1
    <3>3. PICK i \in 1..n : b[n + 1] = a[i]
      BY <1>4, <3>2
    <3>4. i \in 1..m /\ i < n + 1
      BY <3>1
    <3>5. Listed(b[i], b[n + 1]) /\ b[i] = b[n + 1]
      BY <1>2, <1>6, <3>2, <3>3, <3>4
    <3> QED
      BY <1>2, <1>3, <3>4, <3>2, <3>5
  <2>2. ~(m < n)
    <3>1. SUFFICES ASSUME m < n PROVE FALSE
      OBVIOUS
    <3>2. m + 1 \in 1..n
      BY <3>1
    <3>3. PICK i \in 1..m : a[m + 1] = b[i]
      BY <1>4, <3>2
    <3>4. i \in 1..n /\ i < m + 1
      BY <3>1
    <3>5. Listed(a[i], a[m + 1]) /\ a[i] = a[m + 1]
      BY <1>1, <1>6, <3>2, <3>3, <3>4
    <3> QED
      BY <1>1, <1>3, <3>4, <3>2, <3>5
  <2> QED
    BY <2>1, <2>2
<1> QED
  BY <1>1, <1>2, <1>6, <1>7

(* Two sheets of which the diff names nobody are one.                      *)
LEMMA DiffTells ==
    ASSUME NEW a, NEW b, IsDigest(a), IsDigest(b), a # b
    PROVE  Diff(a, b) # {}
  BY NoDiff, OneOrder DEF IsDigest

-----------------------------------------------------------------------------
(* One history: what a publish has found, and what it then adds.           *)

(* What the results are made of.                                           *)
Same(a, b) ==
    /\ a.course = b.course /\ a.roster = b.roster /\ a.chips = b.chips
    /\ a.antennas = b.antennas /\ a.policy = b.policy /\ a.mode = b.mode
    /\ a.sessions = b.sessions /\ a.reads = b.reads /\ a.manual = b.manual
    /\ a.declared = b.declared

(* The sheet tells no more than that.                                      *)
LEMMA SameSheet == ASSUME NEW a, NEW b, Same(a, b) PROVE Sheet(a) = Sheet(b)
  BY DEF Same, Sheet, Scoreboard

(* The sheet of whoever is entered.                                        *)
LEMMA SheetIsADigest ==
    ASSUME NEW seen, seen.roster \subseteq DOMAIN Setup.bibs
    PROVE  IsDigest(Sheet(seen))
<1> DEFINE roster == [p \in seen.roster |-> Setup.bibs[p]]
<1>1. IsRoster(Setup.bibs)
  BY Entrants
<1>2. IsRoster(roster)
  <2>1. IsFiniteSet(DOMAIN Setup.bibs) /\ \A p \in DOMAIN Setup.bibs : Setup.bibs[p] \in Int
    BY <1>1 DEF IsRoster, Range
  <2>2. IsFiniteSet(seen.roster)
    BY <2>1, FS_Subset
  <2>3. DOMAIN roster = seen.roster /\ \A p \in seen.roster : roster[p] = Setup.bibs[p]
    OBVIOUS
  <2> HIDE DEF roster
  <2>4. Range(roster) \subseteq Int
    BY <2>1, <2>3 DEF Range
  <2>5. IsInjective(roster)
    BY <1>1, <2>3 DEF IsRoster, IsInjective
  <2> QED
    BY <2>2, <2>3, <2>4, <2>5 DEF IsRoster
<1>3. IsSheet(Scoreboard(seen))
  <2> DEFINE gun == GunIn(seen.sessions)
             derived == Derive([reads |-> seen.reads, policy |-> seen.policy, chips |-> seen.chips,
                           antennas |-> seen.antennas, manual |-> seen.manual, gun |-> gun])
             input == [events |-> Range(derived.events), roster |-> roster, course |-> seen.course,
                       mode |-> seen.mode, declarations |-> seen.declared, gun |-> gun,
                       handsFirst |-> FALSE]
  <2>1. Scoreboard(seen) = Score(input)
    BY DEF Scoreboard
  <2> HIDE DEF derived, gun, roster
  <2>2. input.roster = roster
    OBVIOUS
  <2> HIDE DEF input
  <2>3. IsSheet(Score(input))
    BY <1>2, <2>2, ScoreIsASheet
  <2> QED
    BY <2>1, <2>3
<1>4. IsSheet(Digest(Scoreboard(seen)))
        /\ \A i \in DOMAIN Digest(Scoreboard(seen)) :
              Digest(Scoreboard(seen))[i] = OfLine(Digest(Scoreboard(seen))[i])
  BY <1>3, DigestIsASheet
<1> QED
  BY <1>4 DEF Sheet, IsDigest

(* The revisions there are: in order, each another than the one before.    *)
HistoryOf(revisions) ==
    \A i \in DOMAIN revisions :
        /\ revisions[i].number = i
        /\ IsDigest(revisions[i].sheet)
        /\ i > 1 /\ ~revisions[i].allowUnchanged => revisions[i - 1].sheet # revisions[i].sheet

(* The next number is one more than there are, and the latest is the last. *)
LEMMA Numbered ==
    ASSUME NEW revisions, Listing(revisions), HistoryOf(revisions)
    PROVE  LET n == Len(revisions) IN
           /\ n \in Nat /\ DOMAIN revisions = 1..n
           /\ NextNumber(revisions) = n + 1
           /\ n > 0 => LatestSheet(revisions) = revisions[n].sheet
<1> DEFINE n == Len(revisions)
<1>1. n \in Nat /\ DOMAIN revisions = 1..n
  BY DEF Listing
<1>2. \A i \in 1..n : revisions[i].number = i
  BY <1>1 DEF HistoryOf
<1>3. \A r \in Range(revisions) : \E i \in 1..n : r = revisions[i] /\ r.number = i
  BY <1>1, <1>2 DEF Range
<1>4. \A i \in 1..n : revisions[i] \in Range(revisions)
  BY <1>1 DEF Range
<1> HIDE DEF n
<1>5. {0} \cup {r.number : r \in Range(revisions)} = 0..n
  <2>1. \A x \in {0} \cup {r.number : r \in Range(revisions)} : x \in 0..n
    BY <1>1, <1>3
  <2>2. ASSUME NEW x \in 0..n
        PROVE  x \in {0} \cup {r.number : r \in Range(revisions)}
    <3>1. CASE x = 0
      BY <3>1
    <3>2. CASE x # 0
      <4>1. x \in 1..n
        BY <3>2
      <4>2. revisions[x] \in Range(revisions) /\ revisions[x].number = x
        BY <1>2, <1>4, <4>1
      <4> QED
        BY <4>2
    <3> QED
      BY <3>1, <3>2
  <2> QED
    BY <2>1, <2>2
<1>6. NextNumber(revisions) = n + 1
  <2>1. n \in 0..n /\ \A y \in 0..n : n >= y
    BY <1>1
  <2>2. Max(0..n) \in 0..n /\ \A y \in 0..n : Max(0..n) >= y
    BY <2>1 DEF Max
  <2>3. Max(0..n) = n
    BY <1>1, <2>1, <2>2
  <2>4. NextNumber(revisions) = 1 + Max(0..n)
    BY <1>5 DEF NextNumber
  <2> QED
    BY <1>1, <2>3, <2>4
<1>7. ASSUME n > 0
      PROVE  LatestSheet(revisions) = revisions[n].sheet
  <2> DEFINE latest == {r \in Range(revisions) : \A s \in Range(revisions) : s.number <= r.number}
  <2>1. n \in 1..n
    BY <1>1, <1>7
  <2>2. revisions[n] \in latest
    <3>1. revisions[n] \in Range(revisions) /\ revisions[n].number = n
      BY <1>2, <1>4, <2>1
    <3>2. \A s \in Range(revisions) : s.number <= n
      BY <1>1, <1>3
    <3> QED
      BY <3>1, <3>2
  <2>3. \A r \in latest : r = revisions[n]
    <3>1. ASSUME NEW r \in latest
          PROVE  r = revisions[n]
      <4>1. PICK i \in 1..n : r = revisions[i] /\ r.number = i
        BY <1>3
      <4>2. revisions[n].number <= r.number
        BY <1>4, <2>1
      <4>3. n <= i
        BY <1>2, <2>1, <4>1, <4>2
      <4>4. i = n
        BY <1>1, <4>3
      <4> QED
        BY <4>1, <4>4
    <3> QED
      BY <3>1
  <2>4. LatestSheet(revisions) = IF latest = {} THEN None ELSE (CHOOSE r \in latest : TRUE).sheet
    BY DEF LatestSheet
  <2> HIDE DEF latest
  <2>5. (CHOOSE r \in latest : TRUE) = revisions[n]
    <3>1. (CHOOSE r \in latest : TRUE) \in latest
      BY <2>2
    <3> QED
      BY <2>3, <3>1
  <2> QED
    BY <2>2, <2>4, <2>5
<1> QED
  BY <1>1, <1>6, <1>7 DEF n

(* What a publish about to write says is not what was said last.           *)
SaysMore(c, revisions) ==
    \/ c.command.allowUnchanged
    \/ c.seen["number"] # Len(revisions) + 1
    \/ Len(revisions) = 0
    \/ revisions[Len(revisions)].sheet # Sheet(c.seen)

(* A publish has what it has looked for: the runners it found have bibs,   *)
(* the number it took was the next, at the latest, and what it is about to *)
(* say is new, unless another has taken that number since.                 *)
Ready(c, revisions) ==
    /\ \A j \in 1..13 : j < c.step => Script(c.command)[j] \in DOMAIN c.seen
    /\ c.step > 3 => c.seen["roster"] \subseteq DOMAIN Setup.bibs
    /\ c.step > 12 => c.seen["number"] \in 1..(Len(revisions) + 1)
    /\ c.step = 14 => SaysMore(c, revisions)

(* What is found when another has been added is what was found.            *)
LEMMA SeenBeside ==
    ASSUME NEW f, NEW g, NEW x, NEW value, g = Having(f, x, value),
           {"course", "roster", "chips", "antennas", "policy", "mode", "sessions", "reads",
            "manual", "declared"} \subseteq DOMAIN f \ {x}
    PROVE  Sheet(g) = Sheet(f)
<1> DEFINE h == Having(f, x, value)
<1>1. DOMAIN h = DOMAIN f \cup {x} /\ \A y \in DOMAIN f : y # x => h[y] = f[y]
  BY DEF Having
<1> HIDE DEF h
<1>2. g = h
  BY DEF h
<1>3. \A y \in DOMAIN f \ {x} : y \in DOMAIN g /\ g[y] = f[y]
  BY <1>1, <1>2
<1>4. Same(g, f)
  BY <1>3 DEF Same
<1> QED
  BY <1>4, SameSheet

(* One more look.                                                          *)
LEMMA ReadyOn ==
    ASSUME NEW c, NEW k, IsCommand(c), c.command.is = "publish", Further(c, k),
           Script(c.command)[c.step] \in Looks,
           NEW revisions, Listing(revisions), HistoryOf(revisions), Ready(c, revisions),
           NEW found, k.seen = Having(c.seen, Script(c.command)[c.step], found),
           Script(c.command)[c.step] = "roster" => found \subseteq DOMAIN Setup.bibs,
           Script(c.command)[c.step] = "number" => found = NextNumber(revisions),
           Script(c.command)[c.step] = "latest" =>
                found = LatestSheet(revisions) /\ ~NothingNew(c.command, found, c.seen)
    PROVE  Ready(k, revisions)
<1> DEFINE q == Script(c.command)
           s == c.step
           n == Len(revisions)
           a == c.seen
           b == k.seen
<1>1. IsPublishScript(q)
  BY Scripts, Fifteen DEF IsCommand
<1> HIDE DEF q
<1>2. \A i, j \in 1..15 : q[i] = q[j] => i = j
  BY <1>1, Placed
<1>3. s \in Nat /\ k.step = s + 1 /\ k.command = c.command
  BY DEF Further
<1>4. s \in 1..15 /\ q[s] \in Looks
  BY <1>1 DEF IsPublishScript, IsCommand, q
<1>5. s \in 1..13
  <2>1. q[14] = "publish" /\ q[15] = "audit"
    BY <1>1 DEF IsPublishScript
  <2>2. q[14] \notin Looks /\ q[15] \notin Looks
    BY <2>1, LooksAre
  <2>3. s # 14 /\ s # 15
    BY <1>4, <2>2
  <2> HIDE DEF s
  <2> QED
    BY <1>4, <2>3
<1>6. b[q[s]] = found /\ DOMAIN b = DOMAIN a \cup {q[s]} /\ \A y \in DOMAIN a : y # q[s] => b[y] = a[y]
  <2> DEFINE what == q[s]
  <2>1. b = Having(a, what, found)
    BY DEF q
  <2> HIDE DEF what, a, b
  <2>2. b[what] = found /\ DOMAIN b = DOMAIN a \cup {what} /\ \A y \in DOMAIN a : y # what => b[y] = a[y]
    <3> DEFINE h == Having(a, what, found)
    <3>1. h[what] = found /\ DOMAIN h = DOMAIN a \cup {what} /\ \A y \in DOMAIN a : y # what => h[y] = a[y]
      BY DEF Having
    <3> HIDE DEF h
    <3>2. b = h
      BY <2>1 DEF h
    <3> QED
      BY <3>1, <3>2
  <2> QED
    BY <2>2 DEF what
<1>7. /\ \A j \in 1..13 : j < s => q[j] \in DOMAIN a
      /\ s > 3 => a["roster"] \subseteq DOMAIN Setup.bibs
      /\ s > 12 => a["number"] \in 1..(n + 1)
  BY DEF Ready, q
<1>8. q[3] = "roster" /\ q[12] = "number" /\ q[13] = "latest"
  BY <1>1 DEF IsPublishScript
<1>9. /\ q[s] = "roster" => found \subseteq DOMAIN Setup.bibs
      /\ q[s] = "number" => found = NextNumber(revisions)
      /\ q[s] = "latest" => found = LatestSheet(revisions) /\ ~NothingNew(c.command, found, a)
  BY DEF q
<1>10. n \in Nat /\ NextNumber(revisions) = n + 1 /\ (n > 0 => LatestSheet(revisions) = revisions[n].sheet)
  BY Numbered
<1>11. s = 13 => Sheet(b) = Sheet(a)
  <2>1. SUFFICES ASSUME s = 13 PROVE Sheet(b) = Sheet(a)
    OBVIOUS
  <2>2. \A j \in 2..11 : q[j] \in DOMAIN a /\ q[j] # q[s]
    <3>1. ASSUME NEW j \in 2..11
          PROVE  q[j] \in DOMAIN a /\ q[j] # q[s]
      <4>1. j \in 1..13 /\ j \in 1..15 /\ j < s /\ j # s
        BY <2>1
      <4> QED
        BY <1>2, <1>4, <1>7, <4>1
    <3> QED
      BY <3>1
  <2>3. /\ 2 \in 2..11 /\ 3 \in 2..11 /\ 4 \in 2..11 /\ 5 \in 2..11 /\ 6 \in 2..11
        /\ 7 \in 2..11 /\ 8 \in 2..11 /\ 9 \in 2..11 /\ 10 \in 2..11 /\ 11 \in 2..11
    OBVIOUS
  <2>4. \A j \in 2..11 : q[j] \in DOMAIN a \ {q[s]}
    BY <2>2
  <2>5. {"course", "roster", "chips", "antennas", "policy", "mode", "sessions", "reads",
         "manual", "declared"} \subseteq DOMAIN a \ {q[s]}
    <3> DEFINE D == DOMAIN a \ {q[s]}
    <3>1. \A j \in 2..11 : q[j] \in D
      BY <2>4
    <3> HIDE DEF D
    <3>2. /\ q[2] \in D /\ q[3] \in D /\ q[4] \in D /\ q[5] \in D /\ q[6] \in D
          /\ q[7] \in D /\ q[8] \in D /\ q[9] \in D /\ q[10] \in D /\ q[11] \in D
      BY <3>1, <2>3, Zenon
    <3>3. /\ q[2] = "course" /\ q[3] = "roster" /\ q[4] = "chips" /\ q[5] = "antennas"
          /\ q[6] = "policy" /\ q[7] = "mode" /\ q[8] = "sessions" /\ q[9] = "reads"
          /\ q[10] = "manual" /\ q[11] = "declared"
      BY <1>1 DEF IsPublishScript
    <3>4. {"course", "roster", "chips", "antennas", "policy", "mode", "sessions", "reads",
           "manual", "declared"} \subseteq D
      BY <3>2, <3>3
    <3> QED
      BY <3>4 DEF D
  <2>6. b = Having(a, q[s], found)
    BY DEF q
  <2> HIDE DEF a, b
  <2> QED
    BY <2>5, <2>6, SeenBeside
<1>12. s > 12 => s = 13
  BY <1>5
<1> HIDE DEF s, a, b, n
<1>13. ASSUME NEW j \in 1..13, j < s
       PROVE  q[j] \in DOMAIN b /\ b[q[j]] = a[q[j]]
  <2>1. q[j] # q[s]
    BY <1>2, <1>4, <1>13
  <2> QED
    BY <1>6, <1>7, <1>13, <2>1
<1>14. \A j \in 1..13 : j < s + 1 => q[j] \in DOMAIN b
  <2>1. ASSUME NEW j \in 1..13, j < s + 1
        PROVE  q[j] \in DOMAIN b
    <3>1. CASE j = s
      BY <1>6, <3>1
    <3>2. CASE j # s
      BY <1>3, <1>13, <2>1, <3>2
    <3> QED
      BY <3>1, <3>2
  <2> QED
    BY <2>1
<1>15. s + 1 > 3 => b["roster"] \subseteq DOMAIN Setup.bibs
  <2>1. CASE s = 3
    <3>1. b[q[s]] \subseteq DOMAIN Setup.bibs
      BY <1>6, <1>8, <1>9, <2>1
    <3> QED
      BY <1>8, <2>1, <3>1
  <2>2. CASE s > 3
    <3>1. b[q[3]] = a[q[3]]
      BY <1>13, <2>2
    <3> QED
      BY <1>7, <1>8, <2>2, <3>1
  <2> QED
    BY <1>3, <2>1, <2>2
<1>16. s + 1 > 12 => b["number"] \in 1..(n + 1)
  <2>1. CASE s = 12
    <3>1. b[q[s]] = n + 1
      BY <1>6, <1>8, <1>9, <1>10, <2>1
    <3>2. b["number"] = n + 1
      BY <1>8, <2>1, <3>1
    <3>3. n + 1 \in 1..(n + 1)
      BY <1>10
    <3> QED
      BY <3>2, <3>3
  <2>2. CASE s > 12
    <3>1. b[q[12]] = a[q[12]]
      BY <1>13, <2>2
    <3> QED
      BY <1>7, <1>8, <2>2, <3>1
  <2> QED
    BY <1>3, <2>1, <2>2
<1>17. ASSUME s + 1 = 14
       PROVE  SaysMore(k, revisions)
  <2>1. s = 13
    BY <1>3, <1>17
  <2>2. found = LatestSheet(revisions) /\ ~NothingNew(c.command, found, a)
    BY <1>8, <1>9, <2>1
  <2>3. found # Sheet(a) \/ c.command.allowUnchanged
    BY <2>2 DEF NothingNew
  <2>4. n = 0 \/ found = revisions[n].sheet
    BY <1>10, <2>2
  <2>5. Sheet(b) = Sheet(a)
    BY <1>11, <2>1
  <2> QED
    BY <1>3, <2>3, <2>4, <2>5 DEF SaysMore, b, n
<1> QED
  BY <1>3, <1>14, <1>15, <1>16, <1>17 DEF Ready, b, n, q

(* What it took is still what it took when another has published; but that *)
(* number is not the next any more.                                        *)
LEMMA ReadyBeside ==
    ASSUME NEW c, NEW a, Listing(a), NEW row, NEW b, b = Append(a, row), Ready(c, a)
    PROVE  Ready(c, b)
<1>1. Len(a) \in Nat /\ Len(b) = Len(a) + 1
  BY Appended
<1>2. \A x : x \in 1..(Len(a) + 1) => x \in 1..(Len(b) + 1) /\ x # Len(b) + 1
  BY <1>1
<1>3. c.step = 14 => c.step > 12
  OBVIOUS
<1> QED
  BY <1>2, <1>3, Zenon DEF Ready, SaysMore

(* A statement that is not the last look, of a publish, is its last.       *)
LEMMA ReadyAtLast ==
    ASSUME NEW c, NEW k, IsCommand(c), c.command.is = "publish", Further(c, k), k.seen = c.seen,
           Script(c.command)[c.step] \notin Looks, Script(c.command)[c.step] # "audit",
           NEW revisions, Ready(c, revisions)
    PROVE  c.step = 14 /\ Ready(k, revisions)
<1> DEFINE q == Script(c.command)
<1>1. IsPublishScript(q)
  BY Scripts, Fifteen DEF IsCommand
<1>2. c.step \in 1..15
  BY <1>1 DEF IsPublishScript, IsCommand
<1> HIDE DEF q
<1>3. \A i \in 1..13 : q[i] \in Looks
  <2>1. /\ q[1] \in Looks /\ q[2] \in Looks /\ q[3] \in Looks /\ q[4] \in Looks
        /\ q[5] \in Looks /\ q[6] \in Looks /\ q[7] \in Looks /\ q[8] \in Looks
        /\ q[9] \in Looks /\ q[10] \in Looks /\ q[11] \in Looks /\ q[12] \in Looks
        /\ q[13] \in Looks
    BY <1>1, LooksAre, Zenon DEF IsPublishScript
  <2> QED
    BY <2>1
<1>4. q[15] = "audit"
  BY <1>1 DEF IsPublishScript
<1>5. c.step = 14
  <2>1. c.step \notin 1..13
    BY <1>3 DEF q
  <2>2. c.step # 15
    BY <1>4 DEF q
  <2> QED
    BY <1>2, <2>1, <2>2
<1>6. k.step = 15 /\ k.command = c.command
  BY <1>5 DEF Further
<1>7. \A j \in 1..13 : j < c.step
  BY <1>5
<1>8. c.step > 3 /\ c.step > 12 /\ k.step # 14
  BY <1>5, <1>6
<1> QED
  BY <1>5, <1>6, <1>7, <1>8, Zenon DEF Ready

(* What is published is the next, and says more than the last.             *)
LEMMA NextRevision ==
    ASSUME NEW c, NEW a, Listing(a), HistoryOf(a), c.step = 14, Ready(c, a),
           \A r \in Range(a) : r.number # c.seen["number"],
           NEW row, row.number = c.seen["number"], row.sheet = Sheet(c.seen),
           row.allowUnchanged = c.command.allowUnchanged,
           NEW b, b = Append(a, row)
    PROVE  HistoryOf(b)
<1> DEFINE n == Len(a)
<1>1. /\ n \in Nat /\ DOMAIN a = 1..n /\ DOMAIN b = 1..(n + 1) /\ b[n + 1] = row
      /\ \A i \in 1..n : b[i] = a[i]
  BY Appended
<1>2. /\ c.seen["roster"] \subseteq DOMAIN Setup.bibs /\ c.seen["number"] \in 1..(n + 1)
      /\ SaysMore(c, a)
  <2>1. c.step > 3 /\ c.step > 12
    OBVIOUS
  <2> QED
    BY <2>1 DEF Ready
<1>3. IsDigest(row.sheet)
  BY <1>2, SheetIsADigest
<1>4. \A i \in 1..n : a[i] \in Range(a) /\ a[i].number = i
  BY <1>1 DEF HistoryOf, Range
<1>5. row.number = n + 1
  <2>1. \A i \in 1..n : row.number # i
    BY <1>4
  <2>2. row.number \in 1..(n + 1)
    BY <1>2
  <2> HIDE DEF n
  <2> QED
    BY <1>1, <2>1, <2>2
<1>6. row.allowUnchanged \/ n = 0 \/ a[n].sheet # row.sheet
  BY <1>2, <1>5 DEF SaysMore
<1> HIDE DEF n
<1>7. ASSUME NEW i \in 1..(n + 1)
      PROVE  /\ b[i].number = i /\ IsDigest(b[i].sheet)
             /\ i > 1 /\ ~b[i].allowUnchanged => b[i - 1].sheet # b[i].sheet
  <2>1. CASE i = n + 1
    <3>1. i > 1 => i - 1 = n /\ n \in 1..n /\ n # 0
      BY <1>1, <2>1
    <3> QED
      BY <1>1, <1>3, <1>5, <1>6, <2>1, <3>1
  <2>2. CASE i # n + 1
    <3>1. i \in 1..n /\ (i > 1 => i - 1 \in 1..n)
      BY <1>1, <2>2
    <3>2. /\ a[i].number = i /\ IsDigest(a[i].sheet)
          /\ i > 1 /\ ~a[i].allowUnchanged => a[i - 1].sheet # a[i].sheet
      BY <1>1, <3>1 DEF HistoryOf
    <3>3. b[i] = a[i] /\ (i > 1 => b[i - 1] = a[i - 1])
      BY <1>1, <3>1
    <3> QED
      BY <3>2, <3>3
  <2> QED
    BY <2>1, <2>2
<1> QED
  BY <1>1, <1>7 DEF HistoryOf

(* Whoever is entered has a bib.                                           *)
Entered == db["roster"] \subseteq DOMAIN Setup.bibs

(* A command that publishes.                                               *)
Publishing(c) == c # Idle /\ c.command.is = "publish"

(* With the shape this is inductive; RevisionsAreOneHistory is not, as it  *)
(* does not say what a command that is about to publish has found.         *)
OneHistory ==
    /\ Entered
    /\ \A o \in Operators : Publishing(console[o]) => Ready(console[o], db["revisions"])
    /\ HistoryOf(db["revisions"])

(* The revisions stay, and so do the others' commands.                     *)
LEMMA HistoryBeside ==
    ASSUME OneHistory, Entered', db'["revisions"] = db["revisions"],
           NEW o, Alone(o), Publishing(console'[o]) => Ready(console'[o], db["revisions"])
    PROVE  OneHistory'
<1>1. \A p \in Operators : Publishing(console'[p]) => Ready(console'[p], db'["revisions"])
  <2>1. ASSUME NEW p \in Operators, Publishing(console'[p])
        PROVE  Ready(console'[p], db'["revisions"])
    <3>1. CASE p = o
      BY <2>1, <3>1
    <3>2. CASE p # o
      BY <2>1, <3>2 DEF OneHistory, Alone
    <3> QED
      BY <3>1, <3>2
  <2> QED
    BY <2>1
<1>2. HistoryOf(db'["revisions"])
  BY DEF OneHistory
<1> QED
  BY <1>1, <1>2 DEF OneHistory

(* A look of a publish finds what Ready asks for.                          *)
LEMMA ReadyLook ==
    ASSUME Shape, OneHistory, NEW o \in Operators, Look(o), console[o].command.is = "publish"
    PROVE  Ready(console'[o], db["revisions"])
<1> DEFINE c == console[o]
           k == console'[o]
           revisions == db["revisions"]
<1>1. /\ Busy(o) /\ IsCommand(c) /\ Due(o) \in Looks /\ Further(c, k)
  BY LookStep
<1>2. PICK found \in Findings(Due(o)) :
         ~GivesUp(c.command, Due(o), found, c.seen) /\ k.seen = Having(c.seen, Due(o), found)
  BY LookStep
<1>3. Listing(revisions) /\ HistoryOf(revisions) /\ Ready(c, revisions) /\ Entered
  <2>1. Publishing(c)
    BY <1>1 DEF Publishing, Busy
  <2> QED
    BY <2>1 DEF Shape, Journals, OneHistory
<1>4. Due(o) = Script(c.command)[c.step]
  BY DEF Due
<1>5. Due(o) = "roster" => found \subseteq DOMAIN Setup.bibs
  BY <1>2, <1>3 DEF Findings, Query, Entered
<1>6. Due(o) = "number" => found = NextNumber(revisions)
  BY <1>2 DEF Findings
<1>7. Due(o) = "latest" => found = LatestSheet(revisions) /\ ~NothingNew(c.command, found, c.seen)
  BY <1>2 DEF Findings, GivesUp
<1>8. c.command.is = "publish"
  OBVIOUS
<1> HIDE DEF c, k, revisions
<1> DEFINE what == Script(c.command)[c.step]
<1>9. /\ what \in Looks /\ k.seen = Having(c.seen, what, found)
      /\ what = "roster" => found \subseteq DOMAIN Setup.bibs
      /\ what = "number" => found = NextNumber(revisions)
      /\ what = "latest" => found = LatestSheet(revisions) /\ ~NothingNew(c.command, found, c.seen)
  BY <1>1, <1>2, <1>4, <1>5, <1>6, <1>7
<1>10. Ready(k, revisions)
  BY <1>1, <1>3, <1>8, <1>9, ReadyOn
<1> QED
  BY <1>10 DEF k, revisions

(* A publish that writes adds the next revision; nobody else is any the    *)
(* less ready for it.                                                      *)
LEMMA PublishKeeps ==
    ASSUME Shape, OneHistory, NEW o \in Operators, Publish(o), Entered', Alone(o),
           IsCommand(console[o]), Further(console[o], console'[o]),
           console'[o].seen = console[o].seen, console[o].command.is = "publish"
    PROVE  OneHistory'
<1> DEFINE c == console[o]
           k == console'[o]
           a == db["revisions"]
           b == db'["revisions"]
           row == [number |-> c.seen.number, sheet |-> Sheet(c.seen),
                   allowUnchanged |-> c.command.allowUnchanged, asOf |-> c.asOf]
<1>1. Busy(o) /\ Due(o) = "publish" /\ ~Clashes(o) /\ Insert(o, "revisions", row)
  BY DEF Publish
<1>2. row.number = c.seen["number"] /\ row.sheet = Sheet(c.seen)
        /\ row.allowUnchanged = c.command.allowUnchanged
  OBVIOUS
<1>3. \A r \in Range(a) : r.number # c.seen["number"]
  BY <1>1 DEF Clashes
<1>4. b = Append(a, row)
  <2> HIDE DEF row
  <2> DEFINE stored == Append(db["revisions"], row)
  <2>1. Commit(o, "revisions", row, stored)
    BY <1>1 DEF Insert
  <2> HIDE DEF stored
  <2>2. "revisions" \in Tables
    BY DEF Tables
  <2>3. b = stored
    BY <1>1, <2>1, <2>2, CommitSays
  <2> QED
    BY <2>3 DEF stored
<1>5. Listing(a) /\ HistoryOf(a) /\ Ready(c, a)
  <2>1. Publishing(c)
    BY <1>1 DEF Publishing, Busy
  <2> QED
    BY <2>1 DEF Shape, Journals, OneHistory
<1>6. \A p \in Operators : p # o /\ Publishing(console'[p]) => Ready(console'[p], a)
  BY DEF OneHistory, Alone
<1>7. IsCommand(c) /\ Further(c, k) /\ k.seen = c.seen /\ c.command.is = "publish"
        /\ Script(c.command)[c.step] = "publish"
  BY <1>1 DEF Due
<1> HIDE DEF c, k, a, b, row
<1>8. c.step = 14 /\ Ready(k, a)
  <2>1. "publish" \notin Looks /\ "publish" # "audit"
    BY LooksAre
  <2> QED
    BY <1>5, <1>7, <2>1, ReadyAtLast
<1>9. HistoryOf(b)
  BY <1>2, <1>3, <1>4, <1>5, <1>8, NextRevision
<1>10. \A d : Ready(d, a) => Ready(d, b)
  BY <1>4, <1>5, ReadyBeside
<1>11. \A p \in Operators : Publishing(console'[p]) => Ready(console'[p], b)
  <2>1. ASSUME NEW p \in Operators, Publishing(console'[p])
        PROVE  Ready(console'[p], b)
    <3>1. CASE p = o
      <4>1. console'[p] = k
        BY <3>1 DEF k
      <4> QED
        BY <1>8, <1>10, <4>1
    <3>2. CASE p # o
      BY <1>6, <1>10, <2>1, <3>2
    <3> QED
      BY <3>1, <3>2
  <2> QED
    BY <2>1
<1> QED
  BY <1>9, <1>11 DEF OneHistory, b

(* OneHistory is kept by every step.                                       *)
LEMMA HistoryHolds == ASSUME Shape, OneHistory, [Next]_vars PROVE OneHistory'
<1>1. CASE UNCHANGED vars
  BY <1>1 DEF vars, OneHistory, Entered
<1>2. "revisions" \in Tables /\ "roster" \in Tables /\ "revisions" # "reads" /\ "roster" # "reads"
  BY DEF Tables
<1>3. \A o \in Operators : Publishing(console[o]) => Busy(o) /\ console[o].command.is = "publish"
  BY DEF Publishing, Busy
<1>4. CASE ReadArrives
  <2>1. PICK read : Arrived(read)
    BY <1>4, ArrivalStep
  <2>2. db'["revisions"] = db["revisions"] /\ db'["roster"] = db["roster"] /\ console' = console
    BY <1>2, <2>1 DEF Arrived
  <2> QED
    BY <2>2 DEF OneHistory, Entered
<1>5. ASSUME NEW o \in Operators, Done(o)
      PROVE  OneHistory'
  <2> DEFINE c == console[o]
             k == console'[o]
  <2>1. CASE \E command \in Commands : Typed(o, command)
    <3>1. PICK command \in Commands : Typed(o, command)
      BY <2>1
    <3>2. k.step = 1 /\ UNCHANGED db /\ Alone(o)
      <4>1. Fresh(command).step = 1
        BY DEF Fresh
      <4> QED
        BY <3>1, <4>1, Zenon DEF Typed
    <3>3. Ready(k, db["revisions"])
      BY <3>2 DEF Ready
    <3> QED
      BY <3>2, <3>3, HistoryBeside DEF OneHistory, Entered
  <2>2. CASE Look(o)
    <3>1. Busy(o) /\ Alone(o) /\ Further(c, k) /\ UNCHANGED db
      BY <2>2, LookStep
    <3>2. Publishing(k) => Ready(k, db["revisions"])
      BY <2>2, <3>1, ReadyLook DEF Publishing, Further
    <3> QED
      BY <3>1, <3>2, HistoryBeside DEF OneHistory, Entered
  <2>3. CASE GiveUp(o) \/ Conflict(o) \/ Kill(o)
    <3>1. Ended(o)
      BY <2>3, GiveUpStep, ConflictStep, KillStep
    <3>2. UNCHANGED db /\ Alone(o) /\ ~Publishing(k)
      BY <3>1 DEF Ended, Publishing, Busy
    <3> QED
      BY <3>2, HistoryBeside DEF OneHistory, Entered
  <2>4. CASE Audited(o)
    <3>1. UNCHANGED db /\ Alone(o) /\ ~Publishing(k)
      BY <2>4 DEF Audited, Publishing, Busy
    <3> QED
      BY <3>1, HistoryBeside DEF OneHistory, Entered
  <2>5. CASE Writing(o)
    <3>1. PICK row : Wrote(o, TableOf(Due(o)), row)
      BY <2>5, WritingIs
    <3>2. /\ Busy(o) /\ Alone(o) /\ Further(c, k) /\ IsCommand(c) /\ Due(o) \in Writes
          /\ k.seen = c.seen
      BY <3>1 DEF Wrote
    <3>3. Entered'
      <4>1. CASE Due(o) = "import roster"
        <5>1. ImportRoster(o)
          BY <2>5, <4>1, OnlyBy
        <5>2. db'["roster"] = db["roster"] \cup c.command.file
          <6> DEFINE stored == db.roster \cup c.command.file
          <6>1. Commit(o, "roster", c.command.file, stored)
            BY <5>1 DEF ImportRoster
          <6> HIDE DEF stored
          <6>2. db'["roster"] = stored
            BY <1>2, <3>2, <6>1, CommitSays
          <6> QED
            BY <6>2 DEF stored
        <5>3. c.command.is = "import roster"
          BY <3>2, <4>1, WhoWrites DEF Due, WritesOf
        <5>4. c.command.file \subseteq DOMAIN Setup.bibs
          BY <3>2, <5>3, Entrants DEF IsCommand
        <5> QED
          BY <5>2, <5>4 DEF OneHistory, Entered
      <4>2. CASE Due(o) # "import roster"
        <5>1. TableOf(Due(o)) # "roster"
          BY <3>2, <4>2, WrittenBy
        <5>2. db'["roster"] = db["roster"]
          BY <1>2, <3>1, <5>1 DEF Wrote
        <5> QED
          BY <5>2 DEF OneHistory, Entered
      <4> QED
        BY <4>1, <4>2
    <3>4. CASE Due(o) = "publish"
      <4>1. Publish(o)
        BY <2>5, <3>4, OnlyBy
      <4>2. c.command.is = "publish"
        BY <3>2, <3>4, WhoWrites DEF Due, WritesOf
      <4> QED
        BY <3>2, <3>3, <4>1, <4>2, PublishKeeps
    <3>5. CASE Due(o) # "publish"
      <4>1. TableOf(Due(o)) # "revisions"
        BY <3>2, <3>5, WrittenBy
      <4>2. db'["revisions"] = db["revisions"]
        BY <1>2, <3>1, <4>1 DEF Wrote
      <4>3. ~Publishing(k)
        <5>1. SUFFICES ASSUME k.command.is = "publish" PROVE FALSE
          BY DEF Publishing
        <5>2. c.command.is = "publish"
          BY <3>2, <5>1 DEF Further
        <5>3. Due(o) = "publish"
          BY <3>2, <5>2, WhoWrites DEF Due, WritesOf
        <5> QED
          BY <3>5, <5>3
      <4> QED
        BY <3>2, <3>3, <4>2, <4>3, HistoryBeside
    <3> QED
      BY <3>4, <3>5
  <2> QED
    BY <1>5, <2>1, <2>2, <2>3, <2>4, <2>5 DEF Done
<1> QED
  BY <1>1, <1>4, <1>5, Steps

(* It holds at first.                                                      *)
LEMMA HistoryAtFirst == ASSUME Init PROVE OneHistory
<1>1. \A o \in Operators : ~Publishing(console[o])
  BY DEF Init, Publishing
<1>2. db["roster"] = Stored.roster /\ DOMAIN db["revisions"] = {}
  BY DEF Init
<1> QED
  BY <1>1, <1>2, Entrants DEF OneHistory, Entered, HistoryOf

(* It says what RevisionsAreOneHistory does: the diff of two sheets that   *)
(* differ names somebody.                                                  *)
LEMMA HistoryIsEnough == ASSUME Shape, OneHistory PROVE RevisionsAreOneHistory
<1> DEFINE revisions == db["revisions"]
<1>1. HistoryOf(revisions) /\ Listing(revisions)
  BY DEF OneHistory, Shape, Journals
<1> HIDE DEF revisions
<1>2. ASSUME NEW i \in DOMAIN revisions
      PROVE  /\ revisions[i].number = i
             /\ i > 1 /\ ~revisions[i].allowUnchanged =>
                  Diff(revisions[i - 1].sheet, revisions[i].sheet) # {}
  <2>1. /\ revisions[i].number = i /\ IsDigest(revisions[i].sheet)
        /\ i > 1 /\ ~revisions[i].allowUnchanged => revisions[i - 1].sheet # revisions[i].sheet
    BY <1>1, <1>2 DEF HistoryOf
  <2>2. i > 1 => i - 1 \in DOMAIN revisions
    <3>1. DOMAIN revisions = 1..Len(revisions) /\ Len(revisions) \in Nat
      BY <1>1 DEF Listing
    <3> QED
      BY <1>2, <3>1
  <2>3. i > 1 => IsDigest(revisions[i - 1].sheet)
    BY <1>1, <2>2 DEF HistoryOf
  <2> QED
    BY <2>1, <2>3, DiffTells
<1> QED
  BY <1>2 DEF RevisionsAreOneHistory, revisions

(* However many publish at once, whatever else is written between their    *)
(* statements and whoever is killed, the revisions of a race are numbered  *)
(* 1, 2, 3, ... in the order they were inserted, and unless it was allowed *)
(* to say the same, each has a diff with the one before it that names      *)
(* somebody: next_revision_number, the comparison with latest_revision and *)
(* UNIQUE (race_id, number) are enough, though none of them is in the      *)
(* transaction of another. Bibs are told apart, as UNIQUE (race_id, bib)   *)
(* sees to (Entrants); nothing else is assumed.                            *)
THEOREM RevisionsInOrder == Spec => []RevisionsAreOneHistory
<1>1. Init => Shape /\ OneHistory
  BY FirstShape, HistoryAtFirst
<1>2. Shape /\ OneHistory /\ [Next]_vars => (Shape /\ OneHistory)'
  BY ShapeHolds, HistoryHolds
<1>3. Shape /\ OneHistory => RevisionsAreOneHistory
  BY HistoryIsEnough
<1> QED
  BY <1>1, <1>2, <1>3, PTL DEF Spec
-----------------------------------------------------------------------------
(* What doctor says, and what comes of it.                                 *)

(* What doctor measures is there to be measured.                           *)
Measured == db["floor"] \in Nat /\ IsFiniteSet(DOMAIN db["course"])

(* It holds at first.                                                      *)
LEMMA MeasuredAtFirst == ASSUME Init PROVE Measured
<1>1. db["floor"] = Stored.floor /\ db["course"] = Stored.course
  BY DEF Init
<1> QED
  BY <1>1, Measures DEF Measured

(* It is kept by every step.                                               *)
LEMMA MeasuredHolds == ASSUME Shape, Measured, [Next]_vars PROVE Measured'
<1>1. "floor" \in Tables /\ "course" \in Tables /\ "floor" # "reads" /\ "course" # "reads"
  BY DEF Tables
<1>2. CASE UNCHANGED db
  BY <1>2 DEF Measured
<1>3. CASE ReadArrives
  <2>1. PICK read : Arrived(read)
    BY <1>3, ArrivalStep
  <2>2. db'["floor"] = db["floor"] /\ db'["course"] = db["course"]
    BY <1>1, <2>1 DEF Arrived
  <2> QED
    BY <2>2 DEF Measured
<1>4. ASSUME NEW o \in Operators, Done(o), ~UNCHANGED db
      PROVE  Measured'
  <2>1. Writing(o)
    <3>1. (\E command \in Commands : Typed(o, command)) => UNCHANGED db
      BY DEF Typed
    <3>2. Look(o) => UNCHANGED db
      BY LookStep
    <3>3. GiveUp(o) \/ Conflict(o) \/ Kill(o) => UNCHANGED db
      BY GiveUpStep, ConflictStep, KillStep DEF Ended
    <3>4. Audited(o) => UNCHANGED db
      BY DEF Audited
    <3> QED
      BY <1>4, <3>1, <3>2, <3>3, <3>4 DEF Done
  <2>2. PICK row : Wrote(o, TableOf(Due(o)), row)
    BY <2>1, WritingIs
  <2>3. Busy(o) /\ IsCommand(console[o]) /\ Due(o) \in Writes
    BY <2>2 DEF Wrote
  <2>4. db'["floor"] \in Nat
    <3>1. CASE Due(o) = "set floor"
      <4> DEFINE floor == console[o].command.to
      <4>1. Commit(o, "floor", floor, floor)
        BY <2>1, <3>1, OnlyBy DEF SetFloor
      <4>2. db'["floor"] = floor
        <5> HIDE DEF floor
        <5> QED
          BY <1>1, <2>3, <4>1, CommitSays
      <4>3. console[o].command.is = "set floor"
        BY <2>3, <3>1, WhoWrites DEF Due, WritesOf
      <4>4. floor \in Nat
        BY <2>3, <4>3, Measures DEF IsCommand
      <4> QED
        BY <4>2, <4>4
    <3>2. CASE Due(o) # "set floor"
      BY <1>1, <2>2, <2>3, <3>2, WrittenBy DEF Wrote, Measured
    <3> QED
      BY <3>1, <3>2
  <2>5. IsFiniteSet(DOMAIN db'["course"])
    <3>1. CASE Due(o) = "add checkpoint"
      <4> DEFINE name == console[o].command.checkpoint
                 kind == console[o].command.kind
                 more == Having(db["course"], name, kind)
                 line == [checkpoint |-> name, kind |-> kind]
      <4>1. Commit(o, "course", line, more)
        BY <2>1, <3>1, OnlyBy DEF AddCheckpoint
      <4>2. DOMAIN more = DOMAIN db["course"] \cup {name}
        BY DEF Having
      <4>3. db'["course"] = more
        <5> HIDE DEF more, line
        <5> QED
          BY <1>1, <2>3, <4>1, CommitSays
      <4> HIDE DEF name, more
      <4>4. IsFiniteSet(DOMAIN more)
        BY <4>2, FS_AddElement DEF Measured
      <4> QED
        BY <4>3, <4>4
    <3>2. CASE Due(o) # "add checkpoint"
      BY <1>1, <2>2, <2>3, <3>2, WrittenBy DEF Wrote, Measured
    <3> QED
      BY <3>1, <3>2
  <2> QED
    BY <2>4, <2>5 DEF Measured
<1> QED
  BY <1>2, <1>3, <1>4, Steps DEF vars

(* Where doctor finds no error, none of its errors is among what it says.  *)
LEMMA NoErrors ==
    ASSUME NEW findings, Errors(findings) = {}, NEW check
    PROVE  Error(check) \notin findings
<1>1. Error(check).severity = "error"
  BY DEF Error
<1> QED
  BY <1>1 DEF Errors

(* No error of the course, the chips or the readers: what it was about.    *)
LEMMA VouchedIs ==
    ASSUME NEW tables, NEW gun, Errors(TableFindings(tables, gun)) = {}
    PROVE  /\ ~(Cardinality(OfKind(tables.course, "finish")) > 1)
           /\ ~(Cardinality(OfKind(tables.course, "start")) > 1)
           /\ ~(tables.mode = "chip" /\ Cardinality(OfKind(tables.course, "start")) = 0)
           /\ Registry(SetToSeq(tables.chips))
           /\ \A source \in SourcesIn(tables.reads) : Some(Resolve(tables.antennas, source))
<1> DEFINE F == TableFindings(tables, gun)
<1>1. /\ CourseFindings(tables.course, tables.mode) \subseteq F
      /\ EntryFindings(tables.roster, tables.chips) \subseteq F
      /\ ReaderFindings(tables.antennas, tables.reads) \subseteq F
  BY DEF TableFindings
<1> HIDE DEF F
<1>2. \A check : Error(check) \notin F
  BY NoErrors DEF F
<1>3. Error("scoring.finish") \notin CourseFindings(tables.course, tables.mode)
        /\ Error("scoring.start") \notin CourseFindings(tables.course, tables.mode)
  BY <1>1, <1>2
<1>4. Error("config.chips") \notin EntryFindings(tables.roster, tables.chips)
  BY <1>1, <1>2
<1>5. Error("config.readers") \notin ReaderFindings(tables.antennas, tables.reads)
  BY <1>1, <1>2
<1>6. ~(Cardinality(OfKind(tables.course, "finish")) > 1)
  BY <1>3, Zenon DEF CourseFindings, Say
<1>7. ~(Cardinality(OfKind(tables.course, "start")) > 1)
        /\ ~(tables.mode = "chip" /\ Cardinality(OfKind(tables.course, "start")) = 0)
  BY <1>3, Zenon DEF CourseFindings, Say
<1>8. Registry(SetToSeq(tables.chips))
  BY <1>4, Zenon DEF EntryFindings, Say
<1>9. \A source \in SourcesIn(tables.reads) : Some(Resolve(tables.antennas, source))
  BY <1>5, Zenon DEF ReaderFindings, Say
<1> QED
  BY <1>6, <1>7, <1>8, <1>9

(* A course with a finish doctor found no error in can be scored.          *)
LEMMA VouchedScores ==
    ASSUME NEW tables, NEW gun, Errors(TableFindings(tables, gun)) = {},
           IsFiniteSet(DOMAIN tables.course), OfKind(tables.course, "finish") # {}
    PROVE  ~CannotBeScored(tables)
<1> DEFINE finish == OfKind(tables.course, "finish")
           start == OfKind(tables.course, "start")
<1>1. IsFiniteSet(finish) /\ IsFiniteSet(start)
  <2>1. finish \subseteq DOMAIN tables.course /\ start \subseteq DOMAIN tables.course
    BY DEF OfKind
  <2> QED
    BY <2>1, FS_Subset
<1> HIDE DEF finish, start
<1>2. /\ Cardinality(finish) \in Nat /\ Cardinality(start) \in Nat
      /\ (Cardinality(finish) = 0 <=> finish = {}) /\ (Cardinality(start) = 0 <=> start = {})
  BY <1>1, FS_CardinalityType, FS_EmptySet
<1>3. finish # {}
  BY DEF finish
<1>4. /\ ~(Cardinality(finish) > 1) /\ ~(Cardinality(start) > 1)
      /\ ~(tables.mode = "chip" /\ Cardinality(start) = 0)
      /\ Registry(SetToSeq(tables.chips))
  BY VouchedIs DEF finish, start
<1>5. Cardinality(finish) = 1
  BY <1>2, <1>3, <1>4
<1>6. ~Unscorable(tables.course, tables.mode)
  BY <1>2, <1>4, <1>5 DEF Unscorable, finish, start
<1> QED
  BY <1>4, <1>6 DEF CannotBeScored

(* A source doctor vouched for is every read's that came from it.          *)
LEMMA VouchedResolves ==
    ASSUME NEW tables, NEW gun, Errors(TableFindings(tables, gun)) = {},
           NEW read \in Range(tables.reads)
    PROVE  Some(Resolve(tables.antennas, read))
<1> DEFINE source == [reader |-> read.reader, antenna |-> read.antenna]
<1>1. source \in SourcesIn(tables.reads)
  BY DEF SourcesIn
<1>2. source.reader = read.reader /\ source.antenna = read.antenna
  OBVIOUS
<1> HIDE DEF source
<1>3. Resolve(tables.antennas, read) = Resolve(tables.antennas, source)
  BY <1>2, Zenon DEF Resolve
<1> QED
  BY <1>1, <1>3, VouchedIs

(* The gates of a start, and what doctor and /health say of them.          *)
LEMMA GatesAreTold ==
    ASSUME NEW floor \in Nat, NEW space \in Spaces, NEW start, start.forced = FALSE
    PROVE  /\ TooLittleSpace(start, space, floor) => Errors(SpaceFindings(space, floor)) # {}
           /\ (Api!SpaceReasons(space, floor) # {}) = TooLittleSpace(start, space, floor)
<1>1. space \in Nat /\ Some(space)
  BY Measures DEF Some
<1>2. TooLittleSpace(start, space, floor) <=> ~IsAbove(space, floor)
  BY DEF TooLittleSpace
<1>3. IsAbove(space, floor) <=> ~(space < floor)
  BY <1>1 DEF IsAbove
<1>4. ASSUME ~IsAbove(space, floor)
      PROVE  Errors(SpaceFindings(space, floor)) # {}
  <2>1. Error("storage.free_space") \in SpaceFindings(space, floor)
    BY <1>1, <1>4 DEF SpaceFindings, Say
  <2> QED
    BY <2>1, NoErrors
<1>5. Api!SpaceReasons(space, floor) # {} <=> space < floor
  BY DEF Api!SpaceReasons, Api!Because
<1>6. TooLittleSpace(start, space, floor) \in BOOLEAN
  BY DEF TooLittleSpace
<1> QED
  BY <1>2, <1>3, <1>4, <1>5, <1>6

(* A clock a start is refused for is one doctor warns of.                  *)
LEMMA ClockIsTold ==
    ASSUME NEW start, start.forced = FALSE, NEW reading, ClockIsBad(start, reading)
    PROVE  ClockFindings(reading) # {}
<1>1. reading.is = "Tracking" /\ ~Daemon!IsTrustworthy(Daemon!DeviceClockState(reading.line))
  BY DEF ClockIsBad, Daemon!RefusesStart
<1> QED
  BY <1>1 DEF ClockFindings, Say

(* Doctor vouches for what it has measured.                                *)
LEMMA MeasuredIsEnough == ASSUME Measured PROVE DoctorVouches
<1> DEFINE start == [is |-> "start", at |-> None, forced |-> FALSE]
           vouched == Errors(TableFindings(db, GunIn(db.sessions))) = {}
<1>1. vouched /\ OfKind(db.course, "finish") # {} => ~CannotBeScored(db)
  BY VouchedScores DEF Measured
<1>2. vouched => \A read \in Range(db.reads) : Some(Resolve(db.antennas, read))
  BY VouchedResolves
<1>3. start.forced = FALSE
  OBVIOUS
<1> HIDE DEF start, vouched
<1>4. ASSUME NEW space \in Spaces
      PROVE  /\ TooLittleSpace(start, space, db.floor) => Errors(SpaceFindings(space, db.floor)) # {}
             /\ (Api!SpaceReasons(space, db.floor) # {}) = TooLittleSpace(start, space, db.floor)
  BY <1>3, GatesAreTold DEF Measured
<1>5. ASSUME NEW situation \in Situations
      PROVE  LET reading == Daemon!ReadTracking(situation) IN
             ClockIsBad(start, reading) => ClockFindings(reading) # {}
  BY <1>3, ClockIsTold
<1> QED
  BY <1>1, <1>2, <1>4, <1>5 DEF DoctorVouches, start, vouched

(* What doctor clears goes well, whatever the tables hold and whoever      *)
(* writes them meanwhile: without an error of it a race with a finish can  *)
(* be scored and no read is unmapped; a start is refused for space or for  *)
(* the clock only where doctor has something to say; and /health says that *)
(* it will be refused for space exactly when it is. The disk is measured   *)
(* in numbers and the course is finite (Measures).                         *)
THEOREM DoctorIsRight == Spec => []DoctorVouches
<1>1. Init => Shape /\ Measured
  BY FirstShape, MeasuredAtFirst
<1>2. Shape /\ Measured /\ [Next]_vars => (Shape /\ Measured)'
  BY ShapeHolds, MeasuredHolds
<1>3. Measured => DoctorVouches
  BY MeasuredIsEnough
<1> QED
  BY <1>1, <1>2, <1>3, PTL DEF Spec
==============================================================================
