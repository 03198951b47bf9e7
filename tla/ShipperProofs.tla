--------------------------- MODULE ShipperProofs ---------------------------
(***************************************************************************)
(* What TLAPS proves of the shipper, for every set of races and runners,   *)
(* every bound and however many mishaps: that what it sends reaches the    *)
(* page in an order the page can be read in, and that it rests only when   *)
(* the page holds what is true.  A theorem names the switches it needs     *)
(* off: what each of them lets happen breaks the property in the code.     *)
(***************************************************************************)
EXTENDS Shipper, WellFoundedInduction, TLAPS

(* Where a pass has the crossings to send in its hands, and where it has   *)
(* the course behind it.                                                   *)
PastCourse == pc \in {"diff", "send", "crossings", "revise", "results"}
PastDerive == pc \in {"course", "manifest"} \/ PastCourse

(* What the race the box is paired with holds.                             *)
Page == held[pairing.race]

(* What a pass has in its hands where it uses it, and a pair command that  *)
(* was given a token.                                                      *)
Shape ==
    /\ pair.at # "away" => pair.race \in Races /\ pair.token > 0
    /\ pc = "derive" \/ PastDerive => work.to # NotPaired
    /\ pc \notin {"manifest", "crossings", "results"} => answer = "none"
    /\ pc = "crossings" <=> work.batch # {}
    /\ pc = "results" => work.revisions # {}

-----------------------------------------------------------------------------
(***************************************************************************)
(* Pairing.                                                                *)
(***************************************************************************)

(* Nobody pairs beside a pass, so a pass sends with the pairing recorded.  *)
PairInv ==
    /\ pair.at # "away" => pc = "down"
    /\ pair.at \in {"course", "crossings", "revisions", "unpaired"} =>
          pairing = [race |-> pair.race, token |-> pair.token]
    /\ pc = "derive" \/ PastDerive => pairing # NotPaired /\ work.to = pairing

(* A race being paired with holds nothing yet.                             *)
FreshRace == pair.at # "away" => held[pair.race] = HoldsNothing

-----------------------------------------------------------------------------
(***************************************************************************)
(* The course.                                                             *)
(***************************************************************************)

(* A course recorded as delivered is the one the page holds, or is not the *)
(* course any more; and what a pass is about to believe of it is so.       *)
CourseInv ==
    /\ pairing # NotPaired /\ pair.at # "course" /\ sentCourse.delivered =>
          Page.course = sentCourse.course \/ course # sentCourse.course
    /\ pc \in {"course", "manifest"} /\ work.course # sentCourse.course =>
          course # sentCourse.course
    /\ pc = "course" /\ sentCourse = [course |-> work.course, delivered |-> TRUE] =>
          Page.course = work.course
    /\ pc = "manifest" => work.course # sentCourse.course
    /\ pc = "manifest" /\ answer = "delivered" => Page.course = work.course
    /\ PastCourse => Page.course = work.course

-----------------------------------------------------------------------------
(***************************************************************************)
(* Revisions.                                                              *)
(***************************************************************************)

(* The page holds every revision recorded as delivered, and of those it    *)
(* holds every one before that was not refused; the pass has dealt with    *)
(* all that come before the ones still on its list.                        *)
RevisionInv ==
    /\ pairing # NotPaired /\ pair.at \in {"away", "insert", "unpaired"} =>
          /\ \A n \in 1..MaxRevisions : sentRevisions[n] = "delivered" => n \in Page.revisions
          /\ \A n \in Page.revisions : \A m \in 1..n :
                m \in Page.revisions \/ sentRevisions[m] = "refused"
    /\ pc \in {"revise", "results"} =>
          \A n \in work.revisions : \A m \in 1..n :
             m \in work.revisions \/ sentRevisions[m] # "no"
    /\ pc = "results" /\ answer = "delivered" => At \in Page.revisions

-----------------------------------------------------------------------------
(***************************************************************************)
(* Crossings.                                                              *)
(***************************************************************************)

(* The page holds of every runner what was recorded as sent, or that is    *)
(* not true any more; those it refused aside.                              *)
CrossingsInv ==
    /\ pairing # NotPaired /\ pair.at \notin {"course", "crossings"} =>
          \A r \in Runners \ setAside :
             Page.crossings[r] = sentCrossings[r] \/ Stated(r) # sentCrossings[r]
    /\ PastDerive => \A r \in Runners :
          /\ work.crossings[r] # sentCrossings[r] => Stated(r) # sentCrossings[r]
          /\ r \notin setAside /\ work.crossings[r] = sentCrossings[r] =>
                Page.crossings[r] = sentCrossings[r]
    /\ pc \in {"send", "crossings"} =>
          \A r \in Runners :
             work.crossings[r] # sentCrossings[r] <=> r \in work.todo \cup work.batch
    /\ pc = "crossings" => work.todo \cap work.batch = {}
    /\ pc = "crossings" /\ answer = "delivered" =>
          \A r \in work.batch : Page.crossings[r] = work.crossings[r]
    /\ pc \in {"revise", "results"} => \A r \in Runners : work.crossings[r] = sentCrossings[r]

-----------------------------------------------------------------------------
(***************************************************************************)
(* Rest.                                                                   *)
(***************************************************************************)

(* What nothing has moved since is what the pass has in hand.              *)
Fresh == ~seen.event /\ ~seen.state

RestInv ==
    /\ PastDerive /\ Fresh =>
          work.course = course /\ \A r \in Runners : work.crossings[r] = Stated(r)
    /\ pc \in {"revise", "results"} /\ Fresh =>
          \A n \in 1..published : n \in work.revisions \/ sentRevisions[n] # "no"
    /\ RestIsSync

IInv ==
    TypeOK /\ Shape /\ PairInv /\ FreshRace /\ CourseInv /\ RevisionInv /\ CrossingsInv /\ RestInv

(* The least of a set of numbers is in it.                                 *)
LEMMA LeastFacts ==
    ASSUME NEW S \in SUBSET Nat, S # {}
    PROVE  Least(S) \in S /\ \A m \in S : Least(S) <= m
<1>1. PICK t \in S : \A u \in S : ~(<<u, t>> \in OpToRel(<, Nat))
  BY WFMin, NatLessThanWellFounded
<1>2. \A u \in S : ~(u < t)
  BY <1>1 DEF OpToRel
<1>3. \A u \in S : t <= u
  BY <1>2
<1> QED
  BY <1>3 DEF Least

(* What the statuses an answer may have mean.                              *)
LEMMA Answers ==
    /\ Classify(200) = "delivered" /\ Classify(401) = "unpaired"
    /\ \A status \in NotTaken : Classify(status) \in {"refused", "retry"}
BY DEF Classify, NotTaken

(* A document is taken or not, and an answer that says so is one the page  *)
(* gave.                                                                   *)
LEMMA ExchangeFacts ==
    ASSUME TypeOK, work.to \in Pairings, NEW taken \in Holdings, Exchange(taken)
    PROVE  /\ held' \in [Races -> Holdings] /\ mishaps' \in 0..MaxMishaps
           /\ answer' \in {"delivered", "refused", "retry", "unpaired"}
           /\ \/ held' = held /\ answer' # "delivered"
              \/ held' = [held EXCEPT ![work.to.race] = taken] /\ answer' \in {"delivered", "retry"}
<1>1. held \in [Races -> Holdings] /\ mishaps \in 0..MaxMishaps /\ work.to.race \in Races
  BY DEF TypeOK, Pairings
<1>2. mishaps' \in 0..MaxMishaps
  BY <1>1, ShipperConstants DEF Exchange, Mishap, Smoothly
<1>3. CASE held' = [held EXCEPT ![work.to.race] = taken] /\ answer' \in {"delivered", "retry"}
  BY <1>1, <1>2, <1>3
<1>4. CASE held' = held /\ answer' \in {"refused", "retry", "unpaired"}
  BY <1>1, <1>2, <1>4
<1>5. \/ held' = [held EXCEPT ![work.to.race] = taken] /\ answer' \in {"delivered", "retry"}
      \/ held' = held /\ answer' \in {"refused", "retry", "unpaired"}
  BY Answers DEF Exchange, NoAnswer
<1> QED
  BY <1>3, <1>4, <1>5

(* The types of what is stated and held, and of their updates.             *)
LEMMA HoldsNothingType == HoldsNothing \in Holdings
BY ShipperConstants DEF HoldsNothing, Holdings, Crossings

LEMMA StatedType ==
    ASSUME TypeOK, NEW r \in Runners
    PROVE  Stated(r) \in Crossings
BY SMTT(60), ShipperConstants DEF TypeOK, Stated, Crossings, NoCrossings

LEMMA HoldingUpdates ==
    ASSUME NEW h \in Holdings
    PROVE  /\ \A c \in 0..MaxCourse : [h EXCEPT !.course = c] \in Holdings
           /\ \A c \in [Runners -> Crossings] : [h EXCEPT !.crossings = c] \in Holdings
           /\ \A n \in SUBSET (1..MaxRevisions) : [h EXCEPT !.revisions = n] \in Holdings
BY DEF Holdings

LEMMA NoWorkType ==
    NoWork \in [to : Pairings \cup {NotPaired}, course : 0..MaxCourse,
                 crossings : [Runners -> Crossings], todo : SUBSET Runners,
                 batch : SUBSET Runners, revisions : SUBSET (1..MaxRevisions)]
BY ShipperConstants DEF NoWork, NoRunnerSent, Crossings

Seens == [event : BOOLEAN, state : BOOLEAN, retry : BOOLEAN, reopened : BOOLEAN]

(* The flags of what is still to be looked at stay flags.                  *)
LEMMA SeenUpdates ==
    ASSUME NEW s \in Seens
    PROVE  /\ [s EXCEPT !.event = TRUE] \in Seens /\ [s EXCEPT !.state = TRUE] \in Seens
           /\ [s EXCEPT !.event = FALSE, !.state = FALSE, !.reopened = FALSE] \in Seens
           /\ \A b \in BOOLEAN : [s EXCEPT !.retry = b] \in Seens
           /\ \A b \in BOOLEAN : [s EXCEPT !.event = b, !.reopened = TRUE] \in Seens
           /\ Unseen \in Seens
BY Zenon DEF Seens, Unseen

LEMMA SeenStep ==
    ASSUME seen \in Seens, [Next]_vars
    PROVE  seen' \in Seens
BY SeenUpdates, Zenon DEF Next, Timer, PairSteps, Director, PassSteps, ConfigChanges, SetCourse,
   Publish, CrossingsChange, InsertPairing, ForgetCourse, ForgetCrossings, ForgetRevisions,
   ClearUnpaired, PairMoves, PairDies, AskToPair, Unpair, Look, StopUnpaired, TakePairing,
   StopWithoutCourse, Derive, Settle, CourseDelivered, CourseRefused, PutManifest, RecordManifest,
   Diff, PostCrossings, RecordRunner, ListRevisions, SkipRevision, PostRevision, CannotPublish,
   RecordRevision, PassDone, PassFails, Die, Start, LookInVain, EndPass, Continue, vars

Pairs == [at : {"away", "insert", "course", "crossings", "revisions", "unpaired"},
          race : Races \cup {"none"}, token : 0..MaxPairings]

Works == [to : Pairings \cup {NotPaired}, course : 0..MaxCourse,
          crossings : [Runners -> Crossings], todo : SUBSET Runners,
          batch : SUBSET Runners, revisions : SUBSET (1..MaxRevisions)]

(* What the command and a pass have in hand keeps its type.                *)
LEMMA PairUpdates ==
    ASSUME NEW p \in Pairs
    PROVE  \A to \in {"away", "insert", "course", "crossings", "revisions", "unpaired"} :
              [p EXCEPT !.at = to] \in Pairs
BY DEF Pairs

LEMMA WorkUpdates ==
    ASSUME NEW w \in Works
    PROVE  /\ \A p \in Pairings : [w EXCEPT !.to = p] \in Works
           /\ \A c \in 0..MaxCourse, s \in [Runners -> Crossings] :
                 [w EXCEPT !.course = c, !.crossings = s] \in Works
           /\ \A S \in SUBSET Runners :
                 [w EXCEPT !.todo = S] \in Works /\ [w EXCEPT !.batch = S] \in Works
           /\ \A S, T \in SUBSET Runners : [w EXCEPT !.batch = S, !.todo = T] \in Works
           /\ \A n \in SUBSET (1..MaxRevisions) : [w EXCEPT !.revisions = n] \in Works
BY DEF Works

(* Every step keeps the types.                                             *)
LEMMA TypeStep ==
    ASSUME TypeOK, Shape, [Next]_vars
    PROVE  TypeOK'
<1>0. seen \in Seens /\ seen' \in Seens
  BY SeenStep DEF TypeOK, Seens
<1> USE <1>0, ShipperConstants DEF Seens, TypeOK, local, remote, sent, shipdb, pass, Smoothly,
        Mishap, ElsewhereUnchanged
<1>1. CASE ConfigChanges
  BY SMTT(60), <1>1 DEF ConfigChanges, NextCourse
<1>2. CASE SetCourse
  BY SMTT(60), <1>2 DEF SetCourse, NextCourse
<1>3. CASE Publish
  BY SMTT(60), <1>3 DEF Publish
<1>4. ASSUME NEW r \in Runners, CrossingsChange(r)
      PROVE  TypeOK'
  BY SMTT(60), <1>4 DEF CrossingsChange
<1>5. CASE InsertPairing
  <2>1. pairing' \in Pairings
    BY <1>5 DEF InsertPairing, PairMoves, Pairings, Shape
  <2>2. pair' \in Pairs
    BY ZenonT(60), <1>5, PairUpdates DEF InsertPairing, PairMoves, Pairs
  <2> QED
    BY ZenonT(60), <1>5, <2>1, <2>2 DEF InsertPairing, PairMoves, Pairs
<1>6. CASE ForgetCourse
  <2>1. sentCourse' \in [course : 0..MaxCourse, delivered : BOOLEAN]
    <3>1. 0 \in 0..MaxCourse
      OBVIOUS
    <3> QED
      BY <1>6, <3>1, Zenon DEF ForgetCourse, NoneSent
  <2> QED
    BY ZenonT(60), <1>6, <2>1 DEF ForgetCourse, PairMoves
<1>7. CASE ForgetCrossings
  BY ZenonT(60), <1>7 DEF ForgetCrossings, PairMoves, NoRunnerSent, Crossings, NoCrossings
<1>8. CASE ForgetRevisions
  BY ZenonT(60), <1>8 DEF ForgetRevisions, PairMoves, NoRevisionSent
<1>9. CASE ClearUnpaired
  BY ZenonT(60), <1>9 DEF ClearUnpaired, PairMoves
<1>10. CASE PairDies
  <2>1. pair' \in Pairs
    BY <1>10, PairUpdates DEF PairDies, Pairs
  <2>2. mishaps' \in 0..MaxMishaps
    BY SMTT(60), <1>10 DEF PairDies
  <2> QED
    BY ZenonT(60), <1>10, <2>1, <2>2 DEF PairDies, Pairs
<1>11. ASSUME NEW race \in Races, AskToPair(race)
      PROVE  TypeOK'
  <2>1. pair' \in Pairs
    BY SMTT(60), <1>11 DEF AskToPair, Pairs
  <2>2. accepted' \in [Races -> 0..MaxPairings]
    BY SMTT(60), <1>11 DEF AskToPair
  <2> QED
    BY ZenonT(60), <1>11, <2>1, <2>2 DEF AskToPair, Pairs
<1>12. ASSUME NEW race \in Races, Unpair(race)
      PROVE  TypeOK'
  <2>1. accepted' \in [Races -> 0..MaxPairings]
    BY <1>12 DEF Unpair
  <2>2. mishaps' \in 0..MaxMishaps
    BY <1>12 DEF Unpair
  <2> QED
    BY <1>12, <2>1, <2>2, SMTT(60) DEF Unpair
<1>13. CASE Look
  BY SMTT(60), <1>13 DEF Look
<1>14. CASE StopUnpaired
  BY ZenonT(60), <1>14, NoWorkType DEF StopUnpaired, EndPass
<1>15. CASE TakePairing
  BY <1>15 DEF TakePairing, Continue
<1>16. CASE StopWithoutCourse
  BY SMTT(60), <1>16, NoWorkType DEF StopWithoutCourse, EndPass
<1>17. CASE Derive
  <2>1. [r \in Runners |-> Stated(r)] \in [Runners -> Crossings]
    BY StatedType
  <2>2. work' \in Works
    BY <1>17, <2>1, WorkUpdates DEF Derive, Continue, Works
  <2> QED
    BY Zenon, <1>17, <2>2 DEF Derive, Continue, Works
<1>18. CASE Settle
  BY ZenonT(60), <1>18, NoWorkType DEF Settle, EndPass
<1>19. CASE CourseDelivered
  BY <1>19 DEF CourseDelivered, Continue
<1>20. CASE CourseRefused
  BY ZenonT(60), <1>20, NoWorkType DEF CourseRefused, EndPass
<1>21. CASE PutManifest
  <2>1. work.to \in Pairings /\ Theirs \in Holdings
    BY <1>21 DEF PutManifest, Shape, PastDerive, Theirs, Pairings
  <2>2. [Theirs EXCEPT !.course = work.course] \in Holdings
    BY <2>1, HoldingUpdates
  <2> QED
    BY ZenonT(60), <1>21, <2>1, <2>2, ExchangeFacts DEF PutManifest
<1>22. CASE RecordManifest
  BY SMTT(60), <1>22, NoWorkType DEF RecordManifest, Continue, EndPass
<1>23. CASE Diff
  BY <1>23 DEF Diff, Continue, Changed
<1>24. CASE PostCrossings
  <2>1. work.to \in Pairings /\ Theirs \in Holdings /\ Theirs.crossings \in [Runners -> Crossings]
    BY <1>24 DEF PostCrossings, Shape, PastDerive, PastCourse, Theirs, Pairings, Holdings
  <2>2. PICK last \in work.todo :
          LET batch == {r \in work.todo : r <= last}
          IN /\ Exchange([Theirs EXCEPT !.crossings = [r \in Runners |->
                              IF r \in batch THEN work.crossings[r] ELSE @[r]]])
             /\ work' = [work EXCEPT !.batch = batch, !.todo = @ \ batch]
    BY Zenon, <1>24 DEF PostCrossings
  <2> DEFINE batch == {r \in work.todo : r <= last}
             theirs == [r \in Runners |->
                          IF r \in batch THEN work.crossings[r] ELSE Theirs.crossings[r]]
  <2>3. [Theirs EXCEPT !.crossings = theirs] \in Holdings
    BY <2>1, HoldingUpdates
  <2>4. Exchange([Theirs EXCEPT !.crossings = theirs])
    BY <2>2
  <2>5. work' \in Works
    <3>1. batch \in SUBSET Runners /\ work.todo \ batch \in SUBSET Runners /\ work \in Works
      BY DEF Works
    <3> QED
      BY <2>2, <3>1, WorkUpdates
  <2> QED
    BY ZenonT(60), <1>24, <2>1, <2>3, <2>4, <2>5, ExchangeFacts DEF PostCrossings, Works
<1>25. CASE RecordRunner
  <2>1. work.batch # {} /\ Least(work.batch) \in work.batch
    BY <1>25, LeastFacts DEF RecordRunner, Shape
  <2>2. work' \in Works
    BY <1>25, <2>1, WorkUpdates DEF RecordRunner, Works
  <2> QED
    <3>1. sentCrossings' \in [Runners -> Crossings] /\ setAside' \subseteq Runners
      BY ZenonT(60), <1>25, <2>1 DEF RecordRunner
    <3>2. pc' \in {"send", "crossings"} /\ answer' \in {"none", "delivered", "refused"}
      BY <1>25 DEF RecordRunner
    <3> QED
      BY ZenonT(60), <1>25, <2>2, <3>1, <3>2 DEF RecordRunner, Works
<1>26. CASE ListRevisions
  <2>1. 1..published \in SUBSET (1..MaxRevisions)
    OBVIOUS
  <2>2. work' \in Works
    BY <1>26, <2>1, WorkUpdates DEF ListRevisions, Continue, Works
  <2> QED
    BY <1>26, <2>2 DEF ListRevisions, Continue, Works
<1>27. CASE SkipRevision
  BY <1>27 DEF SkipRevision, Continue
<1>28. CASE PostRevision
  <2>1. work.to \in Pairings /\ Theirs \in Holdings /\ Theirs.revisions \in SUBSET (1..MaxRevisions)
    BY <1>28 DEF PostRevision, Shape, PastDerive, PastCourse, Theirs, Pairings, Holdings
  <2>2. At \in 1..MaxRevisions
    <3>1. work.revisions \in SUBSET Nat /\ work.revisions # {}
      BY SMTT(60), <1>28 DEF PostRevision
    <3> QED
      BY <3>1, LeastFacts DEF At
  <2>3. [Theirs EXCEPT !.revisions = @ \cup {At}] \in Holdings
    BY <2>1, <2>2, HoldingUpdates
  <2> QED
    BY ZenonT(60), <1>28, <2>1, <2>3, ExchangeFacts DEF PostRevision
<1>29. CASE CannotPublish
  <2>1. mishaps' \in 0..MaxMishaps
    BY <1>29 DEF CannotPublish
  <2> QED
    BY ZenonT(60), <1>29, <2>1 DEF CannotPublish
<1>30. CASE RecordRevision
  BY ZenonT(60), <1>30 DEF RecordRevision, Continue
<1>31. CASE PassDone
  BY ZenonT(60), <1>31, NoWorkType DEF PassDone, EndPass
<1>32. CASE PassFails
  <2>1. mishaps' \in 0..MaxMishaps
    BY SMTT(60), <1>32 DEF PassFails
  <2> QED
    BY ZenonT(60), <1>32, <2>1, NoWorkType DEF PassFails
<1>33. CASE Die
  <2>1. mishaps' \in 0..MaxMishaps
    BY <1>33 DEF Die
  <2> QED
    BY ZenonT(60), <1>33, <2>1, NoWorkType DEF Die
<1>34. CASE Start
  BY SMTT(60), <1>34 DEF Start
<1>35. CASE LookInVain
  BY ZenonT(60), <1>35 DEF LookInVain, vars
<1>36. CASE UNCHANGED vars
  BY <1>36, SMTT(60) DEF vars
<1> QED
  BY Zenon, <1>1, <1>2, <1>3, <1>4, <1>5, <1>6, <1>7, <1>8, <1>9, <1>10, <1>11, <1>12, <1>13, <1>14,
     <1>15, <1>16, <1>17, <1>18, <1>19, <1>20, <1>21, <1>22, <1>23, <1>24, <1>25, <1>26, <1>27,
     <1>28, <1>29, <1>30, <1>31, <1>32, <1>33, <1>34, <1>35, <1>36 DEF Next, Timer, PairSteps,
     Director, PassSteps

(* Every step keeps what a pass has in its hands.                          *)
LEMMA ShapeStep ==
    ASSUME TypeOK, Shape, TypeOK', [Next]_vars
    PROVE  Shape'
<1> USE ShipperConstants DEF local, remote, sent, shipdb, pass, Smoothly, Mishap,
        ElsewhereUnchanged, Shape, PastDerive, PastCourse, NoWork, TypeOK, Paired
<1>1. CASE ConfigChanges
  BY <1>1 DEF ConfigChanges, NextCourse
<1>2. CASE SetCourse
  BY <1>2 DEF SetCourse, NextCourse
<1>3. CASE Publish
  BY <1>3 DEF Publish
<1>4. ASSUME NEW r \in Runners, CrossingsChange(r)
      PROVE  Shape'
  BY <1>4 DEF CrossingsChange
<1>5. CASE InsertPairing
  BY <1>5 DEF InsertPairing, PairMoves
<1>6. CASE ForgetCourse
  BY <1>6 DEF ForgetCourse, PairMoves, NoneSent
<1>7. CASE ForgetCrossings
  BY <1>7 DEF ForgetCrossings, PairMoves, NoRunnerSent
<1>8. CASE ForgetRevisions
  BY <1>8 DEF ForgetRevisions, PairMoves, NoRevisionSent
<1>9. CASE ClearUnpaired
  BY <1>9 DEF ClearUnpaired, PairMoves
<1>10. CASE PairDies
  BY <1>10 DEF PairDies
<1>11. ASSUME NEW race \in Races, AskToPair(race)
      PROVE  Shape'
  BY SMTT(60), <1>11 DEF AskToPair
<1>12. ASSUME NEW race \in Races, Unpair(race)
      PROVE  Shape'
  BY <1>12 DEF Unpair
<1>13. CASE Look
  BY <1>13 DEF Look
<1>14. CASE StopUnpaired
  BY <1>14 DEF StopUnpaired, EndPass
<1>15. CASE TakePairing
  BY <1>15 DEF TakePairing, Continue
<1>16. CASE StopWithoutCourse
  BY <1>16 DEF StopWithoutCourse, EndPass
<1>17. CASE Derive
  BY <1>17 DEF Derive, Continue
<1>18. CASE Settle
  BY <1>18 DEF Settle, EndPass
<1>19. CASE CourseDelivered
  BY <1>19 DEF CourseDelivered, Continue
<1>20. CASE CourseRefused
  BY <1>20 DEF CourseRefused, EndPass
<1>21. CASE PutManifest
  BY <1>21 DEF PutManifest
<1>22. CASE RecordManifest
  BY SMTT(60), <1>22 DEF RecordManifest, Continue, EndPass
<1>23. CASE Diff
  BY <1>23 DEF Diff, Continue, Changed
<1>24. CASE PostCrossings
  <2>1. PICK last \in work.todo : work' = [work EXCEPT !.batch = {r \in work.todo : r <= last},
                                                      !.todo = @ \ {r \in work.todo : r <= last}]
    BY ZenonT(60), <1>24 DEF PostCrossings
  <2>2. last \in work'.batch
    <3>1. last \in Nat /\ last \in {r \in work.todo : r <= last}
      OBVIOUS
    <3>2. work'.batch = {r \in work.todo : r <= last}
      BY <2>1
    <3> QED
      BY <3>1, <3>2
  <2>3. work'.to = work.to
    BY <2>1
  <2> QED
    BY ZenonT(60), <1>24, <2>2, <2>3 DEF PostCrossings
<1>25. CASE RecordRunner
  BY <1>25 DEF RecordRunner
<1>26. CASE ListRevisions
  BY <1>26 DEF ListRevisions, Continue
<1>27. CASE SkipRevision
  BY <1>27 DEF SkipRevision, Continue
<1>28. CASE PostRevision
  BY <1>28 DEF PostRevision
<1>29. CASE CannotPublish
  BY <1>29 DEF CannotPublish
<1>30. CASE RecordRevision
  BY <1>30 DEF RecordRevision, Continue
<1>31. CASE PassDone
  BY <1>31 DEF PassDone, EndPass
<1>32. CASE PassFails
  BY <1>32 DEF PassFails
<1>33. CASE Die
  BY <1>33 DEF Die
<1>34. CASE Start
  BY <1>34 DEF Start
<1>35. CASE LookInVain
  BY <1>35 DEF LookInVain, vars
<1>36. CASE UNCHANGED vars
  BY <1>36 DEF vars
<1> QED
  BY <1>1, <1>2, <1>3, <1>4, <1>5, <1>6, <1>7, <1>8, <1>9, <1>10, <1>11, <1>12, <1>13, <1>14,
     <1>15, <1>16, <1>17, <1>18, <1>19, <1>20, <1>21, <1>22, <1>23, <1>24, <1>25, <1>26, <1>27,
     <1>28, <1>29, <1>30, <1>31, <1>32, <1>33, <1>34, <1>35, <1>36 DEF Next, Timer, PairSteps,
     Director, PassSteps

(* With the pair command run as the operator's guide says, no pass runs    *)
(* beside it.                                                              *)
LEMMA PairStep ==
    ASSUME TypeOK, Shape, PairInv, ~PairDisturbed, TypeOK', [Next]_vars
    PROVE  PairInv'
<1> USE ShipperConstants DEF local, remote, sent, shipdb, pass, Smoothly, Mishap,
        ElsewhereUnchanged, Shape, PairInv, PastDerive, PastCourse, NoWork, TypeOK, Paired
<1>1. CASE ConfigChanges
  BY <1>1 DEF ConfigChanges, NextCourse
<1>2. CASE SetCourse
  BY <1>2 DEF SetCourse, NextCourse
<1>3. CASE Publish
  BY <1>3 DEF Publish
<1>4. ASSUME NEW r \in Runners, CrossingsChange(r)
      PROVE  PairInv'
  BY <1>4 DEF CrossingsChange
<1>5. CASE InsertPairing
  BY <1>5 DEF InsertPairing, PairMoves
<1>6. CASE ForgetCourse
  BY <1>6 DEF ForgetCourse, PairMoves, NoneSent
<1>7. CASE ForgetCrossings
  BY <1>7 DEF ForgetCrossings, PairMoves, NoRunnerSent
<1>8. CASE ForgetRevisions
  BY <1>8 DEF ForgetRevisions, PairMoves, NoRevisionSent
<1>9. CASE ClearUnpaired
  BY <1>9 DEF ClearUnpaired, PairMoves
<1>10. CASE PairDies
  BY <1>10 DEF PairDies
<1>11. ASSUME NEW race \in Races, AskToPair(race)
      PROVE  PairInv'
  BY <1>11 DEF AskToPair
<1>12. ASSUME NEW race \in Races, Unpair(race)
      PROVE  PairInv'
  BY <1>12 DEF Unpair
<1>13. CASE Look
  BY <1>13 DEF Look
<1>14. CASE StopUnpaired
  BY <1>14 DEF StopUnpaired, EndPass
<1>15. CASE TakePairing
  BY <1>15 DEF TakePairing, Continue
<1>16. CASE StopWithoutCourse
  BY <1>16 DEF StopWithoutCourse, EndPass
<1>17. CASE Derive
  BY <1>17 DEF Derive, Continue
<1>18. CASE Settle
  BY SMTT(60), <1>18 DEF Settle, EndPass
<1>19. CASE CourseDelivered
  BY <1>19 DEF CourseDelivered, Continue
<1>20. CASE CourseRefused
  BY <1>20 DEF CourseRefused, EndPass
<1>21. CASE PutManifest
  BY <1>21 DEF PutManifest
<1>22. CASE RecordManifest
  BY SMTT(60), <1>22 DEF RecordManifest, Continue, EndPass
<1>23. CASE Diff
  BY SMTT(60), <1>23 DEF Diff, Continue, Changed
<1>24. CASE PostCrossings
  BY ZenonT(60), <1>24 DEF PostCrossings
<1>25. CASE RecordRunner
  BY <1>25 DEF RecordRunner
<1>26. CASE ListRevisions
  BY <1>26 DEF ListRevisions, Continue
<1>27. CASE SkipRevision
  BY <1>27 DEF SkipRevision, Continue
<1>28. CASE PostRevision
  BY <1>28 DEF PostRevision
<1>29. CASE CannotPublish
  BY <1>29 DEF CannotPublish
<1>30. CASE RecordRevision
  BY <1>30 DEF RecordRevision, Continue
<1>31. CASE PassDone
  BY <1>31 DEF PassDone, EndPass
<1>32. CASE PassFails
  BY <1>32 DEF PassFails
<1>33. CASE Die
  BY <1>33 DEF Die
<1>34. CASE Start
  BY <1>34 DEF Start
<1>35. CASE LookInVain
  BY <1>35 DEF LookInVain, vars
<1>36. CASE UNCHANGED vars
  BY <1>36 DEF vars
<1> QED
  BY <1>1, <1>2, <1>3, <1>4, <1>5, <1>6, <1>7, <1>8, <1>9, <1>10, <1>11, <1>12, <1>13, <1>14,
     <1>15, <1>16, <1>17, <1>18, <1>19, <1>20, <1>21, <1>22, <1>23, <1>24, <1>25, <1>26, <1>27,
     <1>28, <1>29, <1>30, <1>31, <1>32, <1>33, <1>34, <1>35, <1>36 DEF Next, Timer, PairSteps,
     Director, PassSteps

(* And with no race paired with twice, the race is still empty when the    *)
(* command is done.                                                        *)
LEMMA FreshStep ==
    ASSUME TypeOK, Shape, PairInv, FreshRace, ~PairDisturbed, ~RaceReused, TypeOK', [Next]_vars
    PROVE  FreshRace'
<1> USE ShipperConstants DEF local, remote, sent, shipdb, pass, Smoothly, Mishap,
        ElsewhereUnchanged, FreshRace, TypeOK
<1>1. CASE ConfigChanges
  BY <1>1 DEF ConfigChanges, NextCourse
<1>2. CASE SetCourse
  BY <1>2 DEF SetCourse, NextCourse
<1>3. CASE Publish
  BY <1>3 DEF Publish
<1>4. ASSUME NEW r \in Runners, CrossingsChange(r)
      PROVE  FreshRace'
  BY <1>4 DEF CrossingsChange
<1>5. CASE InsertPairing
  BY <1>5 DEF InsertPairing, PairMoves
<1>6. CASE ForgetCourse
  BY <1>6 DEF ForgetCourse, PairMoves, NoneSent
<1>7. CASE ForgetCrossings
  BY <1>7 DEF ForgetCrossings, PairMoves, NoRunnerSent
<1>8. CASE ForgetRevisions
  BY <1>8 DEF ForgetRevisions, PairMoves, NoRevisionSent
<1>9. CASE ClearUnpaired
  BY <1>9 DEF ClearUnpaired, PairMoves
<1>10. CASE PairDies
  BY <1>10 DEF PairDies, PairInv, Shape
<1>11. ASSUME NEW race \in Races, AskToPair(race)
      PROVE  FreshRace'
  BY <1>11 DEF AskToPair, PairInv, Shape
<1>12. ASSUME NEW race \in Races, Unpair(race)
      PROVE  FreshRace'
  BY <1>12 DEF Unpair
<1>13. CASE Look
  BY <1>13 DEF Look
<1>14. CASE StopUnpaired
  BY <1>14 DEF StopUnpaired, EndPass
<1>15. CASE TakePairing
  BY <1>15 DEF TakePairing, Continue
<1>16. CASE StopWithoutCourse
  BY <1>16 DEF StopWithoutCourse, EndPass
<1>17. CASE Derive
  BY <1>17 DEF Derive, Continue
<1>18. CASE Settle
  BY <1>18 DEF Settle, EndPass
<1>19. CASE CourseDelivered
  BY <1>19 DEF CourseDelivered, Continue
<1>20. CASE CourseRefused
  BY <1>20 DEF CourseRefused, EndPass
<1>21. CASE PutManifest
  BY <1>21 DEF PutManifest, PairInv, Shape
<1>22. CASE RecordManifest
  BY <1>22 DEF RecordManifest, Continue, EndPass
<1>23. CASE Diff
  BY <1>23 DEF Diff, Continue, Changed
<1>24. CASE PostCrossings
  BY <1>24 DEF PostCrossings, PairInv, Shape
<1>25. CASE RecordRunner
  BY <1>25 DEF RecordRunner
<1>26. CASE ListRevisions
  BY <1>26 DEF ListRevisions, Continue
<1>27. CASE SkipRevision
  BY <1>27 DEF SkipRevision, Continue
<1>28. CASE PostRevision
  BY <1>28 DEF PostRevision, PairInv, Shape
<1>29. CASE CannotPublish
  BY <1>29 DEF CannotPublish
<1>30. CASE RecordRevision
  BY <1>30 DEF RecordRevision, Continue
<1>31. CASE PassDone
  BY <1>31 DEF PassDone, EndPass
<1>32. CASE PassFails
  BY <1>32 DEF PassFails
<1>33. CASE Die
  BY <1>33 DEF Die
<1>34. CASE Start
  BY <1>34 DEF Start
<1>35. CASE LookInVain
  BY <1>35 DEF LookInVain, vars
<1>36. CASE UNCHANGED vars
  BY <1>36 DEF vars
<1> QED
  BY <1>1, <1>2, <1>3, <1>4, <1>5, <1>6, <1>7, <1>8, <1>9, <1>10, <1>11, <1>12, <1>13, <1>14,
     <1>15, <1>16, <1>17, <1>18, <1>19, <1>20, <1>21, <1>22, <1>23, <1>24, <1>25, <1>26, <1>27,
     <1>28, <1>29, <1>30, <1>31, <1>32, <1>33, <1>34, <1>35, <1>36 DEF Next, Timer, PairSteps,
     Director, PassSteps

(* Of the page, each request changes one thing, or nothing when it was not *)
(* taken; and what was answered as delivered was.                          *)
LEMMA PutManifestFacts ==
    ASSUME TypeOK, Shape, PairInv, PutManifest
    PROVE  /\ pairing' = pairing /\ work.to = pairing
           /\ Page'.crossings = Page.crossings /\ Page'.revisions = Page.revisions
           /\ answer' = "delivered" => Page'.course = work.course
<1> DEFINE taken == [Page EXCEPT !.course = work.course]
<1>1. pairing \in Pairings /\ work.to = pairing /\ Theirs = Page /\ Page \in Holdings
  BY DEF TypeOK, PutManifest, PairInv, PastDerive, Theirs, Page, Pairings
<1>2. taken \in Holdings /\ Exchange(taken)
  BY <1>1, HoldingUpdates DEF TypeOK, PutManifest
<1>3. /\ taken.course = work.course /\ taken.crossings = Page.crossings
      /\ taken.revisions = Page.revisions
  BY <1>1 DEF Holdings
<1> HIDE DEF taken
<1>4. pairing' = pairing
  BY DEF PutManifest, shipdb
<1>5. CASE held' = held /\ answer' # "delivered"
  BY <1>1, <1>4, <1>5 DEF Page
<1>6. CASE held' = [held EXCEPT ![pairing.race] = taken]
  <2>1. Page' = taken
    BY SMTT(60), <1>1, <1>4, <1>6 DEF TypeOK, Page, Pairings
  <2> QED
    BY <1>1, <1>3, <1>4, <2>1
<1> QED
  BY <1>1, <1>2, <1>5, <1>6, ExchangeFacts

LEMMA PostCrossingsFacts ==
    ASSUME TypeOK, Shape, PairInv, PostCrossings
    PROVE  \E batch \in SUBSET work.todo :
           /\ pairing' = pairing /\ work.to = pairing
           /\ work' = [work EXCEPT !.batch = batch, !.todo = @ \ batch]
           /\ Page'.course = Page.course /\ Page'.revisions = Page.revisions
           /\ \A r \in Runners \ batch : Page'.crossings[r] = Page.crossings[r]
           /\ answer' = "delivered" => \A r \in batch : Page'.crossings[r] = work.crossings[r]
<1>1. pairing \in Pairings /\ work.to = pairing /\ Theirs = Page /\ Page \in Holdings
  BY SMTT(60) DEF TypeOK, PostCrossings, PairInv, PastDerive, PastCourse, Theirs, Page, Pairings
<1>2. PICK last \in work.todo :
          LET batch == {r \in work.todo : r <= last}
          IN /\ Exchange([Theirs EXCEPT !.crossings = [r \in Runners |->
                              IF r \in batch THEN work.crossings[r] ELSE @[r]]])
             /\ work' = [work EXCEPT !.batch = batch, !.todo = @ \ batch]
  BY Zenon DEF PostCrossings
<1> DEFINE batch == {r \in work.todo : r <= last}
           theirs == [r \in Runners |->
                         IF r \in batch THEN work.crossings[r] ELSE Page.crossings[r]]
           taken == [Page EXCEPT !.crossings = theirs]
<1>3. theirs \in [Runners -> Crossings]
  BY <1>1 DEF TypeOK, Holdings
<1>4. taken \in Holdings /\ Exchange(taken)
  BY <1>1, <1>2, <1>3, HoldingUpdates
<1>5. taken.course = Page.course /\ taken.crossings = theirs /\ taken.revisions = Page.revisions
  BY <1>1 DEF Holdings
<1>6. batch \in SUBSET work.todo /\ work' = [work EXCEPT !.batch = batch, !.todo = @ \ batch]
  BY <1>2
<1>7. \A r \in Runners : theirs[r] = IF r \in batch THEN work.crossings[r] ELSE Page.crossings[r]
  OBVIOUS
<1>8. batch \subseteq Runners
  BY DEF TypeOK
<1> HIDE DEF batch, theirs, taken
<1>9. pairing' = pairing
  BY DEF PostCrossings, shipdb
<1>10. CASE held' = held /\ answer' # "delivered"
  <2>1. Page' = Page
    BY <1>9, <1>10 DEF Page
  <2> QED
    BY <1>1, <1>6, <1>9, <1>10, <2>1
<1>11. CASE held' = [held EXCEPT ![pairing.race] = taken]
  <2>1. Page' = taken
    BY <1>1, <1>9, <1>11 DEF TypeOK, Page, Pairings
  <2> QED
    BY <1>1, <1>5, <1>6, <1>7, <1>8, <1>9, <2>1
<1> QED
  BY ZenonT(60), <1>1, <1>4, <1>10, <1>11, ExchangeFacts

LEMMA PostRevisionFacts ==
    ASSUME TypeOK, Shape, PairInv, PostRevision
    PROVE  /\ pairing' = pairing /\ work.to = pairing
           /\ At \in work.revisions /\ \A n \in work.revisions : At <= n
           /\ Page'.course = Page.course /\ Page'.crossings = Page.crossings
           /\ Page'.revisions \in {Page.revisions, Page.revisions \cup {At}}
           /\ answer' = "delivered" => At \in Page'.revisions
<1> DEFINE taken == [Page EXCEPT !.revisions = Page.revisions \cup {At}]
<1>1. pairing \in Pairings /\ work.to = pairing /\ Theirs = Page /\ Page \in Holdings
  BY DEF TypeOK, PostRevision, PairInv, PastDerive, PastCourse, Theirs, Page, Pairings
<1>2. At \in work.revisions /\ \A n \in work.revisions : At <= n
  <2>1. work.revisions \in SUBSET Nat /\ work.revisions # {}
    BY DEF TypeOK, PostRevision
  <2> QED
    BY <2>1, LeastFacts DEF At
<1>3. Page.revisions \cup {At} \in SUBSET (1..MaxRevisions)
  BY <1>1, <1>2 DEF TypeOK, Holdings
<1>4. taken \in Holdings /\ Exchange(taken)
  BY <1>1, <1>3, HoldingUpdates DEF PostRevision
<1>5. /\ taken.course = Page.course /\ taken.crossings = Page.crossings
      /\ taken.revisions = Page.revisions \cup {At}
  BY <1>1 DEF Holdings
<1> HIDE DEF taken
<1>6. pairing' = pairing
  BY DEF PostRevision, shipdb
<1>7. CASE held' = held /\ answer' # "delivered"
  <2>1. Page' = Page
    BY <1>6, <1>7 DEF Page
  <2> QED
    BY <1>1, <1>2, <1>6, <1>7, <2>1
<1>8. CASE held' = [held EXCEPT ![pairing.race] = taken]
  <2>1. Page' = taken
    BY <1>1, <1>6, <1>8 DEF TypeOK, Page, Pairings
  <2> QED
    BY <1>1, <1>2, <1>5, <1>6, <2>1
<1> QED
  BY <1>1, <1>4, <1>7, <1>8, ExchangeFacts

(* Every step keeps what is believed of the course.                        *)
LEMMA CourseStep ==
    ASSUME TypeOK, Shape, PairInv, CourseInv, ~PairDisturbed, ~Reverts,
           TypeOK', PairInv', [Next]_vars
    PROVE  CourseInv'
<1> USE ShipperConstants DEF local, remote, sent, shipdb, pass, Smoothly, Mishap,
        ElsewhereUnchanged, CourseInv, PairInv, Shape, PastDerive, PastCourse, NoWork, TypeOK,
        Paired, Returns, Returned
<1>1. CASE ConfigChanges
  BY <1>1 DEF ConfigChanges, NextCourse, Page
<1>2. CASE SetCourse
  BY <1>2 DEF SetCourse, NextCourse, Page
<1>3. CASE Publish
  BY <1>3 DEF Publish, Page
<1>4. ASSUME NEW r \in Runners, CrossingsChange(r)
      PROVE  CourseInv'
  BY <1>4 DEF CrossingsChange, Page
<1>5. CASE InsertPairing
  BY <1>5 DEF InsertPairing, PairMoves, Page
<1>6. CASE ForgetCourse
  BY <1>6 DEF ForgetCourse, PairMoves, NoneSent, Page
<1>7. CASE ForgetCrossings
  BY <1>7 DEF ForgetCrossings, PairMoves, NoRunnerSent, Page
<1>8. CASE ForgetRevisions
  BY <1>8 DEF ForgetRevisions, PairMoves, NoRevisionSent, Page
<1>9. CASE ClearUnpaired
  BY <1>9 DEF ClearUnpaired, PairMoves, Page
<1>10. CASE PairDies
  BY <1>10 DEF PairDies, Page
<1>11. ASSUME NEW race \in Races, AskToPair(race)
      PROVE  CourseInv'
  BY <1>11 DEF AskToPair, Page
<1>12. ASSUME NEW race \in Races, Unpair(race)
      PROVE  CourseInv'
  BY <1>12 DEF Unpair, Page
<1>13. CASE Look
  BY <1>13 DEF Look, Page
<1>14. CASE StopUnpaired
  BY <1>14 DEF StopUnpaired, EndPass, Page
<1>15. CASE TakePairing
  BY <1>15 DEF TakePairing, Continue, Page
<1>16. CASE StopWithoutCourse
  BY <1>16 DEF StopWithoutCourse, EndPass, Page
<1>17. CASE Derive
  <2>1. work'.course = course /\ pc' = "course" /\ work'.to = work.to
    BY <1>17 DEF Derive, Continue
  <2> QED
    BY <1>17, <2>1 DEF Derive, Page
<1>18. CASE Settle
  BY <1>18 DEF Settle, EndPass, Page
<1>19. CASE CourseDelivered
  BY <1>19 DEF CourseDelivered, Continue, Page
<1>20. CASE CourseRefused
  BY <1>20 DEF CourseRefused, EndPass, Page
<1>21. CASE PutManifest
  <2>1. /\ pairing' = pairing /\ sentCourse' = sentCourse /\ work' = work /\ course' = course
        /\ pair' = pair /\ pc' = "manifest"
    BY <1>21 DEF PutManifest
  <2>2. work.course # sentCourse.course /\ course # sentCourse.course
    BY <1>21 DEF PutManifest
  <2> QED
    BY <1>21, <2>1, <2>2, PutManifestFacts
<1>22. CASE RecordManifest
  BY SMTT(60), <1>22 DEF RecordManifest, Continue, EndPass, Page
<1>23. CASE Diff
  BY <1>23 DEF Diff, Continue, Changed, Page
<1>24. CASE PostCrossings
  <2>1. Page'.course = Page.course /\ work'.course = work.course
    BY ZenonT(60), <1>24, PostCrossingsFacts
  <2> QED
    BY <1>24, <2>1 DEF PostCrossings
<1>25. CASE RecordRunner
  BY <1>25 DEF RecordRunner, Page
<1>26. CASE ListRevisions
  BY <1>26 DEF ListRevisions, Continue, Page
<1>27. CASE SkipRevision
  BY <1>27 DEF SkipRevision, Continue, Page
<1>28. CASE PostRevision
  <2>1. Page'.course = Page.course
    BY <1>28, PostRevisionFacts
  <2> QED
    BY <1>28, <2>1 DEF PostRevision
<1>29. CASE CannotPublish
  BY <1>29 DEF CannotPublish, Page
<1>30. CASE RecordRevision
  BY <1>30 DEF RecordRevision, Continue, Page
<1>31. CASE PassDone
  BY <1>31 DEF PassDone, EndPass, Page
<1>32. CASE PassFails
  BY <1>32 DEF PassFails, Page
<1>33. CASE Die
  BY <1>33 DEF Die, Page
<1>34. CASE Start
  BY <1>34 DEF Start, Page
<1>35. CASE LookInVain
  BY <1>35 DEF LookInVain, vars, Page
<1>36. CASE UNCHANGED vars
  BY <1>36 DEF vars, Page
<1> QED
  BY Zenon, <1>1, <1>2, <1>3, <1>4, <1>5, <1>6, <1>7, <1>8, <1>9, <1>10, <1>11, <1>12, <1>13, <1>14,
     <1>15, <1>16, <1>17, <1>18, <1>19, <1>20, <1>21, <1>22, <1>23, <1>24, <1>25, <1>26, <1>27,
     <1>28, <1>29, <1>30, <1>31, <1>32, <1>33, <1>34, <1>35, <1>36 DEF Next, Timer, PairSteps,
     Director, PassSteps

(* The oldest revision on the list may be added to the page: those before  *)
(* it that the page lacks were refused.                                    *)
LEMMA OldestNext ==
    ASSUME NEW L \in Nat, NEW page \in SUBSET (1..L), NEW list \in SUBSET (1..L),
           NEW record \in [1..L -> {"no", "delivered", "refused"}], NEW at \in list,
           \A n \in list : at <= n,
           \A n \in 1..L : record[n] = "delivered" => n \in page,
           \A n \in page : \A m \in 1..n : m \in page \/ record[m] = "refused",
           \A n \in list : \A m \in 1..n : m \in list \/ record[m] # "no",
           NEW after \in {page, page \cup {at}}
    PROVE  \A n \in after : \A m \in 1..n : m \in after \/ record[m] = "refused"
<1>1. ASSUME NEW m \in 1..at, m # at
      PROVE  m \in page \/ record[m] = "refused"
  <2>1. m \in 1..L /\ m \notin list
    BY <1>1
  <2>2. record[m] # "no"
    BY <1>1, <2>1
  <2> QED
    BY <2>1, <2>2
<1>2. \A m \in 1..at : m \in page \cup {at} \/ record[m] = "refused"
  BY <1>1
<1> QED
  BY <1>2

(* Every step keeps the page's revisions in order.                         *)
LEMMA RevisionStep ==
    ASSUME TypeOK, Shape, PairInv, FreshRace, RevisionInv, ~PairDisturbed, ~RaceReused,
           TypeOK', PairInv', [Next]_vars
    PROVE  RevisionInv'
<1> USE ShipperConstants DEF local, remote, sent, shipdb, pass, Smoothly, Mishap,
        ElsewhereUnchanged, PairInv, Shape, PastDerive, PastCourse, NoWork, TypeOK, Paired,
        RevisionInv
<1>1. CASE ConfigChanges
  BY <1>1 DEF ConfigChanges, NextCourse, Page, At
<1>2. CASE SetCourse
  BY <1>2 DEF SetCourse, NextCourse, Page, At
<1>3. CASE Publish
  BY <1>3 DEF Publish, Page, At
<1>4. ASSUME NEW r \in Runners, CrossingsChange(r)
      PROVE  RevisionInv'
  BY <1>4 DEF CrossingsChange, Page, At
<1>5. CASE InsertPairing
  BY <1>5 DEF InsertPairing, PairMoves, Page, At
<1>6. CASE ForgetCourse
  BY <1>6 DEF ForgetCourse, PairMoves, NoneSent, Page, At
<1>7. CASE ForgetCrossings
  BY <1>7 DEF ForgetCrossings, PairMoves, NoRunnerSent, Page, At
<1>8. CASE ForgetRevisions
  BY SMTT(60), <1>8 DEF ForgetRevisions, PairMoves, NoRevisionSent, Page, At, FreshRace, HoldsNothing
<1>9. CASE ClearUnpaired
  BY <1>9 DEF ClearUnpaired, PairMoves, Page, At
<1>10. CASE PairDies
  BY <1>10 DEF PairDies, Page, At
<1>11. ASSUME NEW race \in Races, AskToPair(race)
      PROVE  RevisionInv'
  BY <1>11 DEF AskToPair, Page, At
<1>12. ASSUME NEW race \in Races, Unpair(race)
      PROVE  RevisionInv'
  BY <1>12 DEF Unpair, Page, At
<1>13. CASE Look
  BY <1>13 DEF Look, Page, At
<1>14. CASE StopUnpaired
  BY <1>14 DEF StopUnpaired, EndPass, Page, At
<1>15. CASE TakePairing
  BY <1>15 DEF TakePairing, Continue, Page, At
<1>16. CASE StopWithoutCourse
  BY SMTT(60), <1>16 DEF StopWithoutCourse, EndPass, Page, At
<1>17. CASE Derive
  BY ZenonT(60), <1>17 DEF Derive, Continue, Page, At
<1>18. CASE Settle
  BY <1>18 DEF Settle, EndPass, Page, At
<1>19. CASE CourseDelivered
  BY <1>19 DEF CourseDelivered, Continue, Page, At
<1>20. CASE CourseRefused
  BY <1>20 DEF CourseRefused, EndPass, Page, At
<1>21. CASE PutManifest
  <2>1. Page'.revisions = Page.revisions
    BY <1>21, PutManifestFacts
  <2> QED
    BY <1>21, <2>1 DEF PutManifest
<1>22. CASE RecordManifest
  BY SMTT(60), <1>22 DEF RecordManifest, Continue, EndPass, Page, At
<1>23. CASE Diff
  BY <1>23 DEF Diff, Continue, Changed, Page, At
<1>24. CASE PostCrossings
  <2>1. Page'.revisions = Page.revisions
    BY <1>24, PostCrossingsFacts
  <2> QED
    BY ZenonT(60), <1>24, <2>1 DEF PostCrossings
<1>25. CASE RecordRunner
  BY ZenonT(60), <1>25 DEF RecordRunner, Page, At
<1>26. CASE ListRevisions
  BY SMTT(60), <1>26 DEF ListRevisions, Continue, Page, At
<1>27. CASE SkipRevision
  BY SMTT(60), <1>27 DEF SkipRevision, Continue, Page, At
<1>28. CASE PostRevision
  <2>1. /\ At \in work.revisions /\ \A n \in work.revisions : At <= n
        /\ Page'.revisions \in {Page.revisions, Page.revisions \cup {At}}
        /\ answer' = "delivered" => At \in Page'.revisions
    BY <1>28, PostRevisionFacts
  <2>2. /\ pairing' = pairing /\ pairing # NotPaired /\ pair' = pair /\ pair.at = "away"
        /\ sentRevisions' = sentRevisions /\ work' = work /\ pc = "revise" /\ pc' = "results"
    BY <1>28 DEF PostRevision
  <2>3. At' = At
    BY <2>2 DEF At
  <2>4. /\ MaxRevisions \in Nat /\ Page.revisions \in SUBSET (1..MaxRevisions)
        /\ work.revisions \in SUBSET (1..MaxRevisions)
        /\ sentRevisions \in [1..MaxRevisions -> {"no", "delivered", "refused"}]
    BY <2>2 DEF Page, Holdings, Pairings
  <2>5. /\ \A n \in 1..MaxRevisions : sentRevisions[n] = "delivered" => n \in Page.revisions
        /\ \A n \in Page.revisions : \A m \in 1..n :
              m \in Page.revisions \/ sentRevisions[m] = "refused"
        /\ \A n \in work.revisions : \A m \in 1..n : m \in work.revisions \/ sentRevisions[m] # "no"
    BY <2>2
  <2>6. \A n \in Page'.revisions : \A m \in 1..n :
           m \in Page'.revisions \/ sentRevisions[m] = "refused"
    <3> HIDE DEF RevisionInv, Shape, PairInv, TypeOK, local, remote, sent, shipdb, pass
    <3> QED
      BY <2>1, <2>4, <2>5, OldestNext, SMTT(60)
  <2>7. \A n \in 1..MaxRevisions : sentRevisions[n] = "delivered" => n \in Page'.revisions
    BY ZenonT(60), <2>1, <2>5
  <2> QED
    BY <2>1, <2>2, <2>3, <2>5, <2>6, <2>7
<1>29. CASE CannotPublish
  BY <1>29 DEF CannotPublish, Page, At
<1>30. CASE RecordRevision
  <2>1. work.revisions \in SUBSET Nat /\ work.revisions # {}
    BY SMTT(60), <1>30 DEF RecordRevision
  <2>2. At \in work.revisions
    BY <2>1, LeastFacts DEF At
  <2>3. /\ pc = "results" /\ answer \in {"delivered", "refused"}
        /\ sentRevisions' = [sentRevisions EXCEPT ![At] = answer]
        /\ work'.revisions = work.revisions \ {At} /\ pc' = "revise"
        /\ held' = held /\ pairing' = pairing /\ pair' = pair
    BY <1>30 DEF RecordRevision, Continue
  <2>4. Page' = Page /\ pairing # NotPaired /\ pair.at = "away"
    BY <2>3 DEF Page
  <2>5. /\ MaxRevisions \in Nat /\ Page.revisions \in SUBSET (1..MaxRevisions)
        /\ work.revisions \in SUBSET (1..MaxRevisions)
        /\ sentRevisions \in [1..MaxRevisions -> {"no", "delivered", "refused"}]
    BY <2>4 DEF Page, Holdings, Pairings
  <2>6. /\ \A n \in 1..MaxRevisions : sentRevisions[n] = "delivered" => n \in Page.revisions
        /\ \A n \in Page.revisions : \A m \in 1..n :
              m \in Page.revisions \/ sentRevisions[m] = "refused"
        /\ \A n \in work.revisions : \A m \in 1..n : m \in work.revisions \/ sentRevisions[m] # "no"
    BY <2>3, <2>4
  <2>7. answer = "delivered" => At \in Page.revisions
    BY <2>3
  <2> HIDE DEF RevisionInv, Shape, PairInv, TypeOK, local, remote, sent, shipdb, pass
  <2>8. /\ sentRevisions'[At] = answer
        /\ \A n \in 1..MaxRevisions : n # At => sentRevisions'[n] = sentRevisions[n]
    BY <2>2, <2>3, <2>5
  <2>9. ASSUME NEW n \in Page.revisions, NEW m \in 1..n
        PROVE  m \in Page.revisions \/ sentRevisions'[m] = "refused"
    <3>1. m \in 1..MaxRevisions /\ (m \in Page.revisions \/ sentRevisions[m] = "refused")
      BY <2>5, <2>6, <2>9
    <3> QED
      BY <2>3, <2>7, <2>8, <3>1
  <2>10. ASSUME NEW n \in work.revisions, NEW m \in 1..n
         PROVE  m \in work.revisions \ {At} \/ sentRevisions'[m] # "no"
    <3>1. m \in 1..MaxRevisions /\ (m \in work.revisions \/ sentRevisions[m] # "no")
      BY <2>5, <2>6, <2>10
    <3> QED
      BY <2>3, <2>8, <3>1
  <2>11. \A n \in 1..MaxRevisions : sentRevisions'[n] = "delivered" => n \in Page.revisions
    BY <2>6, <2>7, <2>8
  <2> QED
    BY <2>3, <2>4, <2>9, <2>10, <2>11 DEF RevisionInv
<1>31. CASE PassDone
  BY <1>31 DEF PassDone, EndPass, Page, At
<1>32. CASE PassFails
  BY <1>32 DEF PassFails, Page, At
<1>33. CASE Die
  BY <1>33 DEF Die, Page, At
<1>34. CASE Start
  BY SMTT(60), <1>34 DEF Start, Page, At
<1>35. CASE LookInVain
  BY <1>35 DEF LookInVain, vars, Page, At
<1>36. CASE UNCHANGED vars
  BY <1>36 DEF vars, Page, At
<1> QED
  BY Zenon, <1>1, <1>2, <1>3, <1>4, <1>5, <1>6, <1>7, <1>8, <1>9, <1>10, <1>11, <1>12, <1>13, <1>14,
     <1>15, <1>16, <1>17, <1>18, <1>19, <1>20, <1>21, <1>22, <1>23, <1>24, <1>25, <1>26, <1>27,
     <1>28, <1>29, <1>30, <1>31, <1>32, <1>33, <1>34, <1>35, <1>36 DEF Next, Timer, PairSteps,
     Director, PassSteps

(* With what comes back held at bay, crossings that are what is recorded   *)
(* as sent were so before, or the page holds them.                         *)
LEMMA NothingReturns ==
    ASSUME ~Returns, pairing # NotPaired
    PROVE  \A r \in Runners : Stated(r)' = sentCrossings[r] =>
              \/ Stated(r) = sentCrossings[r]
              \/ pc \in {"down", "idle"} /\ Page.crossings[r] = sentCrossings[r]
BY SMTT(60) DEF Returns, Returned, Page

(* Every step keeps what is believed of the crossings.                     *)
LEMMA CrossingsStep ==
    ASSUME TypeOK, Shape, PairInv, FreshRace, CrossingsInv,
           ~PairDisturbed, ~RaceReused, ~Reverts, TypeOK', Shape', PairInv', [Next]_vars
    PROVE  CrossingsInv'
<1> USE ShipperConstants DEF local, remote, sent, shipdb, pass, Smoothly, Mishap,
        ElsewhereUnchanged, PairInv, Shape, PastDerive, PastCourse, NoWork, TypeOK, Paired,
        CrossingsInv
<1>1. CASE ConfigChanges
  <2>1. /\ UNCHANGED <<pairing, pair, pc, sentCrossings, setAside, work, answer>>
        /\ Page' = Page /\ ~Returns
    BY <1>1 DEF ConfigChanges, NextCourse, Page
  <2>2. pairing # NotPaired => \A r \in Runners : Stated(r)' = sentCrossings[r] =>
           \/ Stated(r) = sentCrossings[r]
           \/ pc \in {"down", "idle"} /\ Page.crossings[r] = sentCrossings[r]
    BY <2>1, NothingReturns
  <2> HIDE DEF TypeOK, local, remote, sent, shipdb, pass
  <2> QED
    BY <2>1, <2>2
<1>2. CASE SetCourse
  <2>1. /\ UNCHANGED <<pairing, pair, pc, sentCrossings, setAside, work, answer>>
        /\ Page' = Page /\ ~Returns
    BY <1>2 DEF SetCourse, NextCourse, Page
  <2>2. pairing # NotPaired => \A r \in Runners : Stated(r)' = sentCrossings[r] =>
           \/ Stated(r) = sentCrossings[r]
           \/ pc \in {"down", "idle"} /\ Page.crossings[r] = sentCrossings[r]
    BY <2>1, NothingReturns
  <2> HIDE DEF TypeOK, local, remote, sent, shipdb, pass
  <2> QED
    BY <2>1, <2>2
<1>3. CASE Publish
  BY <1>3 DEF Publish, Page, Stated
<1>4. ASSUME NEW r \in Runners, CrossingsChange(r)
      PROVE  CrossingsInv'
  <2>1. /\ UNCHANGED <<pairing, pair, pc, sentCrossings, setAside, work, answer>>
        /\ Page' = Page /\ ~Returns
    BY <1>4 DEF CrossingsChange, Page
  <2>2. pairing # NotPaired => \A s \in Runners : Stated(s)' = sentCrossings[s] =>
           \/ Stated(s) = sentCrossings[s]
           \/ pc \in {"down", "idle"} /\ Page.crossings[s] = sentCrossings[s]
    BY <2>1, NothingReturns
  <2> HIDE DEF TypeOK, local, remote, sent, shipdb, pass
  <2> QED
    BY <2>1, <2>2
<1>5. CASE InsertPairing
  BY <1>5 DEF InsertPairing, PairMoves, Page, Stated
<1>6. CASE ForgetCourse
  BY <1>6 DEF ForgetCourse, PairMoves, NoneSent, Page, Stated
<1>7. CASE ForgetCrossings
  BY <1>7 DEF ForgetCrossings, PairMoves, NoRunnerSent, Page, Stated, FreshRace, HoldsNothing
<1>8. CASE ForgetRevisions
  BY <1>8 DEF ForgetRevisions, PairMoves, NoRevisionSent, Page, Stated, FreshRace, HoldsNothing
<1>9. CASE ClearUnpaired
  BY <1>9 DEF ClearUnpaired, PairMoves, Page, Stated
<1>10. CASE PairDies
  BY ZenonT(60), <1>10 DEF PairDies, Page, Stated
<1>11. ASSUME NEW race \in Races, AskToPair(race)
      PROVE  CrossingsInv'
  BY <1>11 DEF AskToPair, Page, Stated
<1>12. ASSUME NEW race \in Races, Unpair(race)
      PROVE  CrossingsInv'
  BY <1>12 DEF Unpair, Page, Stated
<1>13. CASE Look
  BY <1>13 DEF Look, Page, Stated
<1>14. CASE StopUnpaired
  BY <1>14 DEF StopUnpaired, EndPass, Page, Stated
<1>15. CASE TakePairing
  BY <1>15 DEF TakePairing, Continue, Page, Stated
<1>16. CASE StopWithoutCourse
  BY <1>16 DEF StopWithoutCourse, EndPass, Page, Stated
<1>17. CASE Derive
  <2>1. /\ work'.crossings = [r \in Runners |-> Stated(r)] /\ pc' = "course"
        /\ Page' = Page /\ pairing' = pairing /\ pair' = pair
        /\ pairing # NotPaired /\ pair.at = "away"
        /\ sentCrossings' = sentCrossings /\ setAside' = setAside /\ UNCHANGED <<course, passed>>
    BY Zenon, <1>17 DEF Derive, Continue, Page
  <2>2. \A r \in Runners : Stated(r)' = Stated(r) /\ work'.crossings[r] = Stated(r)
    BY <2>1 DEF Stated
  <2> QED
    BY SMTT(60), <2>1, <2>2
<1>18. CASE Settle
  BY <1>18 DEF Settle, EndPass, Page, Stated
<1>19. CASE CourseDelivered
  BY <1>19 DEF CourseDelivered, Continue, Page, Stated
<1>20. CASE CourseRefused
  BY <1>20 DEF CourseRefused, EndPass, Page, Stated
<1>21. CASE PutManifest
  <2>1. Page'.crossings = Page.crossings
    BY <1>21, PutManifestFacts
  <2> QED
    BY <1>21, <2>1 DEF PutManifest, Stated
<1>22. CASE RecordManifest
  BY SMTT(60), <1>22 DEF RecordManifest, Continue, EndPass, Page, Stated
<1>23. CASE Diff
  <2>1. /\ work' = [work EXCEPT !.todo = Changed] /\ pc' = "send" /\ pc = "diff" /\ answer' = "none"
        /\ Page' = Page /\ pairing' = pairing /\ pair' = pair
        /\ sentCrossings' = sentCrossings /\ setAside' = setAside /\ UNCHANGED <<course, passed>>
    BY <1>23 DEF Diff, Continue, Page
  <2>2. /\ work'.crossings = work.crossings /\ work'.todo = Changed /\ work'.batch = {}
    BY <2>1
  <2>3. \A r \in Runners : Stated(r)' = Stated(r)
    BY <2>1 DEF Stated
  <2>4. \A r \in Runners : work.crossings[r] # sentCrossings[r] <=> r \in Changed
    BY DEF Changed
  <2> QED
    BY SMTT(60), <2>1, <2>2, <2>3, <2>4
<1>24. CASE PostCrossings
  <2>1. PICK batch \in SUBSET work.todo :
          /\ pairing' = pairing /\ work.to = pairing
          /\ work' = [work EXCEPT !.batch = batch, !.todo = @ \ batch]
          /\ \A r \in Runners \ batch : Page'.crossings[r] = Page.crossings[r]
          /\ answer' = "delivered" => \A r \in batch : Page'.crossings[r] = work.crossings[r]
    BY ZenonT(60), <1>24, PostCrossingsFacts
  <2>2. /\ pc = "send" /\ pc' = "crossings" /\ pair' = pair
        /\ pairing # NotPaired /\ pair.at = "away"
        /\ sentCrossings' = sentCrossings /\ setAside' = setAside /\ UNCHANGED <<course, passed>>
    BY Zenon, <1>24 DEF PostCrossings
  <2>3. \A r \in Runners : Stated(r)' = Stated(r)
    BY <2>2 DEF Stated
  <2>4. /\ work'.crossings = work.crossings /\ work'.todo = work.todo \ batch /\ work'.batch = batch
        /\ work.batch = {}
    BY <2>1, <2>2
  <2>5. /\ \A r \in Runners \ setAside :
              Page.crossings[r] = sentCrossings[r] \/ Stated(r) # sentCrossings[r]
        /\ \A r \in Runners : work.crossings[r] # sentCrossings[r] => Stated(r) # sentCrossings[r]
        /\ \A r \in Runners \ setAside : work.crossings[r] = sentCrossings[r] =>
              Page.crossings[r] = sentCrossings[r]
        /\ \A r \in Runners :
              work.crossings[r] # sentCrossings[r] <=> r \in work.todo \cup work.batch
        /\ work.todo \subseteq Runners
    BY <2>2
  <2> HIDE DEF CrossingsInv, PairInv, Shape, TypeOK, local, remote, sent, shipdb, pass
  <2>6. batch \subseteq Runners /\ \A r \in batch : work.crossings[r] # sentCrossings[r]
    BY <2>4, <2>5
  <2>7. ASSUME NEW r \in Runners \ setAside
        PROVE  Page'.crossings[r] = sentCrossings[r] \/ Stated(r) # sentCrossings[r]
    BY <2>1, <2>5, <2>6
  <2>8. ASSUME NEW r \in Runners \ setAside, work.crossings[r] = sentCrossings[r]
        PROVE  Page'.crossings[r] = sentCrossings[r]
    BY <2>1, <2>5, <2>6, <2>8
  <2>9. work'.todo \cup work'.batch = work.todo /\ work'.todo \cap work'.batch = {}
    BY <2>4
  <2>10. \A r \in Runners :
            work.crossings[r] # sentCrossings[r] <=> r \in work'.todo \cup work'.batch
    BY <2>4, <2>5, <2>9
  <2> QED
    BY <2>1, <2>2, <2>3, <2>4, <2>5, <2>7, <2>8, <2>9, <2>10 DEF CrossingsInv, PastDerive,
       PastCourse
<1>25. CASE RecordRunner
  <2> DEFINE one == Least(work.batch)
  <2>1. work.batch \in SUBSET Nat /\ work.batch # {} /\ work.batch \subseteq Runners
    BY <1>25 DEF RecordRunner
  <2>2. one \in work.batch
    BY ZenonT(60), <2>1, LeastFacts
  <2>3. /\ pc = "crossings" /\ answer \in {"delivered", "refused"}
        /\ sentCrossings' = [sentCrossings EXCEPT ![one] = work.crossings[one]]
        /\ setAside' = IF answer = "refused" THEN setAside \cup {one} ELSE setAside \ {one}
        /\ work' = [work EXCEPT !.batch = work.batch \ {one}]
        /\ \/ pc' = "send" /\ answer' = "none"
           \/ pc' = pc /\ answer' = answer
        /\ UNCHANGED <<course, passed>> /\ Page' = Page /\ pairing' = pairing /\ pair' = pair
        /\ pairing # NotPaired /\ pair.at = "away"
    BY <1>25 DEF RecordRunner, Page
  <2> HIDE DEF one
  <2>4. \A r \in Runners : Stated(r)' = Stated(r)
    BY <2>3 DEF Stated
  <2>5. /\ work'.crossings = work.crossings /\ work'.todo = work.todo
        /\ work'.batch = work.batch \ {one}
    BY <2>3
  <2>6. /\ sentCrossings'[one] = work.crossings[one]
        /\ \A r \in Runners : r # one => sentCrossings'[r] = sentCrossings[r]
    BY <2>1, <2>2, <2>3
  <2>7. /\ \A r \in Runners \ setAside :
              Page.crossings[r] = sentCrossings[r] \/ Stated(r) # sentCrossings[r]
        /\ \A r \in Runners : work.crossings[r] # sentCrossings[r] => Stated(r) # sentCrossings[r]
        /\ \A r \in Runners \ setAside : work.crossings[r] = sentCrossings[r] =>
              Page.crossings[r] = sentCrossings[r]
        /\ \A r \in Runners :
              work.crossings[r] # sentCrossings[r] <=> r \in work.todo \cup work.batch
        /\ work.todo \cap work.batch = {}
        /\ answer = "delivered" => \A r \in work.batch : Page.crossings[r] = work.crossings[r]
    BY <2>3
  <2> HIDE DEF CrossingsInv, PairInv, Shape, TypeOK, local, remote, sent, shipdb, pass
  <2>8. /\ one \in Runners /\ one \notin work.todo
        /\ one \notin setAside' => Page.crossings[one] = work.crossings[one]
    BY <2>1, <2>2, <2>3, <2>7
  <2>9. ASSUME NEW r \in Runners \ setAside'
        PROVE  Page.crossings[r] = sentCrossings'[r] \/ Stated(r) # sentCrossings'[r]
    BY <2>3, <2>6, <2>7, <2>8
  <2>10. ASSUME NEW r \in Runners, work.crossings[r] # sentCrossings'[r]
         PROVE  Stated(r) # sentCrossings'[r]
    BY <2>6, <2>7, <2>10
  <2>11. ASSUME NEW r \in Runners \ setAside', work.crossings[r] = sentCrossings'[r]
         PROVE  Page.crossings[r] = sentCrossings'[r]
    BY <2>3, <2>6, <2>7, <2>8, <2>11
  <2>12. \A r \in Runners :
            work.crossings[r] # sentCrossings'[r] <=> r \in work'.todo \cup work'.batch
    BY <2>5, <2>6, <2>7, <2>8
  <2>13. /\ work'.todo \cap work'.batch = {}
         /\ answer = "delivered" => \A r \in work'.batch : Page.crossings[r] = work.crossings[r]
    BY <2>5, <2>7
  <2> QED
    BY <2>3, <2>4, <2>5, <2>9, <2>10, <2>11, <2>12, <2>13 DEF CrossingsInv, PastDerive, PastCourse
<1>26. CASE ListRevisions
  BY <1>26 DEF ListRevisions, Continue, Page, Stated
<1>27. CASE SkipRevision
  BY <1>27 DEF SkipRevision, Continue, Page, Stated
<1>28. CASE PostRevision
  <2>1. Page'.crossings = Page.crossings
    BY <1>28, PostRevisionFacts
  <2> QED
    BY <1>28, <2>1 DEF PostRevision, Stated
<1>29. CASE CannotPublish
  BY ZenonT(60), <1>29 DEF CannotPublish, Page, Stated
<1>30. CASE RecordRevision
  BY <1>30 DEF RecordRevision, Continue, Page, Stated
<1>31. CASE PassDone
  BY <1>31 DEF PassDone, EndPass, Page, Stated
<1>32. CASE PassFails
  BY <1>32 DEF PassFails, Page, Stated
<1>33. CASE Die
  BY <1>33 DEF Die, Page, Stated
<1>34. CASE Start
  BY <1>34 DEF Start, Page, Stated
<1>35. CASE LookInVain
  BY SMTT(60), <1>35 DEF LookInVain, vars, Page, Stated
<1>36. CASE UNCHANGED vars
  BY ZenonT(60), <1>36 DEF vars, Page, Stated
<1> QED
  BY ZenonT(60), <1>1, <1>2, <1>3, <1>4, <1>5, <1>6, <1>7, <1>8, <1>9, <1>10, <1>11, <1>12, <1>13, <1>14,
     <1>15, <1>16, <1>17, <1>18, <1>19, <1>20, <1>21, <1>22, <1>23, <1>24, <1>25, <1>26, <1>27,
     <1>28, <1>29, <1>30, <1>31, <1>32, <1>33, <1>34, <1>35, <1>36 DEF Next, Timer, PairSteps,
     Director, PassSteps

(* Every step keeps what a pass at rest has seen to.                       *)
LEMMA RestStep ==
    ASSUME TypeOK, Shape, PairInv, CourseInv, RevisionInv, CrossingsInv, RestInv,
           ~PairDisturbed, TypeOK', Shape', PairInv', [Next]_vars
    PROVE  RestInv'
<1> USE ShipperConstants DEF local, remote, sent, shipdb, pass, Smoothly, Mishap,
        ElsewhereUnchanged, PairInv, Shape, PastDerive, PastCourse, NoWork, TypeOK, Paired,
        RestInv, RestIsSync, Rests, CanSend, Refused, Fresh
<1>1. CASE ConfigChanges
  BY <1>1 DEF ConfigChanges, NextCourse, Stated, InSync
<1>2. CASE SetCourse
  BY <1>2 DEF SetCourse, NextCourse, Stated, InSync
<1>3. CASE Publish
  BY <1>3 DEF Publish, Stated, InSync
<1>4. ASSUME NEW r \in Runners, CrossingsChange(r)
      PROVE  RestInv'
  BY <1>4 DEF CrossingsChange, Stated, InSync
<1>5. CASE InsertPairing
  BY <1>5 DEF InsertPairing, PairMoves, Stated, InSync
<1>6. CASE ForgetCourse
  BY <1>6 DEF ForgetCourse, PairMoves, NoneSent, Stated, InSync
<1>7. CASE ForgetCrossings
  BY <1>7 DEF ForgetCrossings, PairMoves, NoRunnerSent, Stated, InSync
<1>8. CASE ForgetRevisions
  BY <1>8 DEF ForgetRevisions, PairMoves, NoRevisionSent, Stated, InSync
<1>9. CASE ClearUnpaired
  BY <1>9 DEF ClearUnpaired, PairMoves, Stated, InSync
<1>10. CASE PairDies
  BY <1>10 DEF PairDies, Stated, InSync
<1>11. ASSUME NEW race \in Races, AskToPair(race)
      PROVE  RestInv'
  BY <1>11 DEF AskToPair, Stated, InSync
<1>12. ASSUME NEW race \in Races, Unpair(race)
      PROVE  RestInv'
  BY SMTT(60), <1>12 DEF Unpair, Stated, InSync
<1>13. CASE Look
  BY <1>13 DEF Look, Stated, InSync
<1>14. CASE StopUnpaired
  BY <1>14 DEF StopUnpaired, EndPass, Stated, InSync
<1>15. CASE TakePairing
  BY <1>15 DEF TakePairing, Continue, Stated, InSync
<1>16. CASE StopWithoutCourse
  BY SMTT(60), <1>16 DEF StopWithoutCourse, EndPass, Stated, InSync
<1>17. CASE Derive
  BY Zenon, <1>17 DEF Derive, Continue, Stated, InSync
<1>18. CASE Settle
  BY <1>18 DEF Settle, EndPass, Stated, InSync
<1>19. CASE CourseDelivered
  BY <1>19 DEF CourseDelivered, Continue, Stated, InSync
<1>20. CASE CourseRefused
  BY <1>20 DEF CourseRefused, EndPass, Stated, InSync
<1>21. CASE PutManifest
  BY <1>21 DEF PutManifest, Stated, InSync
<1>22. CASE RecordManifest
  <2>1. /\ pc = "manifest"
        /\ sentCourse' = [course |-> work.course, delivered |-> answer = "delivered"]
        /\ UNCHANGED <<course, passed, published, pair, sentCrossings, sentRevisions>>
    BY <1>22 DEF RecordManifest
  <2>2. CASE answer = "delivered"
    <3>1. pc' = "diff" /\ work' = work /\ seen' = seen
      BY <1>22, <2>2 DEF RecordManifest, Continue
    <3> QED
      BY <2>1, <3>1 DEF Stated
  <2>3. CASE answer # "delivered"
    <3>1. pc' = "idle" /\ seen'.event = seen.event /\ seen'.state = seen.state
      BY <1>22, <2>3 DEF RecordManifest, EndPass
    <3>2. sentCourse'.course = work.course /\ sentCourse'.delivered = FALSE
      BY <2>1, <2>3
    <3> QED
      BY <2>1, <2>3, <3>1, <3>2 DEF Stated
  <2> QED
    BY <2>2, <2>3
<1>23. CASE Diff
  BY <1>23 DEF Diff, Continue, Changed, Stated, InSync
<1>24. CASE PostCrossings
  <2>1. /\ pc = "send" /\ pc' = "crossings" /\ work'.crossings = work.crossings
        /\ work'.course = work.course /\ UNCHANGED <<course, passed, seen>>
    BY ZenonT(60), <1>24, PostCrossingsFacts DEF PostCrossings
  <2> QED
    BY SMTT(60), <2>1 DEF Stated
<1>25. CASE RecordRunner
  BY ZenonT(60), <1>25 DEF RecordRunner, Stated, InSync
<1>26. CASE ListRevisions
  BY <1>26 DEF ListRevisions, Continue, Stated, InSync
<1>27. CASE SkipRevision
  BY SMTT(60), <1>27 DEF SkipRevision, Continue, Stated, InSync
<1>28. CASE PostRevision
  BY <1>28 DEF PostRevision, Stated, InSync
<1>29. CASE CannotPublish
  BY <1>29 DEF CannotPublish, Stated, InSync
<1>30. CASE RecordRevision
  BY SMTT(60), <1>30 DEF RecordRevision, Continue, Stated, InSync
<1>31. CASE PassDone
  <2>1. /\ pc = "revise" /\ work.revisions = {} /\ pc' = "idle"
        /\ seen'.event = seen.event /\ seen'.state = seen.state
        /\ UNCHANGED <<course, passed, published, held, pairing, sentRevisions, setAside>>
    BY <1>31 DEF PassDone, EndPass
  <2>2. pairing # NotPaired /\ pair.at = "away" /\ Page.course = work.course
    BY <2>1 DEF CourseInv
  <2>3. Fresh => Page.course = course
    BY <2>1, <2>2
  <2>4. ASSUME NEW r \in Runners \ setAside, Fresh
        PROVE  Page.crossings[r] = Stated(r)
    <3>1. work.crossings[r] = Stated(r) /\ work.crossings[r] = sentCrossings[r]
      BY <2>1, <2>4 DEF CrossingsInv
    <3> QED
      BY <2>1, <3>1 DEF CrossingsInv
  <2>5. ASSUME NEW n \in 1..published, Fresh
        PROVE  sentRevisions[n] = "refused" \/ n \in Page.revisions
    <3>1. n \in 1..MaxRevisions /\ sentRevisions[n] # "no"
      BY SMTT(60), <2>1, <2>5
    <3>2. sentRevisions[n] = "delivered" => n \in Page.revisions
      BY <2>2, <3>1 DEF RevisionInv
    <3> QED
      BY <3>1, <3>2
  <2>6. Fresh => InSync
    BY <2>3, <2>4, <2>5 DEF InSync, Page
  <2>7. InSync' <=> InSync
    BY <2>1 DEF InSync, Stated
  <2> QED
    BY <2>1, <2>6, <2>7
<1>32. CASE PassFails
  BY <1>32 DEF PassFails, Stated, InSync
<1>33. CASE Die
  BY <1>33 DEF Die, Stated, InSync, Unseen
<1>34. CASE Start
  BY <1>34 DEF Start, Stated, InSync, Unseen
<1>35. CASE LookInVain
  BY <1>35 DEF LookInVain, vars, Stated, InSync
<1>36. CASE UNCHANGED vars
  BY ZenonT(60), <1>36 DEF vars, Stated, InSync
<1> QED
  BY Zenon, <1>1, <1>2, <1>3, <1>4, <1>5, <1>6, <1>7, <1>8, <1>9, <1>10, <1>11, <1>12, <1>13, <1>14,
     <1>15, <1>16, <1>17, <1>18, <1>19, <1>20, <1>21, <1>22, <1>23, <1>24, <1>25, <1>26, <1>27,
     <1>28, <1>29, <1>30, <1>31, <1>32, <1>33, <1>34, <1>35, <1>36 DEF Next, Timer, PairSteps,
     Director, PassSteps

-----------------------------------------------------------------------------
(* Nothing is held, recorded or in hand at the start.                      *)
LEMMA InitTypes == Init => TypeOK
<1> SUFFICES ASSUME Init
             PROVE  TypeOK
  OBVIOUS
<1>1. seen \in Seens /\ sentCourse \in [course : {0}, delivered : BOOLEAN] /\ unpaired \in BOOLEAN
  BY Zenon DEF Init, Seens, Unseen, NoneSent
<1>2. sentCourse \in [course : 0..MaxCourse, delivered : BOOLEAN]
  BY <1>1, ShipperConstants
<1>3. pair \in Pairs /\ work \in Works
  <2>1. pair \in Pairs
    BY ShipperConstants DEF Init, Pairs
  <2>2. work \in Works
    BY NoWorkType DEF Init, Works
  <2> QED
    BY <2>1, <2>2
<1>4. held \in [Races -> Holdings] /\ sentCrossings \in [Runners -> Crossings]
  BY HoldsNothingType DEF Init, NoRunnerSent, Crossings
<1> QED
  BY <1>1, <1>2, <1>3, <1>4, ShipperConstants DEF Init, TypeOK, Seens, Pairs, Works,
     NoRevisionSent

LEMMA InitHolds ==
    ASSUME Init
    PROVE  Shape /\ PairInv /\ FreshRace /\ CourseInv /\ RevisionInv /\ CrossingsInv /\ RestInv
BY Zenon DEF Init, Shape, PairInv, FreshRace, CourseInv, RevisionInv, CrossingsInv, RestInv,
   RestIsSync,
             Rests, PastDerive, PastCourse, NoWork

(* The types, whatever the operator does.                                  *)
THEOREM ShipperTypeCorrect == Spec => []TypeOK
<1>1. Init => TypeOK /\ Shape
  BY InitTypes, InitHolds
<1>2. TypeOK /\ Shape /\ [Next]_vars => (TypeOK /\ Shape)'
  BY TypeStep, ShapeStep
<1> QED
  BY <1>1, <1>2, PTL DEF Spec

(* Nothing is sent against a course the page does not hold, if nobody      *)
(* pairs beside the shipper and the course does not become again one that  *)
(* was sent and whose answer was lost.  The second is what the code gets   *)
(* wrong: it compares with what it recorded and not with what it sent.     *)
THEOREM CourseHeldFirst ==
    ASSUME ~PairDisturbed, ~Reverts
    PROVE  Spec => []CourseIsHeldFirst
<1> DEFINE Inv == TypeOK /\ Shape /\ PairInv /\ CourseInv
<1>1. Init => Inv
  BY InitTypes, InitHolds
<1>2. Inv /\ [Next]_vars => Inv'
  BY TypeStep, ShapeStep, PairStep, CourseStep
<1>3. Inv => CourseIsHeldFirst
  BY DEF CourseInv, PairInv, PastDerive, PastCourse, CourseIsHeldFirst, Theirs, Page
<1> HIDE DEF Inv
<1> QED
  BY <1>1, <1>2, <1>3, PTL DEF Spec

(* Revisions reach the page oldest first, if nobody pairs beside the       *)
(* shipper and no race is paired with twice: whatever was lost, refused or *)
(* cut short between sending and recording, the page holds no correction   *)
(* without the revision before it.                                         *)
THEOREM RevisionsOldestFirst ==
    ASSUME ~PairDisturbed, ~RaceReused
    PROVE  Spec => []OldestFirst
<1> DEFINE Inv == TypeOK /\ Shape /\ PairInv /\ FreshRace /\ RevisionInv
<1>1. Init => Inv
  BY InitTypes, InitHolds
<1>2. Inv /\ [Next]_vars => Inv'
  BY TypeStep, ShapeStep, PairStep, FreshStep, RevisionStep
<1>3. Inv => OldestFirst
  BY DEF RevisionInv, OldestFirst, Paired, Page
<1> HIDE DEF Inv
<1> QED
  BY <1>1, <1>2, <1>3, PTL DEF Spec

(* With nobody pairing beside the shipper, no race paired with twice and   *)
(* nothing becoming again what was sent, the shipper rests only when the   *)
(* page holds what the timer derived, but for what it refused.             *)
THEOREM RestMeansSync ==
    ASSUME ~PairDisturbed, ~RaceReused, ~Reverts
    PROVE  Spec => []RestIsSync
<1>1. Init => IInv
  BY InitTypes, InitHolds DEF IInv
<1>2. IInv /\ [Next]_vars => IInv'
  BY TypeStep, ShapeStep, PairStep, FreshStep, CourseStep, RevisionStep, CrossingsStep, RestStep
     DEF IInv
<1>3. IInv => RestIsSync
  BY DEF IInv, RestInv
<1> QED
  BY <1>1, <1>2, <1>3, PTL DEF Spec
=============================================================================
