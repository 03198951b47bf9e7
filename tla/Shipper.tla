------------------------------ MODULE Shipper ------------------------------
(***************************************************************************)
(* splitforge-ship: how one race's course, crossings and revisions reach   *)
(* RaceDay Connect, the public results page.                               *)
(*                                                                         *)
(* The shipper reads the event database, never writes it, and keeps what   *)
(* it has sent in ship.db.  A pass derives what is true now, compares it   *)
(* with what was last sent, sends the difference a document at a time, and *)
(* records each document once it is answered.  Requests and answers are    *)
(* lost, the process ends anywhere, and an operator runs `splitforge-ship  *)
(* pair` and `splitforge-ship course` from processes of their own.         *)
(*                                                                         *)
(* A document is what tells it from another: a course is its version, a    *)
(* runner's crossings are the course they were derived under and a number, *)
(* a revision is its number.  Time is left out: a retry is due once it has *)
(* been asked for.                                                         *)
(***************************************************************************)
EXTENDS Naturals

CONSTANTS
    Races,           \* races on RaceDay Connect the box may be paired with
    Runners,         \* runners, as numbers: batches go in their order
    MaxCourse,       \* bound on the versions of the course
    MaxPassed,       \* bound on the versions of a runner's crossings
    MaxRevisions,    \* bound on the revisions published
    MaxPairings,     \* bound on the times the box is paired
    MaxMishaps,      \* bound on lost requests and answers, refusals, deaths and errors
    Reverts,         \* whether a document may become again what is recorded as
                     \* sent, while the page may hold another
    RaceReused,      \* whether the box may be paired again with a race it has sent to
    PairDisturbed    \* whether `pair` may run beside the shipper, or be cut short

ASSUME ShipperConstants ==
    /\ Runners \subseteq Nat
    /\ {MaxCourse, MaxPassed, MaxRevisions, MaxPairings, MaxMishaps} \subseteq Nat
    /\ {Reverts, RaceReused, PairDisturbed} \subseteq BOOLEAN

VARIABLES
    course,          \* the course as configured, the gun included
    passed,          \* the version of each runner's crossings, 0 for none
    published,       \* how many revisions have been published
    held,            \* what each race on RaceDay Connect holds
    accepted,        \* the token each of them takes, 0 for none
    pairing,         \* ship.db: the race and token to send with
    unpaired,        \* ship.db: RaceDay Connect has answered that the box is not paired
    sentCourse,      \* ship.db: sent_manifest
    sentCrossings,   \* ship.db: sent_crossings
    sentRevisions,   \* ship.db: sent_revisions
    setAside,        \* the runners recorded as sent whose batch was refused
    pair,            \* where the pair command is
    pc,              \* where the shipper is
    work,            \* what the pass has in hand
    answer,          \* how the document just sent was answered
    seen,            \* what the shipper has still to look at
    mishaps          \* how many mishaps there have been

local == <<course, passed, published>>
remote == <<held, accepted>>
sent == <<sentCourse, sentCrossings, sentRevisions, setAside>>
shipdb == <<pairing, unpaired, sent>>
pass == <<pc, work, answer>>
vars == <<local, remote, shipdb, pair, pass, seen, mishaps>>

NoCrossings == <<>>
Crossings == {NoCrossings} \cup ((1..MaxCourse) \X (1..MaxPassed))

(* What a runner's crossings are under a course.  The gun is in the        *)
(* course, and every crossing's elapsed time counts from it.               *)
Stated(r) == IF course = 0 \/ passed[r] = 0 THEN NoCrossings ELSE <<course, passed[r]>>

Holdings == [course : 0..MaxCourse, crossings : [Runners -> Crossings],
             revisions : SUBSET (1..MaxRevisions)]

HoldsNothing == [course |-> 0, crossings |-> [r \in Runners |-> NoCrossings], revisions |-> {}]

Pairings == [race : Races, token : 1..MaxPairings]
NotPaired == [race |-> "none", token |-> 0]

NoneSent == [course |-> 0, delivered |-> FALSE]
NoRunnerSent == [r \in Runners |-> NoCrossings]
NoRevisionSent == [n \in 1..MaxRevisions |-> "no"]

NoWork == [to |-> NotPaired, course |-> 0, crossings |-> NoRunnerSent,
           todo |-> {}, batch |-> {}, revisions |-> {}]

(* A first look: no version of either database has been seen.              *)
Unseen == [event |-> TRUE, state |-> TRUE, retry |-> FALSE, reopened |-> FALSE]

TypeOK ==
    /\ course \in 0..MaxCourse
    /\ passed \in [Runners -> 0..MaxPassed]
    /\ published \in 0..MaxRevisions
    /\ held \in [Races -> Holdings]
    /\ accepted \in [Races -> 0..MaxPairings]
    /\ pairing \in Pairings \cup {NotPaired}
    /\ unpaired \in BOOLEAN
    /\ sentCourse \in [course : 0..MaxCourse, delivered : BOOLEAN]
    /\ sentCrossings \in [Runners -> Crossings]
    /\ sentRevisions \in [1..MaxRevisions -> {"no", "delivered", "refused"}]
    /\ setAside \subseteq Runners
    /\ pair \in [at : {"away", "insert", "course", "crossings", "revisions", "unpaired"},
                 race : Races \cup {"none"}, token : 0..MaxPairings]
    /\ pc \in {"down", "idle", "begin", "derive", "course", "manifest", "diff", "send",
               "crossings", "revise", "results"}
    /\ work \in [to : Pairings \cup {NotPaired}, course : 0..MaxCourse,
                 crossings : [Runners -> Crossings], todo : SUBSET Runners,
                 batch : SUBSET Runners, revisions : SUBSET (1..MaxRevisions)]
    /\ answer \in {"none", "delivered", "refused", "retry", "unpaired"}
    /\ seen \in [event : BOOLEAN, state : BOOLEAN, retry : BOOLEAN, reopened : BOOLEAN]
    /\ mishaps \in 0..MaxMishaps

Init ==
    /\ course = 0
    /\ passed = [r \in Runners |-> 0]
    /\ published = 0
    /\ held = [race \in Races |-> HoldsNothing]
    /\ accepted = [race \in Races |-> 0]
    /\ pairing = NotPaired
    /\ unpaired = FALSE
    /\ sentCourse = NoneSent
    /\ sentCrossings = NoRunnerSent
    /\ sentRevisions = NoRevisionSent
    /\ setAside = {}
    /\ pair = [at |-> "away", race |-> "none", token |-> 0]
    /\ pc = "down"
    /\ work = NoWork
    /\ answer = "none"
    /\ seen = Unseen
    /\ mishaps = 0

Smoothly == UNCHANGED mishaps
Mishap == mishaps < MaxMishaps /\ mishaps' = mishaps + 1

Least(S) == CHOOSE n \in S : \A m \in S : n <= m
-----------------------------------------------------------------------------
(***************************************************************************)
(* What is true on the timer changes.  A commit moves data_version of the  *)
(* database it is made in, for every connection but its own.               *)
(***************************************************************************)

(* A document becomes what ship.db says was sent last, and the page holds  *)
(* another, or is about to: it was sent, and the answer lost.              *)
Returned(was, is, last, theirs) == is # was /\ is = last /\ (pc \notin {"down", "idle"} \/ theirs # last)

Returns ==
    /\ pairing # NotPaired
    /\ LET theirs == held[pairing.race]
       IN \/ Returned(course, course', sentCourse.course, theirs.course)
          \/ \E r \in Runners :
                Returned(Stated(r), Stated(r)', sentCrossings[r], theirs.crossings[r])

(* A runner's crossings change: a read, a chip reassigned, a read set      *)
(* aside.  A runner may have none any more.                                *)
CrossingsChange(r) ==
    /\ \E n \in 0..MaxPassed \ {passed[r]} : passed' = [passed EXCEPT ![r] = n]
    /\ UNCHANGED course
    /\ Reverts \/ ~Returns
    /\ seen' = [seen EXCEPT !.event = TRUE]
    /\ UNCHANGED <<published, remote, shipdb, pair, pass, mishaps>>

NextCourse ==
    /\ course' \in 1..MaxCourse \ {course}
    /\ UNCHANGED passed
    /\ Reverts \/ ~Returns

(* The gun, a checkpoint or a lap count, in the event database.            *)
ConfigChanges ==
    /\ course # 0 /\ NextCourse
    /\ seen' = [seen EXCEPT !.event = TRUE]
    /\ UNCHANGED <<published, remote, shipdb, pair, pass, mishaps>>

(* `splitforge-ship course`, in ship.db.                                   *)
SetCourse ==
    /\ NextCourse
    /\ seen' = [seen EXCEPT !.state = TRUE]
    /\ UNCHANGED <<published, remote, shipdb, pair, pass, mishaps>>

Publish ==
    /\ published < MaxRevisions
    /\ published' = published + 1
    /\ seen' = [seen EXCEPT !.event = TRUE]
    /\ UNCHANGED <<course, passed, remote, shipdb, pair, pass, mishaps>>
-----------------------------------------------------------------------------
(***************************************************************************)
(* `splitforge-ship pair`.  RaceDay Connect answers with a token, and each *)
(* statement on ship.db is a commit of its own.                            *)
(***************************************************************************)
AskToPair(race) ==
    /\ pair.at = "away" /\ pair.token < MaxPairings
    /\ PairDisturbed \/ pc = "down"
    /\ RaceReused \/ held[race] = HoldsNothing
    /\ pair' = [at |-> "insert", race |-> race, token |-> pair.token + 1]
    /\ accepted' = [accepted EXCEPT ![race] = pair.token + 1]
    /\ UNCHANGED <<local, held, shipdb, pass, seen, mishaps>>

PairMoves(from, to) ==
    /\ pair.at = from
    /\ pair' = [pair EXCEPT !.at = to]
    /\ seen' = [seen EXCEPT !.state = TRUE]
    /\ UNCHANGED <<local, remote, pass, mishaps>>

InsertPairing ==
    /\ PairMoves("insert", "course")
    /\ pairing' = [race |-> pair.race, token |-> pair.token]
    /\ UNCHANGED <<unpaired, sent>>

ForgetCourse ==
    /\ PairMoves("course", "crossings")
    /\ sentCourse' = NoneSent
    /\ UNCHANGED <<pairing, unpaired, sentCrossings, sentRevisions, setAside>>

ForgetCrossings ==
    /\ PairMoves("crossings", "revisions")
    /\ sentCrossings' = NoRunnerSent
    /\ setAside' = {}
    /\ UNCHANGED <<pairing, unpaired, sentCourse, sentRevisions>>

ForgetRevisions ==
    /\ PairMoves("revisions", "unpaired")
    /\ sentRevisions' = NoRevisionSent
    /\ UNCHANGED <<pairing, unpaired, sentCourse, sentCrossings, setAside>>

ClearUnpaired ==
    /\ PairMoves("unpaired", "away")
    /\ unpaired' = FALSE
    /\ UNCHANGED <<pairing, sent>>

(* The command ends before it is done.  Cut short before its first         *)
(* statement, it has changed nothing here.                                 *)
PairDies ==
    /\ pair.at # "away"
    /\ PairDisturbed \/ pair.at = "insert"
    /\ Mishap
    /\ pair' = [pair EXCEPT !.at = "away"]
    /\ UNCHANGED <<local, remote, shipdb, pass, seen>>

(* The race director unpairs the box.                                      *)
Unpair(race) ==
    /\ accepted[race] # 0
    /\ Mishap
    /\ accepted' = [accepted EXCEPT ![race] = 0]
    /\ UNCHANGED <<local, held, shipdb, pair, pass, seen>>
-----------------------------------------------------------------------------
(***************************************************************************)
(* watch: the shipper looks every interval, and passes when something has  *)
(* moved or a retry is due.                                                *)
(***************************************************************************)
ElsewhereUnchanged == UNCHANGED <<local, pair>>

(* The versions are noted before the pass, so what changes during it is    *)
(* seen at the next look.                                                  *)
Look ==
    /\ pc = "idle"
    /\ seen.event \/ seen.state \/ seen.retry
    /\ pc' = "begin"
    /\ seen' = [seen EXCEPT !.event = FALSE, !.state = FALSE, !.reopened = FALSE]
    /\ ElsewhereUnchanged /\ Smoothly
    /\ UNCHANGED <<remote, shipdb, work, answer>>

(* Nothing has moved: the shipper waits another interval.                  *)
LookInVain ==
    /\ pc = "idle"
    /\ ~seen.event /\ ~seen.state /\ ~seen.retry
    /\ UNCHANGED vars

(* Mutant: the versions are noted when the pass ends and not before it.    *)
EndPassAndNote(retry) ==
    /\ pc' = "idle" /\ work' = NoWork /\ answer' = "none"
    /\ seen' = [Unseen EXCEPT !.event = FALSE, !.state = FALSE, !.retry = retry]

(* The pass is over: a retry is asked for, or no longer is.                *)
EndPass(retry) ==
    /\ pc' = "idle" /\ work' = NoWork /\ answer' = "none"
    /\ seen' = [seen EXCEPT !.retry = retry]

Continue(at, hand) ==
    /\ pc' = at /\ work' = hand /\ answer' = "none"
    /\ UNCHANGED seen

Paired == pairing # NotPaired /\ ~unpaired

StopUnpaired ==
    /\ pc = "begin" /\ ~Paired
    /\ EndPass(FALSE)
    /\ ElsewhereUnchanged /\ Smoothly /\ UNCHANGED <<remote, shipdb>>

TakePairing ==
    /\ pc = "begin" /\ Paired
    /\ Continue("derive", [work EXCEPT !.to = pairing])
    /\ ElsewhereUnchanged /\ Smoothly /\ UNCHANGED <<remote, shipdb>>

(* No course is recorded.                                                  *)
StopWithoutCourse ==
    /\ pc = "derive" /\ course = 0
    /\ EndPass(FALSE)
    /\ ElsewhereUnchanged /\ Smoothly /\ UNCHANGED <<remote, shipdb>>

Derive ==
    /\ pc = "derive" /\ course # 0
    /\ Continue("course", [work EXCEPT !.course = course,
                                       !.crossings = [r \in Runners |-> Stated(r)]])
    /\ ElsewhereUnchanged /\ Smoothly /\ UNCHANGED <<remote, shipdb>>

(* The pass ends in an error.  The event database is opened again, and the *)
(* version of the new connection says nothing of what the last one saw.    *)
PassFails ==
    /\ pc \notin {"down", "idle"}
    /\ Mishap
    /\ pc' = "idle" /\ work' = NoWork /\ answer' = "none"
    /\ \E moved \in BOOLEAN : seen' = [seen EXCEPT !.event = moved, !.reopened = TRUE]
    /\ ElsewhereUnchanged /\ UNCHANGED <<remote, shipdb>>

Die ==
    /\ pc # "down"
    /\ Mishap
    /\ pc' = "down" /\ work' = NoWork /\ answer' = "none"
    /\ seen' = Unseen
    /\ ElsewhereUnchanged /\ UNCHANGED <<remote, shipdb>>

(* The unit restarts the shipper, unless an operator is pairing it first.  *)
Start ==
    /\ pc = "down"
    /\ PairDisturbed \/ pair.at = "away"
    /\ pc' = "idle" /\ seen' = Unseen
    /\ ElsewhereUnchanged /\ Smoothly /\ UNCHANGED <<remote, shipdb, work, answer>>
-----------------------------------------------------------------------------
(***************************************************************************)
(* One document is sent and answered.  RaceDay Connect takes it or not;    *)
(* the request and its answer may each be lost, which reads as a retry.    *)
(***************************************************************************)
Theirs == held[work.to.race]

(* Outcome, classify: what the status of an answer means for the document. *)
Classify(status) ==
    CASE status \in 200..299 -> "delivered"
      [] status = 401 -> "unpaired"
      [] status \in 300..399 \cup {408, 429} \cup 500..599 -> "retry"
      [] OTHER -> "refused"

(* No answer has no status to classify.                                    *)
NoAnswer == "retry"

(* A redirect, a slow request, a second batch at once, a page that is      *)
(* down, and a document refused on its merits.                             *)
NotTaken == {302, 408, 429, 503, 400, 422}

Exchange(taken) ==
    \/ /\ accepted[work.to.race] = work.to.token
       /\ held' = [held EXCEPT ![work.to.race] = taken]
       /\ \/ answer' = Classify(200) /\ Smoothly
          \/ answer' = NoAnswer /\ Mishap
    \/ /\ accepted[work.to.race] = work.to.token
       /\ UNCHANGED held
       /\ answer' \in {NoAnswer} \cup {Classify(status) : status \in NotTaken} /\ Mishap
    \/ /\ accepted[work.to.race] # work.to.token
       /\ UNCHANGED held
       /\ \/ answer' = Classify(401) /\ Smoothly
          \/ answer' = NoAnswer /\ Mishap

(* Mutant: the retry the answer asked for is not kept.                     *)
SettleForGood ==
    /\ answer \in {"retry", "unpaired"}
    /\ EndPass(FALSE)
    /\ unpaired' = (unpaired \/ answer = "unpaired")
    /\ ElsewhereUnchanged /\ Smoothly /\ UNCHANGED <<remote, pairing, sent>>

(* An answer that ends the pass: wait and retry, or stop until paired      *)
(* again.                                                                  *)
Settle ==
    /\ answer \in {"retry", "unpaired"}
    /\ EndPass(answer = "retry")
    /\ unpaired' = (unpaired \/ answer = "unpaired")
    /\ ElsewhereUnchanged /\ Smoothly /\ UNCHANGED <<remote, pairing, sent>>

(* Mutant: whether the course was taken or refused is not looked at.       *)
CourseAnswered ==
    /\ pc = "course" /\ sentCourse.course = work.course
    /\ Continue("diff", work)
    /\ ElsewhereUnchanged /\ Smoothly /\ UNCHANGED <<remote, shipdb>>

(* The course.  One already delivered is not sent again, and one refused   *)
(* stops the pass.                                                         *)
CourseDelivered ==
    /\ pc = "course" /\ sentCourse = [course |-> work.course, delivered |-> TRUE]
    /\ Continue("diff", work)
    /\ ElsewhereUnchanged /\ Smoothly /\ UNCHANGED <<remote, shipdb>>

CourseRefused ==
    /\ pc = "course" /\ sentCourse = [course |-> work.course, delivered |-> FALSE]
    /\ EndPass(FALSE)
    /\ ElsewhereUnchanged /\ Smoothly /\ UNCHANGED <<remote, shipdb>>

PutManifest ==
    /\ pc = "course" /\ sentCourse.course # work.course
    /\ Exchange([Theirs EXCEPT !.course = work.course])
    /\ pc' = "manifest"
    /\ ElsewhereUnchanged /\ UNCHANGED <<accepted, shipdb, work, seen>>

RecordManifest ==
    /\ pc = "manifest" /\ answer \in {"delivered", "refused"}
    /\ sentCourse' = [course |-> work.course, delivered |-> answer = "delivered"]
    /\ IF answer = "delivered" THEN Continue("diff", work) ELSE EndPass(FALSE)
    /\ ElsewhereUnchanged /\ Smoothly
    /\ UNCHANGED <<remote, pairing, unpaired, sentCrossings, sentRevisions, setAside>>

(* The runners whose crossings differ between what was last sent and what  *)
(* is true now, those who have none any more included.                     *)
Changed == {r \in Runners : sentCrossings[r] # work.crossings[r]}

Diff ==
    /\ pc = "diff"
    /\ Continue("send", [work EXCEPT !.todo = Changed])
    /\ ElsewhereUnchanged /\ Smoothly /\ UNCHANGED <<remote, shipdb>>

(* A batch is the next runners in order, as many as fit, each of them      *)
(* whole: it replaces all that was held of them.                           *)
PostCrossings ==
    /\ pc = "send"
    /\ \E last \in work.todo :
        LET batch == {r \in work.todo : r <= last}
        IN /\ Exchange([Theirs EXCEPT !.crossings = [r \in Runners |->
                            IF r \in batch THEN work.crossings[r] ELSE @[r]]])
           /\ work' = [work EXCEPT !.batch = batch, !.todo = @ \ batch]
    /\ pc' = "crossings"
    /\ ElsewhereUnchanged /\ UNCHANGED <<accepted, shipdb, seen>>

(* A runner of the batch is recorded as sent, delivered or refused alike,  *)
(* in a commit of its own.                                                 *)
RecordRunner ==
    /\ pc = "crossings" /\ answer \in {"delivered", "refused"}
    /\ LET r == Least(work.batch)
           rest == work.batch \ {r}
       IN /\ sentCrossings' = [sentCrossings EXCEPT ![r] = work.crossings[r]]
          /\ setAside' = IF answer = "refused" THEN setAside \cup {r} ELSE setAside \ {r}
          /\ work' = [work EXCEPT !.batch = rest]
          /\ IF rest = {} THEN pc' = "send" /\ answer' = "none" ELSE UNCHANGED <<pc, answer>>
    /\ ElsewhereUnchanged /\ Smoothly
    /\ UNCHANGED <<remote, pairing, unpaired, sentCourse, sentRevisions, seen>>

ListRevisions ==
    /\ pc = "send" /\ work.todo = {}
    /\ Continue("revise", [work EXCEPT !.revisions = 1..published])
    /\ ElsewhereUnchanged /\ Smoothly /\ UNCHANGED <<remote, shipdb>>

(* Mutant: the newest first.                                               *)
AtNewest == CHOOSE n \in work.revisions : \A m \in work.revisions : m <= n

(* The revision the pass is at: the oldest on its list.                    *)
At == Least(work.revisions)

SkipRevision ==
    /\ pc = "revise" /\ work.revisions # {} /\ sentRevisions[At] # "no"
    /\ Continue("revise", [work EXCEPT !.revisions = @ \ {At}])
    /\ ElsewhereUnchanged /\ Smoothly /\ UNCHANGED <<remote, shipdb>>

PostRevision ==
    /\ pc = "revise" /\ work.revisions # {} /\ sentRevisions[At] = "no"
    /\ Exchange([Theirs EXCEPT !.revisions = @ \cup {At}])
    /\ pc' = "results"
    /\ ElsewhereUnchanged /\ UNCHANGED <<accepted, shipdb, work, seen>>

(* A revision that cannot be published is recorded as one refused.         *)
CannotPublish ==
    /\ pc = "revise" /\ work.revisions # {} /\ sentRevisions[At] = "no"
    /\ Mishap
    /\ pc' = "results" /\ answer' = "refused"
    /\ ElsewhereUnchanged /\ UNCHANGED <<remote, shipdb, work, seen>>

RecordRevision ==
    /\ pc = "results" /\ answer \in {"delivered", "refused"}
    /\ sentRevisions' = [sentRevisions EXCEPT ![At] = answer]
    /\ Continue("revise", [work EXCEPT !.revisions = @ \ {At}])
    /\ ElsewhereUnchanged /\ Smoothly
    /\ UNCHANGED <<remote, pairing, unpaired, sentCourse, sentCrossings, setAside>>

PassDone ==
    /\ pc = "revise" /\ work.revisions = {}
    /\ EndPass(FALSE)
    /\ ElsewhereUnchanged /\ Smoothly /\ UNCHANGED <<remote, shipdb>>
-----------------------------------------------------------------------------
Timer == ConfigChanges \/ SetCourse \/ Publish \/ \E r \in Runners : CrossingsChange(r)

PairSteps == InsertPairing \/ ForgetCourse \/ ForgetCrossings \/ ForgetRevisions \/ ClearUnpaired

Director == PairDies \/ \E race \in Races : AskToPair(race) \/ Unpair(race)

PassSteps ==
    \/ Look \/ StopUnpaired \/ TakePairing \/ StopWithoutCourse \/ Derive \/ Settle
    \/ CourseDelivered \/ CourseRefused \/ PutManifest \/ RecordManifest
    \/ Diff \/ PostCrossings \/ RecordRunner
    \/ ListRevisions \/ SkipRevision \/ PostRevision \/ CannotPublish \/ RecordRevision \/ PassDone

Next == Timer \/ PairSteps \/ Director \/ PassSteps \/ PassFails \/ Die \/ Start \/ LookInVain

Spec == Init /\ [][Next]_vars

(* The unit restarts the shipper, the shipper keeps looking, and a pair    *)
(* command that has its token goes on.  Mishaps are bounded: in the end a  *)
(* request is answered.                                                    *)
Fairness == WF_vars(PassSteps) /\ WF_vars(Start) /\ WF_vars(PairSteps)

FairSpec == Spec /\ Fairness
-----------------------------------------------------------------------------
(* A course RaceDay Connect has refused stops everything until it changes. *)
Refused == sentCourse = [course |-> course, delivered |-> FALSE]

(* The box can send: it has a course and a pairing, and nothing it waits   *)
(* for an operator to do.                                                  *)
CanSend == Paired /\ course # 0 /\ ~Refused /\ pair.at = "away"

(* The race the box is paired with holds what is true, but for what it     *)
(* refused.                                                                *)
InSync ==
    LET theirs == held[pairing.race]
    IN /\ theirs.course = course
       /\ \A r \in Runners \ setAside : theirs.crossings[r] = Stated(r)
       /\ \A n \in 1..published : sentRevisions[n] = "refused" \/ n \in theirs.revisions

(* The shipper waits for nothing and will do nothing until something       *)
(* changes.  After an error it may rest so by accident: see PassFails.     *)
Rests == pc = "idle" /\ ~seen.event /\ ~seen.state /\ ~seen.retry /\ ~seen.reopened

(* When the shipper rests, the page holds what the timer derived: no       *)
(* course, crossing, withdrawal or revision was lost to an answer that did *)
(* not come, a crash between sending and recording, or a change made while *)
(* a pass was under way.                                                   *)
RestIsSync == Rests /\ CanSend => InSync

(* Nothing is sent against a course the page does not hold: from the       *)
(* moment a pass turns to crossings, the race it sends to holds the course *)
(* they were derived under.                                                *)
CourseIsHeldFirst ==
    pc \in {"diff", "send", "crossings", "revise", "results"} => Theirs.course = work.course

(* Revisions arrive oldest first: the page never holds a correction and    *)
(* not the revision before it, unless that one was set aside.              *)
OldestFirst ==
    Paired /\ pair.at = "away" =>
        LET theirs == held[pairing.race].revisions
        IN \A n \in theirs : \A m \in 1..n : m \in theirs \/ sentRevisions[m] = "refused"

(* Once the timer has nothing new and the box is paired and can send, the  *)
(* page ends up holding what is true, whatever was lost on the way.        *)
Connected ==
    CanSend /\ accepted[pairing.race] = pairing.token /\ ~seen.reopened

EverythingArrives == <>[][~Timer]_vars /\ <>[]Connected => <>[](Connected /\ InSync)
=============================================================================
