------------------------------- MODULE Health -------------------------------
(***************************************************************************)
(* What /health says of a device: that nothing is wrong, or every reason   *)
(* why something is.  It only reads, and what it cannot read is a reason   *)
(* too: the one thing a health check must not do is say nothing.           *)
(***************************************************************************)
EXTENDS Naturals

(* The floor for a device whose own cannot be read, in MB.                 *)
DefaultFloor == 256

(* Health::ok: a device on which all is well, read without a failure, with *)
(* what it keeps in memory of its reader, and the rows and the space.      *)
Well ==
    [unreadable |-> {}, received |-> 0, decodeFaults |-> 0, setAside |-> 0, fault |-> FALSE,
     gaps |-> {}, steps |-> 0, floor |-> DefaultFloor, space |-> DefaultFloor]

Because(reason, condition) ==
    IF condition THEN {[of |-> "the device", is |-> reason]} ELSE {}

Unread(device, sources) == {[of |-> source, is |-> "unreadable"] : source \in device.unreadable \cap sources}

(* undecodable: frames came whole and none could be read, ever.            *)
Undecodable(device) == device.decodeFaults > 0 /\ device.received = 0

(* The reader, from memory.  A write that fails is said while it does; a   *)
(* read set aside is said for good.                                        *)
ReaderReasons(device) ==
    Because("reads are not being stored", device.fault)
    \cup Because("reads were set aside", device.setAside > 0)
    \cup Because("nothing it reports is being recorded", Undecodable(device))

(* Mutant: only a gap the transport confirmed is worth a reason.           *)
GapReasonsIfConfirmed(gaps) ==
    {[of |-> gap.reader, is |-> "confirmed gone"] : gap \in {g \in gaps : g.detection = "confirmed"}}

(* The gaps that are open, from the rows: they are there after a restart.  *)
GapReasons(gaps) ==
    {[of |-> gap.reader,
      is |-> IF gap.detection = "confirmed" THEN "confirmed gone" ELSE "possibly gone"]
        : gap \in gaps}

StepReasons(steps) == Because("the device clock has jumped", steps > 0)

(* Mutant: exactly the floor is too little.                                *)
SpaceReasonsAtTheFloor(space, floor) == Because("race start will refuse", space <= floor)

SpaceReasons(space, floor) == Because("race start will refuse", space < floor)

(* What is read once the stores are: whatever fails leaves the rest.       *)
StoreReasons(device) ==
    LET legible(source) == source \notin device.unreadable
        floor == IF legible("floor") THEN device.floor ELSE DefaultFloor
    IN  Unread(device, {"schema", "reads", "gaps", "floor", "steps", "space"})
        \cup (IF legible("gaps") THEN GapReasons(device.gaps) ELSE {})
        \cup (IF legible("steps") THEN StepReasons(device.steps) ELSE {})
        \cup (IF legible("space") THEN SpaceReasons(device.space, floor) ELSE {})

(* health: stores an earlier failure left unreadable end the report there, *)
(* with what the memory had to say.                                        *)
DegradedBy(device) ==
    Unread(device, {"clock", "reader", "stores"})
    \cup (IF "reader" \in device.unreadable THEN {} ELSE ReaderReasons(device))
    \cup (IF "stores" \in device.unreadable THEN {} ELSE StoreReasons(device))

IsDegraded(device) == DegradedBy(device) # {}

(* GET /health: what a monitor sees without reading the body.              *)
Answer(device) == IF IsDegraded(device) THEN 503 ELSE 200
=============================================================================
