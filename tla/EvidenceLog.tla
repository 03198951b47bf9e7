---------------------------- MODULE EvidenceLog ----------------------------
(***************************************************************************)
(* What the journal promises about evidence, without a database, a sidecar *)
(* or a recovery: a read once acknowledged is held for good.  It is given  *)
(* up only when the medium damaged a copy of it, and never because a       *)
(* process stopped, the power failed, or a snapshot was restored.          *)
(***************************************************************************)
CONSTANT Reads

VARIABLES
    held,          \* the reads some file on the device still carries
    acknowledged,  \* the reads the service has counted as persisted
    damaged        \* the reads that have lost a copy to the medium

vars == <<held, acknowledged, damaged>>

Init ==
    /\ held \in SUBSET Reads
    /\ acknowledged = {}
    /\ damaged = {}

(* A read reaches a file.                                                  *)
Hold ==
    /\ \E r \in Reads : held' = held \cup {r}
    /\ UNCHANGED <<acknowledged, damaged>>

(* A held read is acknowledged.                                            *)
Acknowledge ==
    /\ \E r \in held : acknowledged' = acknowledged \cup {r}
    /\ UNCHANGED <<held, damaged>>

(* Reads nobody was promised, or that were damaged, are gone.              *)
Forget ==
    /\ \E lost \in SUBSET held :
          /\ lost \cap acknowledged \subseteq damaged
          /\ held' = held \ lost
    /\ UNCHANGED <<acknowledged, damaged>>

(* The medium damages one copy of a read, and with it perhaps the last.    *)
Damage ==
    /\ \E r \in held :
          /\ damaged' = damaged \cup {r}
          /\ held' \in {held, held \ {r}}
    /\ UNCHANGED acknowledged

Next == Hold \/ Acknowledge \/ Forget \/ Damage

Spec == Init /\ [][Next]_vars
=============================================================================
