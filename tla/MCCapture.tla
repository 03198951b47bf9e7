----------------------------- MODULE MCCapture -----------------------------
(* One chip, whose record is its identifier.                               *)
EXTENDS Capture

MCRecords == {<<5>>}
=============================================================================
