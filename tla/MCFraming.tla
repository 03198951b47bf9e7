----------------------------- MODULE MCFraming -----------------------------
(* A chip whose record holds a frame of its own, and a plain one.          *)
EXTENDS Framing

MCRecords == {<<5, 3, 6>>, Frame(NoTags, <<>>)}
=============================================================================
