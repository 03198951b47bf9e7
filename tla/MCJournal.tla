----------------------------- MODULE MCJournal -----------------------------
(* The journal over a handful of reads, one of which may be unstorable and *)
(* one of which may be older than the sidecar.                             *)
EXTENDS Journal

CONSTANTS a, b, legacy, wide

OneLegacyRow == <<legacy>>
=============================================================================
