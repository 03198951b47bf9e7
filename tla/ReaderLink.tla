----------------------------- MODULE ReaderLink -----------------------------
(***************************************************************************)
(* What a provider promises whoever takes its events, in the order they    *)
(* are taken: a connection is announced once and lost once, its transmit   *)
(* power is told once at most, a failed attempt counts against the next    *)
(* one until a connection has been announced, and reads come in the order  *)
(* the reader made them, none of them twice.                               *)
(***************************************************************************)
EXTENDS Naturals

CONSTANT MostFailures   \* where counting failed attempts stops

VARIABLES
    link,      \* whether the last of the two edges told was a connection
    power,     \* whether this connection's transmit power has been told
    latest,    \* the newest read told
    failures   \* the losses told since one of an announced connection

vars == <<link, power, latest, failures>>

Init == link = "down" /\ power = FALSE /\ latest = 0 /\ failures = 0

Announce == link = "down" /\ link' = "up" /\ UNCHANGED <<power, latest, failures>>

(* Whatever the link: see PowerIsToldFirst in SerialReader.                *)
TellPower ==
    /\ ~power
    /\ power' = TRUE
    /\ UNCHANGED <<link, latest, failures>>

(* Whatever the link: a stream may be left from the last connection.       *)
TellRead ==
    /\ latest' \in Nat /\ latest' > latest
    /\ UNCHANGED <<link, power, failures>>

Lose ==
    /\ link' = "down"
    /\ power' = FALSE
    /\ failures' = IF link = "up" THEN 0
                   ELSE IF failures < MostFailures THEN failures + 1 ELSE failures
    /\ UNCHANGED latest

Next == Announce \/ TellPower \/ TellRead \/ Lose

Spec == Init /\ [][Next]_vars
=============================================================================
