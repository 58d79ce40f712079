---------------------------- MODULE ReportStream ----------------------------
(***************************************************************************)
(* What hid_read promises its caller about the input reports of one open   *)
(* device (hid.c): they are read in the order in which they arrived, none  *)
(* twice, and a report is lost only if Capacity newer ones have arrived    *)
(* since it did.                                                           *)
(***************************************************************************)
EXTENDS Integers

CONSTANT Capacity

VARIABLES
    sent,  \* reports the device has sent since it was opened
    got    \* the one read last, 0 if none

streamVars == <<sent, got>>

StreamInit == sent = 0 /\ got = 0

Send == sent' = sent + 1 /\ UNCHANGED got

\* Report n is read; the ones between got and n are lost.
Receive(n) ==
    /\ got < n
    /\ n = got + 1 \/ n - 1 + Capacity <= sent
    /\ got' = n
    /\ UNCHANGED sent

\* The device is opened again.
Reopen == sent' = 0 /\ got' = 0

StreamNext == Send \/ (\E n \in 1..sent : Receive(n)) \/ Reopen

StreamSpec == StreamInit /\ [][StreamNext]_streamVars
=============================================================================
