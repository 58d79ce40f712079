---------------------------- MODULE MCBootLoader ----------------------------
(***************************************************************************)
(* The engine under any client: calls of the GUI thread in any order, on a *)
(* lossy link, with answers that may come after the retry delay.           *)
(***************************************************************************)
EXTENDS BootLoader

CONSTANTS
    MaxCalls,   \* calls the client makes, deliveries apart
    MaxPending  \* notifications that may wait for the GUI thread

VARIABLE calls

MCRetries == [c \in Commands |-> IF c = "JMP_TO_APP" THEN 1 ELSE 2]

\* A file of two packets, or one that cannot be opened.
MCHexFiles == {2, NoFile}

MCInit == Init /\ calls = 0

MCNext ==
    /\ \/ (Worker \/ GuiContinues \/ Environment) /\ UNCHANGED calls
       \/ ~crashed /\ Deliver /\ UNCHANGED calls
       \/ /\ calls < MaxCalls
          /\ calls' = calls + 1
          /\ Client
          /\ UNCHANGED posted
    /\ Len(posted') <= MaxPending

MCSpec == MCInit /\ [][MCNext]_<<vars, calls>>
=============================================================================
