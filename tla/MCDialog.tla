------------------------------ MODULE MCDialog ------------------------------
(***************************************************************************)
(* The dialog for TLC: the tries, the hex files and the users of the runs. *)
(***************************************************************************)
EXTENDS Dialog

CONSTANTS Tries   \* tries of every command but JMP_TO_APP

MCRetries == [c \in Commands |-> IF c = "JMP_TO_APP" THEN 1 ELSE Tries]

\* Hex files: one of two packets, one of three, either.
TwoPackets == {2}
ThreePackets == {3}
TwoFiles == {2, 3}

\* With one that cannot be opened TLC refutes NoCrash; no run uses it.
BadFile == {2, NoFile}

\* With one that has no record TLC refutes OutcomeIsComing; no run uses it.
NoRecord == {0, 2}

\* Users: one who works step by step; one who also runs the application, or
\* uses Erase-Program-Verify; one who only programs.
StepByStep == {"LoadHex", "Erase", "Program", "Verify", "BootVer"}
Everyday == StepByStep \cup {"RunApplication"}
Programmer == {"LoadHex", "Program"}
AllInOne == StepByStep \cup {"EraseProgVerify"}
Nobody == {}
=============================================================================
