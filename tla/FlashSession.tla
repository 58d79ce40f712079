---------------------------- MODULE FlashSession ----------------------------
(***************************************************************************)
(* What the program promises the person at the dialog (pic32ubldlg.cpp):   *)
(* one command at a time is carried out, it alone changes the flash of the *)
(* device, the packets of the file are written in order, and the outcome   *)
(* printed is the one of that command and true of the flash.               *)
(***************************************************************************)
EXTENDS Integers

CONSTANT Files  \* lengths in packets

VARIABLES
    pending,  \* the command carried out, or "none"
    sequence, \* whether it is one of Erase-Program-Verify
    outcome,  \* the outcome printed last
    file,     \* the loaded file
    flash     \* the packets of it the flash holds

sessionVars == <<pending, sequence, outcome, file, flash>>

SessionInit ==
    /\ pending = "none"
    /\ sequence = FALSE
    /\ outcome = "none"
    /\ file = -1
    /\ flash = {}

Whole == 1..file \subseteq flash

Begin ==
    /\ pending = "none"
    /\ \/ /\ pending' \in {"READ_BOOT_INFO", "ERASE_FLASH", "PROGRAM_FLASH",
                           "READ_CRC"}
          /\ UNCHANGED sequence
       \/ pending' = "ERASE_FLASH" /\ sequence' = TRUE
    /\ UNCHANGED <<outcome, file, flash>>

Load ==
    /\ pending = "none"
    /\ file' \in Files
    /\ UNCHANGED <<pending, sequence, outcome, flash>>

Erase ==
    /\ pending = "ERASE_FLASH"
    /\ flash' = {}
    /\ UNCHANGED <<pending, sequence, outcome, file>>

Program ==
    /\ pending = "PROGRAM_FLASH"
    /\ \E k \in 1..file :
           /\ 1..(k - 1) \subseteq flash
           /\ flash' = flash \cup {k}
    /\ UNCHANGED <<pending, sequence, outcome, file>>

\* What may be printed of a command that was answered.
Truth(cmd) ==
    CASE cmd = "READ_BOOT_INFO" -> {"connected"}
      [] cmd = "ERASE_FLASH"    -> IF flash = {} THEN {"erased"} ELSE {}
      [] cmd = "PROGRAM_FLASH"  -> IF Whole THEN {"programmed"} ELSE {}
      [] cmd = "READ_CRC"       -> IF Whole THEN {"verified"}
                                            ELSE {"verification failed"}

\* Erase-Program-Verify goes on with the next of its commands.
GoOn ==
    \/ pending = "ERASE_FLASH" /\ pending' = "PROGRAM_FLASH" /\ UNCHANGED sequence
    \/ pending = "PROGRAM_FLASH" /\ pending' = "READ_CRC" /\ UNCHANGED sequence
    \/ pending = "READ_CRC" /\ pending' = "none" /\ sequence' = FALSE

Succeed ==
    /\ pending # "none"
    /\ outcome' \in Truth(pending)
    /\ IF sequence THEN GoOn ELSE pending' = "none" /\ UNCHANGED sequence
    /\ UNCHANGED <<file, flash>>

\* Without a connection there is nothing to go back to but "Connect"; the
\* commands of Erase-Program-Verify do not fail.
Fail ==
    /\ pending # "none"
    /\ ~sequence
    /\ outcome' = "no response"
    /\ pending' \in {"none", pending}
    /\ UNCHANGED <<sequence, file, flash>>

SessionNext == Begin \/ Load \/ Erase \/ Program \/ Succeed \/ Fail

SessionSpec == SessionInit /\ [][SessionNext]_sessionVars
=============================================================================
