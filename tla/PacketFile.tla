----------------------------- MODULE PacketFile -----------------------------
(***************************************************************************)
(* The hex file as the transfer engine sees it (module BootLoader): so     *)
(* many packets, and how many of them have been taken.                     *)
(***************************************************************************)
EXTENDS Integers

VARIABLES
    packets,  \* of the file; 0 without one
    taken

fileVars == <<packets, taken>>

FileInit == packets = 0 /\ taken = 0

\* A file is loaded, and left at its end.
Load == packets' \in Nat /\ taken' = packets'

\* Programming starts again at the first packet, or goes on.
Take ==
    /\ \E from \in {0, taken} : from < packets /\ taken' = from + 1
    /\ UNCHANGED packets

\* The file is read to compute its CRC.
ReadAll == taken' = packets /\ UNCHANGED packets

FileNext == Load \/ Take \/ ReadAll

FileSpec == FileInit /\ [][FileNext]_fileVars
=============================================================================
