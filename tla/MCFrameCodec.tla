---------------------------- MODULE MCFrameCodec ----------------------------
(***************************************************************************)
(* FrameCodec for TLC, with the CRC of the program: Crc is CrcBytes.       *)
(***************************************************************************)
EXTENDS FrameCodec, Crc16

\* The answer to an erasure, and one to READ_CRC whose bytes are control
\* bytes and whose command is EOT.
SomeResponses == {<<2>>, <<4, 16, 1>>}

SomeNoise == {SOH, EOT, DLE, 255}

\* The table driven CRC is the CRC of CCITT for everything the device sent
\* (bootloader.cpp:37).
CrcIsCcitt == \A i \in DOMAIN sent : CalculateCrc(sent[i]) = Ccitt(sent[i])
=============================================================================
