-------------------------------- MODULE Crc16 --------------------------------
(***************************************************************************)
(* CalculateCrc (bootloader.cpp): the CRC of a frame and of the virtual    *)
(* flash, computed four bits at a time from a table, and the definition of *)
(* the CRC it is meant to be.                                              *)
(***************************************************************************)
EXTENDS Integers, Sequences, SequencesExt, Bitwise

crc_table == <<\h0000, \h1021, \h2042, \h3063, \h4084, \h50a5, \h60c6, \h70e7,
               \h8108, \h9129, \ha14a, \hb16b, \hc18c, \hd1ad, \he1ce, \hf1ef>>

\* Half a loop of CalculateCrc: crc is an unsigned short, x at least 4 bits.
Nibble(crc, x) ==
    crc_table[(((crc \div 4096) ^^ x) % 16) + 1] ^^ ((crc * 16) % 65536)

\* Mutant: the upper half of a byte is used twice.
CalculateCrcUpper(data) ==
    FoldLeft(LAMBDA crc, byte : Nibble(Nibble(crc, byte \div 16), byte \div 16),
             0, data)

CalculateCrc(data) ==
    FoldLeft(LAMBDA crc, byte : Nibble(Nibble(crc, byte \div 16), byte),
             0, data)

\* The two bytes SendCommand appends and BuildRxFrame compares, low one first.
CrcBytes(data) ==
    LET crc == CalculateCrc(data) IN <<crc % 256, crc \div 256>>

-----------------------------------------------------------------------------
(***************************************************************************)
(* The reference: division by x^16 + x^12 + x^5 + 1, one bit at a time.    *)
(***************************************************************************)
Polynomial == \h1021

DivideBit(rest, bit) ==
    ((rest * 2) % 65536) ^^ (IF rest \div 32768 = bit THEN 0 ELSE Polynomial)

\* The bits of a byte, highest first.
Bits(byte) == [i \in 1..8 |-> (byte \div 2^(8 - i)) % 2]

Ccitt(data) ==
    FoldLeft(DivideBit, 0, FlattenSeq([i \in DOMAIN data |-> Bits(data[i])]))
=============================================================================
