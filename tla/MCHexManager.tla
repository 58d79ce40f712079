---------------------------- MODULE MCHexManager ----------------------------
(***************************************************************************)
(* Hex files for TLC.                                                      *)
(***************************************************************************)
EXTENDS HexManager

Data(at, len, value) ==
    [kind |-> "data", at |-> at, len |-> len, value |-> value]
Ext(base) == [kind |-> "ext", at |-> base, len |-> 0, value |-> Erased]
Eof == [kind |-> "eof", at |-> 0, len |-> 0, value |-> Erased]

\* Two extended addresses, a range that does not end at a multiple of 4, and
\* a record of the boot sector.
Lines == <<Ext(4), Data(1, 2, "a"), Data(3, 3, "b"), Ext(8), Data(3, 3, "c"),
           Data(5, 1, "d"), Eof>>

\* With 2 and 3 records a packet the files end inside and at the end of one.
GoodFiles ==
    {[lines |-> SubSeq(Lines, 1, n) \o <<Eof>>, terminated |-> t, crlf |-> FALSE] :
         n \in {1, 2, 3, 5, 6}, t \in BOOLEAN}
    \cup {[lines |-> SubSeq(Lines, 1, 5), terminated |-> t, crlf |-> FALSE] :
             t \in BOOLEAN}

\* A line that is no record is the first of a packet: TLC refutes
\* CompletedMeansWhole; no run uses it.
BadFiles ==
    {[lines |-> <<Ext(4), Data(1, 2, "a"), NoLine, Data(3, 3, "b"), Eof>>,
      terminated |-> TRUE, crlf |-> FALSE]}
=============================================================================
