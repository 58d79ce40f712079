------------------------------ MODULE HexManager ------------------------------
(***************************************************************************)
(* The hex file: class CHexManager (hex.cpp), with the loop of SendCommand *)
(* (bootloader.cpp) that puts its records into packets.                    *)
(*                                                                         *)
(* A line is a record of kind "data", "ext" (extended address) or "eof",   *)
(* or "bad", which does not begin with a colon.  Addresses are small: 0 is *)
(* APPLICATION_START, and the two kinds of extended address are one base.  *)
(***************************************************************************)
EXTENDS Integers, Sequences, FiniteSets, SequencesExt

CONSTANTS
    Files,        \* [lines, terminated, crlf]: does the last line end in a
                  \* newline, do lines end in CR LF?
    BatchSize,    \* 11: the lines SendCommand puts into a packet
    FlashSize,    \* of the device and of VirtualFlash
    Boot,         \* BOOT_SECTOR_BEGIN
    GarbageBase,  \* values of an extended address never set
    Erased,       \* an erased byte
    MaxCalls      \* bound: how often a file is loaded or verified

ASSUME BatchAssumption == BatchSize \in Nat \ {0}
ASSUME FlashAssumption == FlashSize \in Nat /\ Boot \in Nat
ASSUME GarbageAssumption == GarbageBase \subseteq Nat
ASSUME CallsAssumption == MaxCalls \in Nat

NoFile == [lines |-> << >>, terminated |-> FALSE, crlf |-> FALSE]
NoLine == [kind |-> "bad", at |-> 0, len |-> 0, value |-> Erased]

\* A record in binary: with CR LF, ConvertAsciiToHex makes one more byte of
\* the pair, because neither character is 0.
Converted(line, crlf) == [line |-> line, extra |-> crlf]

Kinds == {"data", "ext", "eof", "bad"}

ASSUME FilesAssumption ==
    \A f \in Files :
        /\ f.lines \in Seq(ToSet(f.lines)) /\ f.lines # << >>
        /\ \A line \in ToSet(f.lines) :
               line.kind \in Kinds /\ line.at \in Nat /\ line.len \in Nat
        /\ f.terminated \in BOOLEAN /\ f.crlf \in BOOLEAN

VARIABLES
    HexFile,        \* what HexFilePtr points at; NoFile is NULL
    HexTotalLines,
    reader,         \* [next, feof, Ascii, HexCurrLineNo]
    packetEnds,     \* how far the file is read after each of its packets
    packets,        \* sent since programming began: sequences of records
    programming,    \* is the answer to a packet awaited?
    completed,      \* was the file reported as programmed?
    verified,       \* what VerifyFlash computed last: [start, len, crc]
    crashed,        \* was a NULL FILE* or memory outside VirtualFlash used?
    calls

vars == <<HexFile, HexTotalLines, reader, packetEnds, packets, programming,
          completed, verified, crashed, calls>>

NothingVerified == [start |-> 0, len |-> 0, crc |-> << >>]

Init ==
    /\ HexFile = NoFile
    /\ HexTotalLines = 0
    /\ reader = [next |-> 1, feof |-> FALSE, Ascii |-> NoLine, HexCurrLineNo |-> 0]
    /\ packetEnds = << >>
    /\ packets = << >>
    /\ programming = FALSE
    /\ completed = FALSE
    /\ verified = NothingVerified
    /\ crashed = FALSE
    /\ calls = 0

-----------------------------------------------------------------------------
(***************************************************************************)
(* Reading.  Operators take a reader and return one.                       *)
(***************************************************************************)

\* fgets, external: the last line of a terminated file does not set feof; a
\* call behind it does, and leaves the buffer Ascii as it was.
Fgets(f, r) ==
    IF r.next <= Len(f.lines)
    THEN [r EXCEPT !.Ascii = f.lines[r.next],
                   !.next = @ + 1,
                   !.feof = r.next = Len(f.lines) /\ ~f.terminated]
    ELSE [r EXCEPT !.feof = TRUE]

\* Mutant: feof is asked after the call of fgets.
GetNextHexRecordLate(f, r) ==
    LET s == Fgets(f, r)
    IN  IF s.feof \/ s.Ascii.kind = "bad" THEN [record |-> << >>, reader |-> s]
        ELSE [record |-> <<Converted(s.Ascii, f.crlf)>>,
              reader |-> [s EXCEPT !.HexCurrLineNo = @ + 1]]

\* GetNextHexRecord: the record is a sequence, empty if it returns 0.
GetNextHexRecord(f, r) ==
    LET s == Fgets(f, r)
    IN  IF r.feof THEN [record |-> << >>, reader |-> r]
        ELSE IF s.Ascii.kind = "bad" THEN [record |-> << >>, reader |-> s]
        ELSE [record |-> <<Converted(s.Ascii, f.crlf)>>,
              reader |-> [s EXCEPT !.HexCurrLineNo = @ + 1]]

\* fseek(HexFilePtr, 0, 0)
Rewound(r) == [r EXCEPT !.next = 1, !.feof = FALSE]

\* ResetHexFilePointer
ResetHexFilePointer(r) == [Rewound(r) EXCEPT !.HexCurrLineNo = 0]

\* One round of the loop of SendCommand.
AddRecord(f, batch) ==
    LET got == GetNextHexRecord(f, batch.reader)
    IN  [records |-> batch.records \o got.record, reader |-> got.reader]

\* Mutant: the first record does not count.
BatchLonger(f, r) ==
    LET after[i \in 0..(BatchSize + 1)] ==
            IF i = 0 THEN [records |-> << >>, reader |-> r]
                     ELSE AddRecord(f, after[i - 1])
    IN  after[BatchSize + 1]

\* The records of a packet: none if already the first call returns 0, but
\* later calls that return 0 are skipped.
Batch(f, r) ==
    LET first == AddRecord(f, [records |-> << >>, reader |-> r])
        after[i \in 1..BatchSize] ==
            IF i = 1 THEN first ELSE AddRecord(f, after[i - 1])
    IN  IF first.records = << >> THEN first ELSE after[BatchSize]

-----------------------------------------------------------------------------
(***************************************************************************)
(* LoadHexFile.  The buttons keep it out while the file is programmed.     *)
(***************************************************************************)

\* Mutant: only successful reads are counted.
LinesOf(f) == Len(f.lines)

\* The lines while(!feof) counts.
CountedLines(f) == Len(f.lines) + (IF f.terminated THEN 1 ELSE 0)

\* How far a reader has come.
Progress(r) == r.next + (IF r.feof THEN 1 ELSE 0)

\* One packet more, if there is one.
NextEnd(f, read) ==
    LET batch == Batch(f, read.reader)
    IN  IF batch.records = << >> THEN read
        ELSE [reader |-> batch.reader,
              ends |-> Append(read.ends, Progress(batch.reader))]

\* Where each of the packets ends when the file is read from its start.
PacketEnds(f) ==
    LET after[i \in 0..CountedLines(f)] ==
            IF i = 0 THEN [reader |-> Rewound(reader), ends |-> << >>]
                     ELSE NextEnd(f, after[i - 1])
    IN  after[CountedLines(f)].ends

LoadHexFile ==
    /\ ~crashed
    /\ ~programming
    /\ calls < MaxCalls
    /\ calls' = calls + 1
    /\ \E f \in Files :
           /\ HexFile' = f
           /\ HexTotalLines' = CountedLines(f)
           /\ reader' = [reader EXCEPT !.next = Len(f.lines) + 1, !.feof = TRUE]
           /\ packetEnds' = PacketEnds(f)
    /\ completed' = FALSE
    /\ UNCHANGED <<packets, programming, verified, crashed>>

\* The file cannot be opened.
LoadFails ==
    /\ ~crashed
    /\ ~programming
    /\ calls < MaxCalls
    /\ calls' = calls + 1
    /\ HexFile' = NoFile
    /\ packetEnds' = << >>
    /\ completed' = FALSE
    /\ UNCHANGED <<HexTotalLines, reader, packets, programming, verified,
                   crashed>>

-----------------------------------------------------------------------------
(***************************************************************************)
(* SendCommand(PROGRAM_FLASH) and the answers to its packets.              *)
(***************************************************************************)

\* ResetHexFilePtr is true: the dialog starts to program.
ProgramFlash ==
    /\ ~crashed
    /\ ~programming
    /\ HexFile # NoFile
    /\ LET batch == Batch(HexFile, ResetHexFilePointer(reader))
       IN  /\ reader' = batch.reader
           /\ programming' = (batch.records # << >>)
           /\ packets' = IF batch.records = << >> THEN << >>
                                                  ELSE <<batch.records>>
    /\ completed' = FALSE
    /\ UNCHANGED <<HexFile, HexTotalLines, packetEnds, verified, crashed,
                   calls>>

\* HandleResponse: the next packet, or the end.
ProgramNext ==
    /\ ~crashed
    /\ programming
    /\ LET batch == Batch(HexFile, reader)
       IN  /\ reader' = batch.reader
           /\ programming' = (batch.records # << >>)
           /\ completed' = (batch.records = << >>)
           /\ packets' = IF batch.records = << >> THEN packets
                         ELSE Append(packets, batch.records)
    /\ UNCHANGED <<HexFile, HexTotalLines, packetEnds, verified, crashed,
                   calls>>

\* No answer: OnTransmitFailure.
ProgramFails ==
    /\ programming
    /\ programming' = FALSE
    /\ UNCHANGED <<HexFile, HexTotalLines, reader, packetEnds, packets,
                   completed, verified, crashed, calls>>

-----------------------------------------------------------------------------
(***************************************************************************)
(* VerifyFlash.  A state of its loop is                                    *)
(* [reader, ends, base, min, max, image].                                  *)
(***************************************************************************)
Blank == [a \in 0..(FlashSize - 1) |-> Erased]

\* memcpy of a record's bytes to an address.
Copied(image, line, address) ==
    [a \in DOMAIN image |->
        IF a \in address..(address + line.len - 1) THEN line.value ELSE image[a]]

\* A data record; the boot sector is left out.
WithData(v, line) ==
    LET address == v.base + line.at
        end == address + line.len
    IN  IF address >= Boot THEN v
        ELSE [v EXCEPT !.max = IF @ < end THEN end ELSE @,
                       !.min = IF @ > address THEN address ELSE @,
                       !.image = Copied(@, line, address)]

WithRecord(v, line) ==
    CASE line.kind = "data" -> WithData(v, line)
      [] line.kind = "ext"  -> [v EXCEPT !.base = line.at]
      [] line.kind = "eof"  -> [v EXCEPT !.base = 0]

\* Mutant: the loop ends with the end of file record.
VerifyRoundToEof(v) ==
    LET got == GetNextHexRecord(HexFile, v.reader)
        next == [v EXCEPT !.reader = got.reader]
    IN  IF v.ends THEN v
        ELSE IF got.record = << >> \/ got.record[1].line.kind = "eof"
        THEN [next EXCEPT !.ends = TRUE]
        ELSE WithRecord(next, got.record[1].line)

\* while((HexRecLen = GetNextHexRecord(...)) != 0)
VerifyRound(v) ==
    LET got == GetNextHexRecord(HexFile, v.reader)
        next == [v EXCEPT !.reader = got.reader]
    IN  IF v.ends THEN v
        ELSE IF got.record = << >> THEN [next EXCEPT !.ends = TRUE]
        ELSE WithRecord(next, got.record[1].line)

\* The start: no address that is looked at is above MinAddress.
Unread(base) ==
    [reader |-> Rewound(reader), ends |-> FALSE, base |-> base,
     min |-> Boot, max |-> 0, image |-> Blank]

VerifyLoop(base) ==
    LET after[i \in 0..(CountedLines(HexFile) + 1)] ==
            IF i = 0 THEN Unread(base) ELSE VerifyRound(after[i - 1])
    IN  after[CountedLines(HexFile) + 1]

\* Mutant: the end is rounded down.
RangeShort(min, max) ==
    [start |-> min - (min % 4), end |-> max - (max % 4)]

\* MinAddress -= MinAddress % 4; MaxAddress += MaxAddress % 4
Aligned(min, max) ==
    [start |-> min - (min % 4), end |-> max + (max % 4)]

\* The bytes a CRC is computed of stand for the CRC.
Region(image, start, len) == SubSeq([i \in 1..FlashSize |-> image[i - 1]],
                                    start + 1, start + len)

\* For READ_CRC and, from the dialog, CalculateFlashCRC.
VerifyFlash ==
    /\ ~crashed
    /\ ~programming
    /\ HexFile # NoFile
    /\ calls < MaxCalls
    /\ calls' = calls + 1
    /\ \E base \in GarbageBase :
        LET v == VerifyLoop(base)
            range == Aligned(v.min, v.max)
            len == range.end - range.start
        IN  /\ reader' = v.reader
            /\ IF v.max = 0 \/ range.end > FlashSize
               THEN crashed' = TRUE /\ UNCHANGED verified
               ELSE /\ verified' = [start |-> range.start, len |-> len,
                                    crc |-> Region(v.image, range.start, len)]
                    /\ UNCHANGED crashed
    /\ UNCHANGED <<HexFile, HexTotalLines, packetEnds, packets, programming,
                   completed>>

\* fseek(NULL, 0, 0)
VerifyCrashes ==
    /\ ~crashed
    /\ HexFile = NoFile
    /\ crashed' = TRUE
    /\ UNCHANGED <<HexFile, HexTotalLines, reader, packetEnds, packets,
                   programming, completed, verified, calls>>

-----------------------------------------------------------------------------
Next ==
    \/ LoadHexFile
    \/ LoadFails
    \/ ProgramFlash
    \/ ProgramNext
    \/ ProgramFails
    \/ VerifyFlash
    \/ VerifyCrashes

Spec == Init /\ [][Next]_vars

-----------------------------------------------------------------------------
(***************************************************************************)
(* The device, external: it decodes the records it is sent and programs    *)
(* what is not its boot sector into an erased flash.                       *)
(***************************************************************************)
DeviceStep(d, record) ==
    LET line == record.line
    IN  CASE line.kind = "ext" -> [d EXCEPT !.base = line.at]
          [] line.kind = "eof" -> [d EXCEPT !.base = 0]
          [] line.kind = "data" /\ d.base + line.at >= Boot -> d
          [] line.kind = "data" /\ d.base + line.at < Boot ->
                 [d EXCEPT !.flash = Copied(@, line, d.base + line.at),
                           !.written = @ \cup
                               (d.base + line.at)..(d.base + line.at + line.len - 1)]

Device ==
    LET records == FlattenSeq(packets)
        after[i \in 0..Len(records)] ==
            IF i = 0 THEN [base |-> 0, flash |-> Blank, written |-> {}]
                     ELSE DeviceStep(after[i - 1], records[i])
    IN  after[Len(records)]

-----------------------------------------------------------------------------
(***************************************************************************)
(* Properties.                                                             *)
(***************************************************************************)

\* Every variable has a value of its type; a packet has one to BatchSize
\* records (bootloader.cpp:425).
TypeOK ==
    /\ HexFile \in Files \cup {NoFile}
    /\ HexTotalLines \in Nat
    /\ HexFile # NoFile => reader.next \in 1..(Len(HexFile.lines) + 1)
    /\ reader.feof \in BOOLEAN
    /\ reader.HexCurrLineNo \in Nat
    /\ \A i \in DOMAIN packets : Len(packets[i]) \in 1..BatchSize
    /\ programming \in BOOLEAN
    /\ completed \in BOOLEAN
    /\ crashed \in BOOLEAN
    /\ calls \in 0..MaxCalls

\* The records of the file, as the format defines them.
RecordsOf(f) ==
    [i \in DOMAIN f.lines |-> [line |-> f.lines[i], extra |-> FALSE]]

\* "programming operation completed" (bootloader.cpp:227) is said only when
\* every record of the file has been sent, in order and unchanged; what feof
\* makes of the last line may come once more.
CompletedMeansWhole ==
    completed =>
        LET records == RecordsOf(HexFile)
            sent == FlattenSeq(packets)
        IN  sent = records \/ sent = Append(records, Last(records))

\* "Verification successful" can be trusted: after the whole file has been
\* programmed the range VerifyFlash asks the device to check holds every byte
\* that was written, and its CRC is the one of the device's flash.
VerifyMatchesDevice ==
    [][(completed /\ verified' # verified) =>
           /\ Device.written \subseteq
                  verified'.start..(verified'.start + verified'.len - 1)
           /\ verified'.crc = Region(Device.flash, verified'.start, verified'.len)]_vars

\* While the file is programmed the progress bar stays within its range:
\* HexCurrLineNo of HexTotalLines (bootloader.cpp:553), whatever VerifyFlash
\* and LoadHexFile did to the reader before, and it is full at the end.
ProgressInRange ==
    /\ programming => reader.HexCurrLineNo <= HexTotalLines
    /\ completed => reader.HexCurrLineNo >= HexTotalLines

-----------------------------------------------------------------------------
(***************************************************************************)
(* The abstraction of module BootLoader: the file is a number of packets.  *)
(***************************************************************************)

PacketView == INSTANCE PacketFile WITH
    packets <- Len(packetEnds),
    taken   <- Cardinality({i \in DOMAIN packetEnds :
                                packetEnds[i] <= Progress(reader)})

\* To the engine the file is a number of packets taken one by one: lines,
\* batches, feof and the readings of VerifyFlash and LoadHexFile show no more.
FileIsPackets == PacketView!FileSpec
=============================================================================
