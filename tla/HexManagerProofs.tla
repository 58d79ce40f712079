-------------------------- MODULE HexManagerProofs --------------------------
(***************************************************************************)
(* The hex file for every set of files, every number of records in a       *)
(* packet and every flash: what completion, progress and verification      *)
(* promise, and that the engine may take the file for a number of packets. *)
(***************************************************************************)
EXTENDS HexManager, SequenceLemmas, FiniteSetTheorems

-----------------------------------------------------------------------------
(***************************************************************************)
(* Types.                                                                  *)
(***************************************************************************)

\* Every line Ascii may hold, the readers, and those within a file.
FileLines == UNION {ToSet(f.lines) : f \in Files}
Lines == FileLines \cup {NoLine}
Readers == [next : Nat, feof : BOOLEAN, Ascii : Lines, HexCurrLineNo : Nat]
ReadersOf(f) == {r \in Readers : r.next \in 1..(Len(f.lines) + 1)}

\* What GetNextHexRecord gives, and the batches made of it.
Records == [line : Lines, extra : BOOLEAN]
Batches(f) == [records : Seq(Records), reader : ReadersOf(f)]

LEMMA FileFacts ==
    ASSUME NEW f \in Files
    PROVE  /\ f.lines \in Seq(Lines) /\ Len(f.lines) \in Nat /\ Len(f.lines) > 0
           /\ f.terminated \in BOOLEAN /\ f.crlf \in BOOLEAN
           /\ \A i \in 1..Len(f.lines) :
                  /\ f.lines[i] \in Lines /\ f.lines[i] \in ToSet(f.lines)
                  /\ f.lines[i].kind \in Kinds
                  /\ f.lines[i].at \in Nat /\ f.lines[i].len \in Nat
           /\ CountedLines(f) = IF f.terminated THEN Len(f.lines) + 1 ELSE Len(f.lines)
           /\ CountedLines(f) \in Nat /\ CountedLines(f) > 0
           /\ f # NoFile
<1>1. /\ f.lines \in Seq(ToSet(f.lines)) /\ f.lines # << >>
      /\ \A line \in ToSet(f.lines) :
             line.kind \in Kinds /\ line.at \in Nat /\ line.len \in Nat
      /\ f.terminated \in BOOLEAN /\ f.crlf \in BOOLEAN
  BY FilesAssumption
<1>2. ToSet(f.lines) \subseteq Lines
  BY Zenon DEF Lines, FileLines
<1>3. Len(f.lines) \in Nat /\ Len(f.lines) > 0 /\ f.lines \in Seq(Lines)
  BY <1>1, <1>2
<1>4. \A i \in 1..Len(f.lines) : f.lines[i] \in ToSet(f.lines)
  BY <1>1
<1>5. CountedLines(f) = IF f.terminated THEN Len(f.lines) + 1 ELSE Len(f.lines)
  <2>1. CASE f.terminated
    BY <1>3, <2>1 DEF CountedLines
  <2>2. CASE ~f.terminated
    BY <1>3, <2>2 DEF CountedLines
  <2> QED
    BY <2>1, <2>2
<1>6. f # NoFile
  BY <1>1 DEF NoFile
<1> QED
  BY <1>1, <1>2, <1>3, <1>4, <1>5, <1>6

\* What the assignments to the fields of a reader make of it.
LEMMA ReaderUpdates ==
    ASSUME NEW r \in Readers
    PROVE  /\ \A n \in Nat : [r EXCEPT !.next = n]
                  = [next |-> n, feof |-> r.feof, Ascii |-> r.Ascii,
                     HexCurrLineNo |-> r.HexCurrLineNo]
           /\ \A flag \in BOOLEAN : [r EXCEPT !.feof = flag]
                  = [next |-> r.next, feof |-> flag, Ascii |-> r.Ascii,
                     HexCurrLineNo |-> r.HexCurrLineNo]
           /\ \A line \in Lines : [r EXCEPT !.Ascii = line]
                  = [next |-> r.next, feof |-> r.feof, Ascii |-> line,
                     HexCurrLineNo |-> r.HexCurrLineNo]
           /\ \A n \in Nat : [r EXCEPT !.HexCurrLineNo = n]
                  = [next |-> r.next, feof |-> r.feof, Ascii |-> r.Ascii,
                     HexCurrLineNo |-> n]
<1>1. \A n \in Nat : [r EXCEPT !.next = n]
          = [next |-> n, feof |-> r.feof, Ascii |-> r.Ascii,
             HexCurrLineNo |-> r.HexCurrLineNo]
  BY DEF Readers
<1>2. \A flag \in BOOLEAN : [r EXCEPT !.feof = flag]
          = [next |-> r.next, feof |-> flag, Ascii |-> r.Ascii,
             HexCurrLineNo |-> r.HexCurrLineNo]
  BY DEF Readers
<1>3. \A line \in Lines : [r EXCEPT !.Ascii = line]
          = [next |-> r.next, feof |-> r.feof, Ascii |-> line,
             HexCurrLineNo |-> r.HexCurrLineNo]
  BY DEF Readers
<1>4. \A n \in Nat : [r EXCEPT !.HexCurrLineNo = n]
          = [next |-> r.next, feof |-> r.feof, Ascii |-> r.Ascii, HexCurrLineNo |-> n]
  BY DEF Readers
<1> QED
  BY <1>1, <1>2, <1>3, <1>4

\* fseek, and what fgets does to feof.
LEMMA Seeked ==
    ASSUME NEW r \in Readers, NEW n \in Nat, NEW flag \in BOOLEAN
    PROVE  [r EXCEPT !.next = n, !.feof = flag]
               = [next |-> n, feof |-> flag, Ascii |-> r.Ascii,
                  HexCurrLineNo |-> r.HexCurrLineNo]
<1> DEFINE half == [r EXCEPT !.next = n]
<1>1. [r EXCEPT !.next = n, !.feof = flag] = [half EXCEPT !.feof = flag]
  BY Zenon
<1>2. half = [next |-> n, feof |-> r.feof, Ascii |-> r.Ascii,
              HexCurrLineNo |-> r.HexCurrLineNo]
  BY ReaderUpdates
<1>3. half \in Readers
  BY <1>2 DEF Readers
<1> HIDE DEF half
<1>4. [half EXCEPT !.feof = flag]
          = [next |-> half.next, feof |-> flag, Ascii |-> half.Ascii,
             HexCurrLineNo |-> half.HexCurrLineNo]
  BY <1>3, ReaderUpdates, Zenon
<1> QED
  BY <1>1, <1>2, <1>4

LEMMA LineRead ==
    ASSUME NEW r \in Readers, NEW line \in Lines, NEW flag \in BOOLEAN
    PROVE  [r EXCEPT !.Ascii = line, !.next = @ + 1, !.feof = flag]
               = [next |-> r.next + 1, feof |-> flag, Ascii |-> line,
                  HexCurrLineNo |-> r.HexCurrLineNo]
<1> DEFINE half == [r EXCEPT !.Ascii = line]
<1>1. half = [next |-> r.next, feof |-> r.feof, Ascii |-> line,
              HexCurrLineNo |-> r.HexCurrLineNo]
  BY ReaderUpdates
<1>2. half \in Readers /\ r.next + 1 \in Nat /\ half.next = r.next
  BY <1>1 DEF Readers
<1>3. [r EXCEPT !.Ascii = line, !.next = @ + 1, !.feof = flag]
          = [half EXCEPT !.next = half.next + 1, !.feof = flag]
  BY Zenon
<1> HIDE DEF half
<1>4. [half EXCEPT !.next = half.next + 1, !.feof = flag]
          = [next |-> half.next + 1, feof |-> flag, Ascii |-> half.Ascii,
             HexCurrLineNo |-> half.HexCurrLineNo]
  BY <1>2, Seeked
<1> QED
  BY <1>1, <1>3, <1>4

LEMMA RewoundFacts ==
    ASSUME NEW r \in Readers
    PROVE  /\ Rewound(r) = [next |-> 1, feof |-> FALSE, Ascii |-> r.Ascii,
                            HexCurrLineNo |-> r.HexCurrLineNo]
           /\ ResetHexFilePointer(r)
                  = [next |-> 1, feof |-> FALSE, Ascii |-> r.Ascii, HexCurrLineNo |-> 0]
<1>1. Rewound(r) = [next |-> 1, feof |-> FALSE, Ascii |-> r.Ascii,
                    HexCurrLineNo |-> r.HexCurrLineNo]
  BY Seeked DEF Rewound
<1>2. Rewound(r) \in Readers
  BY <1>1 DEF Readers
<1>3. ResetHexFilePointer(r)
          = [next |-> Rewound(r).next, feof |-> Rewound(r).feof,
             Ascii |-> Rewound(r).Ascii, HexCurrLineNo |-> 0]
  BY <1>2, ReaderUpdates DEF ResetHexFilePointer
<1> QED
  BY <1>1, <1>3

LEMMA RewoundTyped ==
    ASSUME NEW f \in Files, NEW r \in Readers
    PROVE  Rewound(r) \in ReadersOf(f) /\ ResetHexFilePointer(r) \in ReadersOf(f)
<1>1. /\ Rewound(r) = [next |-> 1, feof |-> FALSE, Ascii |-> r.Ascii,
                       HexCurrLineNo |-> r.HexCurrLineNo]
      /\ ResetHexFilePointer(r)
             = [next |-> 1, feof |-> FALSE, Ascii |-> r.Ascii, HexCurrLineNo |-> 0]
  BY RewoundFacts
<1>2. Len(f.lines) \in Nat /\ r.Ascii \in Lines /\ r.HexCurrLineNo \in Nat
  BY FileFacts DEF Readers
<1> QED
  BY <1>1, <1>2 DEF ReadersOf, Readers

\* fgets and feof, field by field.
LEMMA FgetsFacts ==
    ASSUME NEW f \in Files, NEW r \in ReadersOf(f)
    PROVE  /\ Fgets(f, r) \in ReadersOf(f)
           /\ Fgets(f, r) =
                  IF r.next <= Len(f.lines)
                  THEN [next |-> r.next + 1,
                        feof |-> r.next = Len(f.lines) /\ ~f.terminated,
                        Ascii |-> f.lines[r.next], HexCurrLineNo |-> r.HexCurrLineNo]
                  ELSE [next |-> r.next, feof |-> TRUE, Ascii |-> r.Ascii,
                        HexCurrLineNo |-> r.HexCurrLineNo]
<1> DEFINE end == r.next = Len(f.lines) /\ ~f.terminated
<1>1. /\ r \in Readers /\ r.next \in 1..(Len(f.lines) + 1) /\ Len(f.lines) \in Nat
      /\ r.feof \in BOOLEAN /\ r.Ascii \in Lines /\ r.HexCurrLineNo \in Nat
      /\ end \in BOOLEAN
  BY FileFacts DEF ReadersOf, Readers
<1> HIDE DEF end
<1>2. CASE r.next <= Len(f.lines)
  <2>1. f.lines[r.next] \in Lines
    BY <1>1, <1>2, FileFacts
  <2>2. [r EXCEPT !.Ascii = f.lines[r.next], !.next = @ + 1, !.feof = end]
            = [next |-> r.next + 1, feof |-> end, Ascii |-> f.lines[r.next],
               HexCurrLineNo |-> r.HexCurrLineNo]
    <3> DEFINE line == f.lines[r.next]
    <3>1. line \in Lines /\ r \in Readers /\ end \in BOOLEAN
      BY <1>1, <2>1
    <3> HIDE DEF line
    <3>2. [r EXCEPT !.Ascii = line, !.next = @ + 1, !.feof = end]
              = [next |-> r.next + 1, feof |-> end, Ascii |-> line,
                 HexCurrLineNo |-> r.HexCurrLineNo]
      BY <3>1, LineRead
    <3> QED
      BY <3>2 DEF line
  <2>3. Fgets(f, r) = [next |-> r.next + 1, feof |-> end, Ascii |-> f.lines[r.next],
                       HexCurrLineNo |-> r.HexCurrLineNo]
    BY <1>2, <2>2, Zenon DEF Fgets, end
  <2>4. Fgets(f, r) \in ReadersOf(f)
    BY <1>1, <1>2, <2>1, <2>3 DEF ReadersOf, Readers
  <2> QED
    BY <1>2, <2>3, <2>4, Zenon DEF end
<1>3. CASE ~(r.next <= Len(f.lines))
  <2>1. Fgets(f, r) = [next |-> r.next, feof |-> TRUE, Ascii |-> r.Ascii,
                       HexCurrLineNo |-> r.HexCurrLineNo]
    BY <1>1, <1>3, ReaderUpdates DEF Fgets
  <2>2. Fgets(f, r) \in ReadersOf(f)
    BY <1>1, <2>1 DEF ReadersOf, Readers
  <2> QED
    BY <1>3, <2>1, <2>2, Zenon
<1> QED
  BY <1>2, <1>3

LEMMA RecordTyped ==
    ASSUME NEW f \in Files, NEW r \in ReadersOf(f)
    PROVE  /\ GetNextHexRecord(f, r).record \in Seq(Records)
           /\ Len(GetNextHexRecord(f, r).record) \in {0, 1}
           /\ GetNextHexRecord(f, r).reader \in ReadersOf(f)
<1> DEFINE s == Fgets(f, r)
           got == GetNextHexRecord(f, r)
           next == [s EXCEPT !.HexCurrLineNo = @ + 1]
<1>1. s \in ReadersOf(f) /\ s \in Readers /\ f.crlf \in BOOLEAN
  BY FgetsFacts, FileFacts DEF ReadersOf
<1> HIDE DEF s
<1>2. next \in ReadersOf(f)
  <2>1. next = [next |-> s.next, feof |-> s.feof, Ascii |-> s.Ascii,
                HexCurrLineNo |-> s.HexCurrLineNo + 1]
    <3>1. s.HexCurrLineNo + 1 \in Nat
      BY <1>1 DEF Readers
    <3> QED
      BY <1>1, <3>1, ReaderUpdates
  <2> QED
    BY <1>1, <2>1 DEF ReadersOf, Readers
<1>3. Converted(s.Ascii, f.crlf) \in Records
  BY <1>1 DEF Readers, Converted, Records
<1>4. \/ got = [record |-> << >>, reader |-> r]
      \/ got = [record |-> << >>, reader |-> s]
      \/ got = [record |-> <<Converted(s.Ascii, f.crlf)>>, reader |-> next]
  BY DEF GetNextHexRecord, s
<1> HIDE DEF got, next
<1>5. CASE got = [record |-> << >>, reader |-> r]
  BY <1>5 DEF got
<1>6. CASE got = [record |-> << >>, reader |-> s]
  BY <1>1, <1>6 DEF got
<1>7. CASE got = [record |-> <<Converted(s.Ascii, f.crlf)>>, reader |-> next]
  <2> DEFINE record == Converted(s.Ascii, f.crlf)
  <2> HIDE DEF record
  <2>1. record \in Records /\ got = [record |-> <<record>>, reader |-> next]
    BY <1>3, <1>7 DEF record
  <2> QED
    BY <1>2, <2>1 DEF got
<1> QED
  BY <1>4, <1>5, <1>6, <1>7

LEMMA AddRecordTyped ==
    ASSUME NEW f \in Files, NEW batch \in Batches(f)
    PROVE  /\ AddRecord(f, batch) \in Batches(f)
           /\ Len(AddRecord(f, batch).records) <= Len(batch.records) + 1
<1> DEFINE got == GetNextHexRecord(f, batch.reader)
           both == batch.records \o got.record
<1>1. batch.records \in Seq(Records) /\ batch.reader \in ReadersOf(f)
  BY DEF Batches
<1>2. /\ got.record \in Seq(Records) /\ Len(got.record) \in {0, 1}
      /\ got.reader \in ReadersOf(f)
  BY <1>1, RecordTyped
<1>3. AddRecord(f, batch) = [records |-> both, reader |-> got.reader]
  BY DEF AddRecord
<1> HIDE DEF got
<1>4. both \in Seq(Records)
  BY <1>1, <1>2
<1>5. Len(both) = Len(batch.records) + Len(got.record)
  BY <1>1, <1>2, ConcatProperties
<1>6. Len(batch.records) \in Nat
  BY <1>1
<1> HIDE DEF both
<1>7. AddRecord(f, batch) \in Batches(f)
  BY <1>2, <1>3, <1>4 DEF Batches
<1>8. Len(AddRecord(f, batch).records) <= Len(batch.records) + 1
  <2>1. AddRecord(f, batch).records = both
    BY <1>3
  <2>2. Len(batch.records) + Len(got.record) <= Len(batch.records) + 1
    <3>1. \A n \in Nat : n + 0 <= n + 1 /\ n + 1 <= n + 1
      OBVIOUS
    <3>2. Len(got.record) = 0 \/ Len(got.record) = 1
      BY <1>2, Zenon
    <3> QED
      BY <1>6, <3>1, <3>2
  <2> QED
    BY <1>5, <2>1, <2>2
<1> QED
  BY <1>7, <1>8

\* What Batch chooses: the batch after each round of the loop.
FirstRecord(f, r) == AddRecord(f, [records |-> << >>, reader |-> r])
BatchBody(h, f, r) ==
    [i \in 1..BatchSize |-> IF i = 1 THEN FirstRecord(f, r) ELSE AddRecord(f, h[i - 1])]

LEMMA FirstTyped ==
    ASSUME NEW f \in Files, NEW r \in ReadersOf(f)
    PROVE  FirstRecord(f, r) \in Batches(f) /\ Len(FirstRecord(f, r).records) <= 1
<1> DEFINE none == [records |-> << >>, reader |-> r]
<1>1. none \in Batches(f) /\ Len(none.records) = 0
  BY DEF Batches
<1> HIDE DEF none
<1>2. AddRecord(f, none) \in Batches(f)
      /\ Len(AddRecord(f, none).records) <= Len(none.records) + 1
  BY <1>1, AddRecordTyped
<1> QED
  BY <1>1, <1>2 DEF FirstRecord, none

LEMMA BatchChooses ==
    ASSUME NEW f \in Files, NEW r \in ReadersOf(f)
    PROVE  \E h \in [1..BatchSize -> Batches(f)] :
               /\ h = BatchBody(h, f, r)
               /\ Batch(f, r) = IF FirstRecord(f, r).records = << >>
                                THEN FirstRecord(f, r) ELSE h[BatchSize]
<1> DEFINE first == FirstRecord(f, r)
           step == [p \in ((1 + 1)..BatchSize) \X Batches(f) |-> AddRecord(f, p[2])]
<1>1. /\ BatchSize \in Int /\ 1 \in Int /\ 1 <= BatchSize /\ BatchSize \in 1..BatchSize
      /\ first \in Batches(f)
  BY BatchAssumption, FirstTyped
<1>2. step \in [((1 + 1)..BatchSize) \X Batches(f) -> Batches(f)]
  BY AddRecordTyped
<1>3. \A i \in (1 + 1)..BatchSize, b \in Batches(f) : step[<<i, b>>] = AddRecord(f, b)
  OBVIOUS
<1> HIDE DEF step, first
<1>4. PICK g \in [1..BatchSize -> Batches(f)] : Recursive(g, 1, BatchSize, first, step)
  BY <1>1, <1>2, RecursionOnInterval, Zenon
<1>5. g = BatchBody(g, f, r)
  <2>1. ASSUME NEW i \in 1..BatchSize, i # 1 PROVE g[i] = AddRecord(f, g[i - 1])
    <3>1. i \in (1 + 1)..BatchSize /\ i - 1 \in 1..BatchSize
      BY <1>1, <2>1
    <3>2. g[i] = step[<<i, g[i - 1]>>] /\ g[i - 1] \in Batches(f)
      BY <1>4, <3>1 DEF Recursive
    <3> QED
      BY <1>3, <3>1, <3>2
  <2>2. g[1] = first
    BY <1>4 DEF Recursive
  <2>3. \A i \in 1..BatchSize : g[i] = IF i = 1 THEN first ELSE AddRecord(f, g[i - 1])
    BY <2>1, <2>2
  <2> QED
    BY <2>3 DEF BatchBody, first
<1> DEFINE chosen == CHOOSE h : h = BatchBody(h, f, r)
<1>6. chosen = BatchBody(chosen, f, r)
  BY <1>5, Zenon
<1>7. Batch(f, r) = IF first.records = << >> THEN first ELSE chosen[BatchSize]
  BY Zenon DEF Batch, BatchBody, FirstRecord, first
<1> HIDE DEF chosen
<1>8. \A i \in 1..BatchSize : chosen[i] = g[i]
  <2> DEFINE Same == {i \in 1..BatchSize : chosen[i] = g[i]}
  <2>1. 1 \in Same
    BY <1>1, <1>5, <1>6 DEF BatchBody
  <2>2. ASSUME NEW i \in (1 + 1)..BatchSize, i - 1 \in Same PROVE i \in Same
    <3>1. i \in 1..BatchSize /\ i # 1 /\ chosen[i - 1] = g[i - 1]
      BY <2>2
    <3>2. chosen[i] = AddRecord(f, chosen[i - 1])
      BY <1>6, <3>1 DEF BatchBody
    <3>3. g[i] = AddRecord(f, g[i - 1])
      BY <1>5, <3>1 DEF BatchBody
    <3> QED
      BY <3>1, <3>2, <3>3
  <2> HIDE DEF Same
  <2>3. \A i \in 1..BatchSize : i \in Same
    BY <1>1, <2>1, <2>2, IntervalInduction, Zenon
  <2> QED
    BY <2>3 DEF Same
<1>9. chosen[BatchSize] = g[BatchSize]
  BY <1>1, <1>8
<1> QED
  BY <1>5, <1>7, <1>9 DEF first

\* A packet has no more records than the loop has rounds.
LEMMA BatchTyped ==
    ASSUME NEW f \in Files, NEW r \in ReadersOf(f)
    PROVE  /\ Batch(f, r) \in Batches(f)
           /\ Len(Batch(f, r).records) <= BatchSize
<1>1. PICK h \in [1..BatchSize -> Batches(f)] :
        /\ h = BatchBody(h, f, r)
        /\ Batch(f, r) = IF FirstRecord(f, r).records = << >>
                         THEN FirstRecord(f, r) ELSE h[BatchSize]
  BY BatchChooses, Zenon
<1>2. /\ BatchSize \in Nat /\ 1 <= BatchSize /\ BatchSize \in 1..BatchSize
      /\ BatchSize \in Int /\ 1 \in Int
  BY BatchAssumption
<1>3. FirstRecord(f, r) \in Batches(f) /\ Len(FirstRecord(f, r).records) <= 1
  BY FirstTyped
<1> DEFINE Short == {i \in 1..BatchSize : Len(h[i].records) <= i}
<1>4. 1 \in Short
  BY <1>1, <1>2, <1>3 DEF BatchBody
<1>5. ASSUME NEW i \in (1 + 1)..BatchSize, i - 1 \in Short PROVE i \in Short
  <2>1. i \in 1..BatchSize /\ i # 1 /\ i - 1 \in 1..BatchSize
    BY <1>2
  <2>2. h[i] = AddRecord(f, h[i - 1])
    BY <1>1, <2>1 DEF BatchBody
  <2>3. h[i - 1] \in Batches(f) /\ Len(h[i - 1].records) <= i - 1
    BY <1>5, <2>1
  <2>4. Len(AddRecord(f, h[i - 1]).records) <= Len(h[i - 1].records) + 1
    BY <2>3, AddRecordTyped
  <2>5. AddRecord(f, h[i - 1]) \in Batches(f)
    BY <2>3, AddRecordTyped
  <2>6. Len(AddRecord(f, h[i - 1]).records) \in Nat /\ Len(h[i - 1].records) \in Nat
    BY <2>3, <2>5 DEF Batches
  <2>7. Len(h[i].records) <= i
    BY <2>1, <2>2, <2>3, <2>4, <2>6
  <2> QED
    BY <2>1, <2>7
<1> HIDE DEF Short
<1>6. \A i \in 1..BatchSize : i \in Short
  BY <1>2, <1>4, <1>5, IntervalInduction, Zenon
<1>7. h[BatchSize] \in Batches(f) /\ Len(h[BatchSize].records) <= BatchSize
  BY <1>2, <1>6 DEF Short
<1>8. Len(FirstRecord(f, r).records) <= BatchSize
  BY <1>2, <1>3 DEF Batches
<1> QED
  BY <1>1, <1>3, <1>7, <1>8

-----------------------------------------------------------------------------
(***************************************************************************)
(* The loop of VerifyFlash.                                                *)
(***************************************************************************)
Values == {line.value : line \in Lines} \cup {Erased}
Images == [0..(FlashSize - 1) -> Values]
Loops(f) == [reader : ReadersOf(f), ends : BOOLEAN, base : Nat, min : Nat, max : Nat,
             image : Images]

LEMMA BlankTyped == Blank \in Images
BY DEF Blank, Images, Values

LEMMA CopiedTyped ==
    ASSUME NEW image \in Images, NEW line \in Lines, NEW address \in Nat
    PROVE  Copied(image, line, address) \in Images
<1>1. line.value \in Values
  BY DEF Values
<1> QED
  BY <1>1 DEF Copied, Images

\* What a record makes of each field of the loop.
LEMMA WithRecordFacts ==
    ASSUME NEW f \in Files, NEW v \in Loops(f), NEW line \in Lines,
           line.kind \in {"data", "ext", "eof"}, line.at \in Nat, line.len \in Nat
    PROVE  LET address == v.base + line.at
               new == WithRecord(v, line)
           IN  /\ new \in Loops(f) /\ new.reader = v.reader /\ new.ends = v.ends
               /\ new.base = IF line.kind = "data" THEN v.base
                             ELSE IF line.kind = "ext" THEN line.at ELSE 0
               /\ line.kind # "data" \/ address >= Boot =>
                      new.image = v.image /\ new.min = v.min /\ new.max = v.max
               /\ line.kind = "data" /\ address < Boot =>
                      /\ new.image = Copied(v.image, line, address)
                      /\ new.min = IF v.min > address THEN address ELSE v.min
                      /\ new.max = IF v.max < address + line.len
                                   THEN address + line.len ELSE v.max
<1> DEFINE address == v.base + line.at
           end == address + line.len
           new == WithRecord(v, line)
<1>1. /\ v.reader \in ReadersOf(f) /\ v.ends \in BOOLEAN /\ v.base \in Nat
      /\ v.min \in Nat /\ v.max \in Nat /\ v.image \in Images
      /\ address \in Nat /\ end \in Nat /\ Boot \in Nat
  BY FlashAssumption DEF Loops
<1>2. CASE line.kind = "ext"
  <2>1. new = [v EXCEPT !.base = line.at]
    BY <1>2 DEF WithRecord
  <2> HIDE DEF new
  <2>2. new = [reader |-> v.reader, ends |-> v.ends, base |-> line.at, min |-> v.min,
               max |-> v.max, image |-> v.image]
    BY <2>1 DEF Loops
  <2> QED
    BY <1>1, <1>2, <2>2 DEF Loops, new
<1>3. CASE line.kind = "eof"
  <2>1. new = [v EXCEPT !.base = 0]
    BY <1>3 DEF WithRecord
  <2> HIDE DEF new
  <2>2. new = [reader |-> v.reader, ends |-> v.ends, base |-> 0, min |-> v.min,
               max |-> v.max, image |-> v.image]
    BY <2>1 DEF Loops
  <2> QED
    BY <1>1, <1>3, <2>2 DEF Loops, new
<1>4. CASE line.kind = "data" /\ address >= Boot
  <2>1. new = v
    BY <1>4 DEF WithRecord, WithData
  <2> HIDE DEF new
  <2> QED
    BY <1>1, <1>4, <2>1 DEF new
<1>5. CASE line.kind = "data" /\ ~(address >= Boot)
  <2> DEFINE max == IF v.max < end THEN end ELSE v.max
             min == IF v.min > address THEN address ELSE v.min
             image == Copied(v.image, line, address)
  <2>1. new = [v EXCEPT !.max = max, !.min = min, !.image = image]
    BY <1>5, Zenon DEF WithRecord, WithData
  <2>2. max \in Nat /\ min \in Nat /\ image \in Images
    BY <1>1, CopiedTyped
  <2> HIDE DEF new, max, min, image
  <2>3. new = [reader |-> v.reader, ends |-> v.ends, base |-> v.base, min |-> min,
               max |-> max, image |-> image]
    BY <2>1 DEF Loops
  <2>4. new \in Loops(f)
    BY <1>1, <2>2, <2>3 DEF Loops
  <2>5. ~(line.kind # "data" \/ address >= Boot)
    BY <1>5
  <2> QED
    BY <1>5, <2>3, <2>4, <2>5 DEF new, max, min, image
<1> QED
  BY <1>2, <1>3, <1>4, <1>5

LEMMA LineFacts ==
    ASSUME NEW line \in Lines
    PROVE  line.kind \in Kinds /\ line.at \in Nat /\ line.len \in Nat
<1>1. CASE line = NoLine
  BY <1>1 DEF NoLine, Kinds
<1>2. CASE line # NoLine
  <2>1. line \in FileLines
    BY <1>2 DEF Lines
  <2>2. PICK given \in {ToSet(f.lines) : f \in Files} : line \in given
    BY <2>1, Zenon DEF FileLines
  <2>3. PICK f \in Files : given = ToSet(f.lines)
    BY <2>2, Zenon
  <2> QED
    BY <2>2, <2>3, FilesAssumption
<1> QED
  BY <1>1, <1>2

\* The record of a call of GetNextHexRecord that returns one.
LEMMA RecordGiven ==
    ASSUME NEW f \in Files, NEW r \in ReadersOf(f),
           GetNextHexRecord(f, r).record # << >>
    PROVE  LET record == GetNextHexRecord(f, r).record[1]
           IN  /\ record \in Records
               /\ record.line.kind \in {"data", "ext", "eof"}
               /\ record.line \in Lines /\ record.line.at \in Nat /\ record.line.len \in Nat
<1> DEFINE s == Fgets(f, r)
           got == GetNextHexRecord(f, r)
           given == Converted(s.Ascii, f.crlf)
<1>1. s.Ascii \in Lines /\ f.crlf \in BOOLEAN
  BY FgetsFacts, FileFacts DEF ReadersOf, Readers
<1> HIDE DEF s
<1>2. ~r.feof /\ s.Ascii.kind # "bad" /\ got.record = <<given>>
  BY DEF GetNextHexRecord, s
<1>3. given.line = s.Ascii /\ given \in Records
  BY <1>1 DEF Converted, Records
<1>4. s.Ascii.kind \in {"data", "ext", "eof"} /\ s.Ascii.at \in Nat /\ s.Ascii.len \in Nat
  BY <1>1, <1>2, LineFacts DEF Kinds
<1> HIDE DEF given, got
<1>5. got.record[1] = given
  BY <1>2
<1> QED
  BY <1>1, <1>3, <1>4, <1>5 DEF got

LEMMA RoundTyped ==
    ASSUME HexFile \in Files, NEW v \in Loops(HexFile)
    PROVE  VerifyRound(v) \in Loops(HexFile)
<1> DEFINE got == GetNextHexRecord(HexFile, v.reader)
           next == [v EXCEPT !.reader = got.reader]
           last == [next EXCEPT !.ends = TRUE]
<1>1. v.reader \in ReadersOf(HexFile)
  BY DEF Loops
<1>2. got.reader \in ReadersOf(HexFile)
  BY <1>1, RecordTyped
<1> HIDE DEF got
<1>3. next \in Loops(HexFile)
  BY <1>2 DEF Loops
<1> HIDE DEF next
<1>4. last \in Loops(HexFile)
  BY <1>3 DEF Loops
<1>5. ASSUME got.record # << >> PROVE WithRecord(next, got.record[1].line) \in Loops(HexFile)
  <2> DEFINE line == got.record[1].line
  <2>1. /\ line \in Lines /\ line.kind \in {"data", "ext", "eof"}
        /\ line.at \in Nat /\ line.len \in Nat
    BY <1>1, <1>5, RecordGiven DEF got
  <2> HIDE DEF line
  <2>2. WithRecord(next, line) \in Loops(HexFile)
    BY <1>3, <2>1, WithRecordFacts
  <2> QED
    BY <2>2 DEF line
<1> QED
  BY <1>4, <1>5 DEF VerifyRound, got, next

\* What VerifyLoop chooses: its state after each round.
Rounds == CountedLines(HexFile) + 1
VerifyBody(h, base) ==
    [i \in 0..Rounds |-> IF i = 0 THEN Unread(base) ELSE VerifyRound(h[i - 1])]

LEMMA VerifyChooses ==
    ASSUME HexFile \in Files, reader \in Readers, NEW base \in Nat
    PROVE  \E h \in [0..Rounds -> Loops(HexFile)] :
               h = VerifyBody(h, base) /\ VerifyLoop(base) = h[Rounds]
<1> DEFINE step == [p \in ((0 + 1)..Rounds) \X Loops(HexFile) |-> VerifyRound(p[2])]
           none == Unread(base)
<1>1. Rounds \in Int /\ 0 \in Int /\ 0 <= Rounds /\ Rounds \in 0..Rounds
  BY FileFacts DEF Rounds
<1>2. none \in Loops(HexFile)
  <2>1. Rewound(reader) \in ReadersOf(HexFile)
    BY RewoundTyped
  <2> QED
    BY <2>1, BlankTyped, FlashAssumption DEF Unread, Loops
<1>3. step \in [((0 + 1)..Rounds) \X Loops(HexFile) -> Loops(HexFile)]
  BY RoundTyped
<1>4. \A i \in (0 + 1)..Rounds, v \in Loops(HexFile) : step[<<i, v>>] = VerifyRound(v)
  OBVIOUS
<1> HIDE DEF step, none
<1>5. PICK g \in [0..Rounds -> Loops(HexFile)] : Recursive(g, 0, Rounds, none, step)
  BY <1>1, <1>2, <1>3, RecursionOnInterval, Zenon
<1>6. g = VerifyBody(g, base)
  <2>1. ASSUME NEW i \in 0..Rounds, i # 0 PROVE g[i] = VerifyRound(g[i - 1])
    <3>1. i \in (0 + 1)..Rounds /\ i - 1 \in 0..Rounds
      BY <1>1, <2>1
    <3>2. g[i] = step[<<i, g[i - 1]>>] /\ g[i - 1] \in Loops(HexFile)
      BY <1>5, <3>1 DEF Recursive
    <3> QED
      BY <1>4, <3>1, <3>2
  <2>2. g[0] = none
    BY <1>5 DEF Recursive
  <2>3. \A i \in 0..Rounds : g[i] = IF i = 0 THEN none ELSE VerifyRound(g[i - 1])
    BY <2>1, <2>2
  <2> QED
    BY <2>3 DEF VerifyBody, none
<1> DEFINE chosen == CHOOSE h : h = VerifyBody(h, base)
<1>7. chosen = VerifyBody(chosen, base)
  BY <1>6, Zenon
<1>8. VerifyLoop(base) = chosen[Rounds]
  BY Zenon DEF VerifyLoop, VerifyBody, Rounds
<1> HIDE DEF chosen
<1>9. \A i \in 0..Rounds : chosen[i] = g[i]
  <2> DEFINE Same == {i \in 0..Rounds : chosen[i] = g[i]}
  <2>1. 0 \in Same
    BY <1>1, <1>6, <1>7 DEF VerifyBody
  <2>2. ASSUME NEW i \in (0 + 1)..Rounds, i - 1 \in Same PROVE i \in Same
    <3>1. i \in 0..Rounds /\ i # 0 /\ chosen[i - 1] = g[i - 1]
      BY <1>1, <2>2
    <3>2. chosen[i] = VerifyRound(chosen[i - 1])
      BY <1>7, <3>1 DEF VerifyBody
    <3>3. g[i] = VerifyRound(g[i - 1])
      BY <1>6, <3>1 DEF VerifyBody
    <3> QED
      BY <3>1, <3>2, <3>3
  <2> HIDE DEF Same
  <2>3. \A i \in 0..Rounds : i \in Same
    BY <1>1, <2>1, <2>2, IntervalInduction, Zenon
  <2> QED
    BY <2>3 DEF Same
<1>10. chosen[Rounds] = g[Rounds]
  BY <1>1, <1>9
<1> QED
  BY <1>6, <1>8, <1>10

LEMMA VerifyTyped ==
    ASSUME HexFile \in Files, reader \in Readers, NEW base \in Nat
    PROVE  VerifyLoop(base) \in Loops(HexFile)
<1>1. PICK h \in [0..Rounds -> Loops(HexFile)] :
        h = VerifyBody(h, base) /\ VerifyLoop(base) = h[Rounds]
  BY VerifyChooses, Zenon
<1>2. Rounds \in 0..Rounds
  BY FileFacts DEF Rounds
<1> QED
  BY <1>1, <1>2

-----------------------------------------------------------------------------
(***************************************************************************)
(* Type correctness.                                                       *)
(***************************************************************************)
TypeInv ==
    /\ TypeOK
    /\ reader \in Readers
    /\ packets \in Seq(Seq(Records))
    /\ programming => HexFile # NoFile

\* The packet a batch makes.
LEMMA PacketTyped ==
    ASSUME NEW f \in Files, NEW r \in ReadersOf(f)
    PROVE  LET batch == Batch(f, r)
           IN  /\ batch.reader \in ReadersOf(f) /\ batch.reader \in Readers
               /\ batch.reader.next \in 1..(Len(f.lines) + 1)
               /\ batch.reader.feof \in BOOLEAN /\ batch.reader.HexCurrLineNo \in Nat
               /\ batch.records \in Seq(Records)
               /\ batch.records # << >> => Len(batch.records) \in 1..BatchSize
<1> DEFINE batch == Batch(f, r)
<1>1. /\ batch.records \in Seq(Records) /\ batch.reader \in ReadersOf(f)
      /\ Len(batch.records) <= BatchSize
  BY BatchTyped DEF Batches
<1> HIDE DEF batch
<1>2. batch.records # << >> => Len(batch.records) \in 1..BatchSize
  BY <1>1, BatchAssumption
<1> QED
  BY <1>1, <1>2 DEF ReadersOf, Readers, batch

LEMMA InitTyped == Init => TypeInv
<1> SUFFICES ASSUME Init PROVE TypeInv
  OBVIOUS
<1>1. reader = [next |-> 1, feof |-> FALSE, Ascii |-> NoLine, HexCurrLineNo |-> 0]
  BY DEF Init
<1>2. reader \in Readers
  <2>1. NoLine \in Lines
    BY DEF Lines
  <2> QED
    BY <1>1, <2>1 DEF Readers
<1>3. /\ packets \in Seq(Seq(Records))
      /\ \A i \in DOMAIN packets : Len(packets[i]) \in 1..BatchSize
  <2>1. packets = << >>
    BY DEF Init
  <2> QED
    BY <2>1
<1>4. /\ HexFile = NoFile /\ HexTotalLines = 0 /\ programming = FALSE
      /\ completed = FALSE /\ crashed = FALSE /\ calls = 0 /\ 0 \in 0..MaxCalls
  BY CallsAssumption DEF Init
<1> QED
  BY <1>1, <1>2, <1>3, <1>4 DEF TypeInv, TypeOK

LEMMA ReaderFacts ==
    ASSUME TypeInv, HexFile # NoFile
    PROVE  /\ HexFile \in Files /\ reader \in ReadersOf(HexFile) /\ reader \in Readers
BY DEF TypeInv, TypeOK, ReadersOf

LEMMA LoadTyped ==
    ASSUME TypeInv, LoadHexFile
    PROVE  TypeInv'
<1>1. PICK f \in Files :
        /\ HexFile' = f
        /\ HexTotalLines' = CountedLines(f)
        /\ reader' = [reader EXCEPT !.next = Len(f.lines) + 1, !.feof = TRUE]
  BY DEF LoadHexFile
<1>2. reader \in Readers /\ Len(f.lines) + 1 \in Nat /\ CountedLines(f) \in Nat
  BY FileFacts DEF TypeInv
<1>3. reader' = [next |-> Len(f.lines) + 1, feof |-> TRUE, Ascii |-> reader.Ascii,
                 HexCurrLineNo |-> reader.HexCurrLineNo]
  BY <1>1, <1>2, Seeked
<1>4. /\ reader' \in Readers /\ reader'.next \in 1..(Len(f.lines) + 1)
      /\ reader'.feof \in BOOLEAN /\ reader'.HexCurrLineNo \in Nat
  BY <1>2, <1>3 DEF Readers
<1>5. calls' \in 0..MaxCalls
  BY CallsAssumption DEF LoadHexFile, TypeInv, TypeOK
<1> QED
  BY <1>1, <1>2, <1>4, <1>5 DEF TypeInv, TypeOK, LoadHexFile

LEMMA ProgramTyped ==
    ASSUME TypeInv, ProgramFlash \/ ProgramNext
    PROVE  TypeInv'
<1>1. HexFile \in Files /\ reader \in ReadersOf(HexFile) /\ reader \in Readers
  BY ReaderFacts DEF TypeInv, ProgramFlash, ProgramNext
<1>2. PICK r \in ReadersOf(HexFile), before \in Seq(Seq(Records)) :
        /\ reader' = Batch(HexFile, r).reader
        /\ programming' = (Batch(HexFile, r).records # << >>)
        /\ packets' = IF Batch(HexFile, r).records = << >> THEN before
                      ELSE Append(before, Batch(HexFile, r).records)
        /\ \A i \in DOMAIN before : Len(before[i]) \in 1..BatchSize
  <2>1. CASE ProgramFlash
    <3> DEFINE records == Batch(HexFile, ResetHexFilePointer(reader)).records
    <3>1. ResetHexFilePointer(reader) \in ReadersOf(HexFile)
      BY <1>1, RewoundTyped
    <3>2. << >> \in Seq(Seq(Records)) /\ DOMAIN << >> = {}
      OBVIOUS
    <3>3. /\ reader' = Batch(HexFile, ResetHexFilePointer(reader)).reader
          /\ programming' = (records # << >>)
          /\ packets' = IF records = << >> THEN << >> ELSE <<records>>
      BY <2>1 DEF ProgramFlash
    <3> HIDE DEF records
    <3>4. Append(<< >>, records) = <<records>>
      OBVIOUS
    <3> QED
      BY <3>1, <3>2, <3>3, <3>4, Zenon DEF records
  <2>2. CASE ProgramNext
    <3>1. /\ packets \in Seq(Seq(Records))
          /\ \A i \in DOMAIN packets : Len(packets[i]) \in 1..BatchSize
      BY DEF TypeInv, TypeOK
    <3>2. /\ reader' = Batch(HexFile, reader).reader
          /\ programming' = (Batch(HexFile, reader).records # << >>)
          /\ packets' = IF Batch(HexFile, reader).records = << >> THEN packets
                        ELSE Append(packets, Batch(HexFile, reader).records)
      BY <2>2 DEF ProgramNext
    <3> QED
      BY <1>1, <3>1, <3>2, Zenon
  <2> QED
    BY <2>1, <2>2
<1> DEFINE batch == Batch(HexFile, r)
<1>3. /\ batch.reader \in Readers /\ batch.reader.next \in 1..(Len(HexFile.lines) + 1)
      /\ batch.reader.feof \in BOOLEAN /\ batch.reader.HexCurrLineNo \in Nat
      /\ batch.records \in Seq(Records)
      /\ batch.records # << >> => Len(batch.records) \in 1..BatchSize
  BY <1>1, PacketTyped
<1>4. /\ reader' = batch.reader /\ programming' \in BOOLEAN
      /\ packets' = IF batch.records = << >> THEN before ELSE Append(before, batch.records)
  BY <1>2
<1> HIDE DEF batch
<1>5. packets' \in Seq(Seq(Records)) /\ \A i \in DOMAIN packets' : Len(packets'[i]) \in 1..BatchSize
  <2>1. CASE batch.records = << >>
    BY <1>2, <1>4, <2>1
  <2>2. CASE batch.records # << >>
    <3> DEFINE longer == Append(before, batch.records)
    <3>1. /\ longer \in Seq(Seq(Records)) /\ Len(before) \in Nat
          /\ DOMAIN longer = 1..(Len(before) + 1) /\ DOMAIN before = 1..Len(before)
          /\ longer[Len(before) + 1] = batch.records
          /\ \A i \in 1..Len(before) : longer[i] = before[i]
      BY <1>3, AppendProperties
    <3> HIDE DEF longer
    <3>2. ASSUME NEW i \in DOMAIN longer PROVE Len(longer[i]) \in 1..BatchSize
      <4>1. i = Len(before) + 1 \/ i \in 1..Len(before)
        BY <3>1
      <4> QED
        BY <1>2, <1>3, <2>2, <3>1, <4>1
    <3>3. packets' = longer
      BY <1>4, <2>2 DEF longer
    <3> QED
      BY <3>1, <3>2, <3>3
  <2> QED
    BY <2>1, <2>2
<1>6. /\ HexFile' = HexFile /\ HexTotalLines' = HexTotalLines /\ crashed' = crashed
      /\ calls' = calls /\ completed' \in BOOLEAN /\ HexFile # NoFile
  BY DEF ProgramFlash, ProgramNext, TypeInv
<1> QED
  BY <1>3, <1>4, <1>5, <1>6 DEF TypeInv, TypeOK

LEMMA VerifyFlashTyped ==
    ASSUME TypeInv, VerifyFlash
    PROVE  TypeInv'
<1>1. HexFile \in Files /\ reader \in Readers /\ HexFile # NoFile
  BY ReaderFacts DEF VerifyFlash
<1>2. PICK base \in GarbageBase : reader' = VerifyLoop(base).reader
  BY DEF VerifyFlash
<1>3. VerifyLoop(base) \in Loops(HexFile)
  BY <1>1, VerifyTyped, GarbageAssumption
<1>4. /\ reader' \in Readers /\ reader'.next \in 1..(Len(HexFile.lines) + 1)
      /\ reader'.feof \in BOOLEAN /\ reader'.HexCurrLineNo \in Nat
  BY <1>2, <1>3 DEF Loops, ReadersOf, Readers
<1>5. crashed' \in BOOLEAN
  BY DEF VerifyFlash, TypeInv, TypeOK
<1>6. calls' \in 0..MaxCalls
  BY CallsAssumption DEF VerifyFlash, TypeInv, TypeOK
<1> QED
  BY <1>4, <1>5, <1>6 DEF TypeInv, TypeOK, VerifyFlash

LEMMA StepTyped == TypeInv /\ [Next]_vars => TypeInv'
<1> SUFFICES ASSUME TypeInv, [Next]_vars PROVE TypeInv'
  OBVIOUS
<1>1. CASE LoadFails
  <2>1. calls' \in 0..MaxCalls
    BY <1>1, CallsAssumption DEF LoadFails, TypeInv, TypeOK
  <2> QED
    BY <1>1, <2>1 DEF LoadFails, TypeInv, TypeOK
<1>2. CASE ProgramFails
  BY <1>2 DEF ProgramFails, TypeInv, TypeOK
<1>3. CASE VerifyCrashes
  BY <1>3 DEF VerifyCrashes, TypeInv, TypeOK
<1>4. CASE UNCHANGED vars
  BY <1>4 DEF vars, TypeInv, TypeOK
<1> QED
  BY <1>1, <1>2, <1>3, <1>4, LoadTyped, ProgramTyped, VerifyFlashTyped DEF Next

\* Every variable keeps a value of its type, and a packet has one to BatchSize
\* records, whatever is in the files, lines that are no record included.
THEOREM FileTypeCorrect == Spec => []TypeOK
<1>1. TypeInv => TypeOK
  BY DEF TypeInv
<1> QED
  BY <1>1, InitTyped, StepTyped, PTL DEF Spec

-----------------------------------------------------------------------------
(***************************************************************************)
(* Files of records: each line begins with a colon and ends in a LF.       *)
(***************************************************************************)
PlainFile(f) == ~f.crlf /\ \A line \in ToSet(f.lines) : line.kind # "bad"
PlainFiles == \A f \in Files : PlainFile(f)

\* The records GetNextHexRecord gives one after the other: behind a last line
\* that ends in a newline the buffer is given once more.
LineGiven(f, i) == IF i <= Len(f.lines) THEN f.lines[i] ELSE f.lines[Len(f.lines)]
Given(f) ==
    [i \in 1..CountedLines(f) |-> [line |-> LineGiven(f, i), extra |-> FALSE]]

\* k of them have been read.
ReadTo(f, r, k) ==
    /\ r \in Readers /\ k \in 0..CountedLines(f)
    /\ r.feof <=> k = CountedLines(f)
    /\ r.next = IF k = CountedLines(f) THEN Len(f.lines) + 1 ELSE k + 1
    /\ k > 0 /\ k < CountedLines(f) => r.Ascii = f.lines[k]

LEMMA GivenFacts ==
    ASSUME NEW f \in Files
    PROVE  /\ Given(f) \in Seq(Records) /\ Len(Given(f)) = CountedLines(f)
           /\ \A i \in 1..CountedLines(f) :
                  /\ LineGiven(f, i) \in FileLines /\ LineGiven(f, i) \in ToSet(f.lines)
                  /\ Given(f)[i] = [line |-> LineGiven(f, i), extra |-> FALSE]
                  /\ Given(f)[i] \in Records
<1>1. /\ CountedLines(f) \in Nat /\ Len(f.lines) \in Nat /\ Len(f.lines) > 0
      /\ \A i \in 1..Len(f.lines) : f.lines[i] \in ToSet(f.lines)
  BY FileFacts
<1>2. ToSet(f.lines) \subseteq FileLines
  BY Zenon DEF FileLines
<1>3. ASSUME NEW i \in 1..CountedLines(f) PROVE LineGiven(f, i) \in ToSet(f.lines)
  <2>1. CASE i <= Len(f.lines)
    <3>1. i \in 1..Len(f.lines)
      BY <1>1, <2>1
    <3> QED
      BY <1>1, <2>1, <3>1 DEF LineGiven
  <2>2. CASE ~(i <= Len(f.lines))
    <3>1. Len(f.lines) \in 1..Len(f.lines)
      BY <1>1
    <3> QED
      BY <1>1, <2>2, <3>1 DEF LineGiven
  <2> QED
    BY <2>1, <2>2
<1>4. \A i \in 1..CountedLines(f) : LineGiven(f, i) \in FileLines /\ LineGiven(f, i) \in Lines
  BY <1>2, <1>3 DEF Lines
<1>5. \A i \in 1..CountedLines(f) : [line |-> LineGiven(f, i), extra |-> FALSE] \in Records
  BY <1>4 DEF Records
<1>6. Given(f) \in [1..CountedLines(f) -> Records]
  BY <1>5 DEF Given
<1>7. \A i \in 1..CountedLines(f) :
          Given(f)[i] = [line |-> LineGiven(f, i), extra |-> FALSE]
  BY DEF Given
<1>8. Given(f) \in Seq(Records) /\ Len(Given(f)) = CountedLines(f)
  BY <1>1, <1>6
<1> QED
  BY <1>3, <1>4, <1>5, <1>7, <1>8

\* They are the records of the file, the last of them perhaps twice.
LEMMA GivenIsWhole ==
    ASSUME NEW f \in Files
    PROVE  Given(f) = RecordsOf(f) \/ Given(f) = Append(RecordsOf(f), Last(RecordsOf(f)))
<1> DEFINE n == Len(f.lines)
           all == RecordsOf(f)
<1>1. /\ n \in Nat /\ n > 0 /\ f.terminated \in BOOLEAN /\ DOMAIN f.lines = 1..n
      /\ CountedLines(f) = IF f.terminated THEN n + 1 ELSE n
      /\ \A i \in 1..n : f.lines[i] \in Lines
  BY FileFacts
<1>2. all = [i \in 1..n |-> [line |-> f.lines[i], extra |-> FALSE]]
  BY <1>1, Zenon DEF RecordsOf
<1>3. \A i \in 1..n : [line |-> f.lines[i], extra |-> FALSE] \in Records
  BY <1>1 DEF Records
<1>4. \A i \in 1..n : all[i] = [line |-> f.lines[i], extra |-> FALSE]
  BY <1>2
<1>5. all \in Seq(Records) /\ Len(all) = n
  <2>1. all \in [1..n -> Records]
    BY <1>2, <1>3
  <2> QED
    BY <1>1, <2>1
<1> HIDE DEF all
<1>6. Given(f) \in Seq(Records) /\ Len(Given(f)) = CountedLines(f)
  BY GivenFacts
<1>7. ASSUME NEW i \in 1..n PROVE Given(f)[i] = all[i]
  <2>1. i \in 1..CountedLines(f) /\ i <= n
    BY <1>1
  <2>2. LineGiven(f, i) = f.lines[i]
    BY <2>1 DEF LineGiven
  <2>3. Given(f)[i] = [line |-> LineGiven(f, i), extra |-> FALSE]
    BY <2>1, GivenFacts
  <2> QED
    BY <1>4, <2>2, <2>3, Zenon
<1>8. CASE ~f.terminated
  <2>1. Given(f) = all
    BY <1>1, <1>5, <1>6, <1>7, <1>8
  <2> QED
    BY <2>1 DEF all
<1>9. CASE f.terminated
  <2> DEFINE longer == Append(all, Last(all))
  <2>1. Last(all) = all[n] /\ all[n] \in Records
    BY <1>1, <1>5 DEF Last
  <2>2. /\ longer \in Seq(Records) /\ Len(longer) = n + 1 /\ longer[n + 1] = all[n]
        /\ \A i \in 1..n : longer[i] = all[i]
    BY <1>1, <1>5, <2>1, AppendProperties
  <2> HIDE DEF longer
  <2>3. Given(f)[n + 1] = longer[n + 1]
    <3>1. n + 1 \in 1..CountedLines(f) /\ ~(n + 1 <= n) /\ n \in 1..n
      BY <1>1, <1>9
    <3>2. LineGiven(f, n + 1) = f.lines[n]
      BY <3>1, Zenon DEF LineGiven
    <3>3. Given(f)[n + 1] = [line |-> LineGiven(f, n + 1), extra |-> FALSE]
      BY <3>1, GivenFacts
    <3>4. all[n] = [line |-> f.lines[n], extra |-> FALSE]
      BY <1>4, <3>1
    <3> QED
      BY <2>2, <3>2, <3>3, <3>4, Zenon
  <2>4. ASSUME NEW i \in 1..(n + 1) PROVE Given(f)[i] = longer[i]
    <3>1. i \in 1..n \/ i = n + 1
      BY <1>1
    <3> QED
      BY <1>7, <2>2, <2>3, <3>1
  <2>5. Given(f) = longer
    BY <1>1, <1>6, <1>9, <2>2, <2>4
  <2> QED
    BY <2>5 DEF longer, all
<1> QED
  BY <1>1, <1>8, <1>9

LEMMA ReadToFacts ==
    ASSUME NEW f \in Files, NEW r, NEW k, ReadTo(f, r, k)
    PROVE  /\ r \in ReadersOf(f) /\ r \in Readers
           /\ k \in Nat /\ k <= CountedLines(f)
<1>1. /\ Len(f.lines) \in Nat /\ CountedLines(f) \in Nat /\ f.terminated \in BOOLEAN
      /\ CountedLines(f) = IF f.terminated THEN Len(f.lines) + 1 ELSE Len(f.lines)
  BY FileFacts
<1>2. /\ r \in Readers /\ k \in 0..CountedLines(f)
      /\ r.next = IF k = CountedLines(f) THEN Len(f.lines) + 1 ELSE k + 1
  BY DEF ReadTo
<1>3. r.next \in 1..(Len(f.lines) + 1)
  BY <1>1, <1>2
<1> QED
  BY <1>1, <1>2, <1>3 DEF ReadersOf

LEMMA ReadToStart ==
    ASSUME NEW f \in Files, NEW r \in Readers
    PROVE  ReadTo(f, Rewound(r), 0) /\ ReadTo(f, ResetHexFilePointer(r), 0)
<1>1. /\ Rewound(r) = [next |-> 1, feof |-> FALSE, Ascii |-> r.Ascii,
                       HexCurrLineNo |-> r.HexCurrLineNo]
      /\ ResetHexFilePointer(r)
             = [next |-> 1, feof |-> FALSE, Ascii |-> r.Ascii, HexCurrLineNo |-> 0]
  BY RewoundFacts
<1>2. Rewound(r) \in Readers /\ ResetHexFilePointer(r) \in Readers
  BY RewoundTyped DEF ReadersOf
<1>3. CountedLines(f) \in Nat /\ CountedLines(f) > 0
  BY FileFacts
<1>4. /\ Rewound(r).next = 1 /\ Rewound(r).feof = FALSE
      /\ ResetHexFilePointer(r).next = 1 /\ ResetHexFilePointer(r).feof = FALSE
  BY <1>1
<1> QED
  BY <1>2, <1>3, <1>4 DEF ReadTo

\* Each call gives the next record, and behind the last one none.
LEMMA NextRecord ==
    ASSUME NEW f \in Files, PlainFile(f), NEW r, NEW k, ReadTo(f, r, k)
    PROVE  LET got == GetNextHexRecord(f, r)
           IN  /\ k = CountedLines(f) => got = [record |-> << >>, reader |-> r]
               /\ k < CountedLines(f) =>
                      /\ got.record = <<Given(f)[k + 1]>>
                      /\ ReadTo(f, got.reader, k + 1)
                      /\ got.reader.HexCurrLineNo = r.HexCurrLineNo + 1
<1> DEFINE n == Len(f.lines)
           c == CountedLines(f)
           s == Fgets(f, r)
           got == GetNextHexRecord(f, r)
           next == [s EXCEPT !.HexCurrLineNo = @ + 1]
<1>1. /\ r \in ReadersOf(f) /\ r \in Readers /\ k \in Nat /\ k <= c
      /\ n \in Nat /\ n > 0 /\ f.terminated \in BOOLEAN /\ f.crlf = FALSE
      /\ c = IF f.terminated THEN n + 1 ELSE n
  BY ReadToFacts, FileFacts DEF PlainFile
<1>2. /\ r.feof <=> k = c
      /\ r.next = IF k = c THEN n + 1 ELSE k + 1
      /\ k > 0 /\ k < c => r.Ascii = f.lines[k]
  BY DEF ReadTo
<1>3. \A i \in 1..c : LineGiven(f, i) \in Lines /\ LineGiven(f, i).kind # "bad"
  BY GivenFacts DEF PlainFile, Lines
<1>4. s = IF r.next <= n
          THEN [next |-> r.next + 1, feof |-> r.next = n /\ ~f.terminated,
                Ascii |-> f.lines[r.next], HexCurrLineNo |-> r.HexCurrLineNo]
          ELSE [next |-> r.next, feof |-> TRUE, Ascii |-> r.Ascii,
                HexCurrLineNo |-> r.HexCurrLineNo]
  BY <1>1, FgetsFacts
<1>5. s \in Readers /\ r.HexCurrLineNo \in Nat
  BY <1>1, FgetsFacts DEF ReadersOf, Readers
<1> HIDE DEF n, c, s
<1>6. CASE k = c
  <2>1. r.feof
    BY <1>2, <1>6
  <2>2. GetNextHexRecord(f, r) = [record |-> << >>, reader |-> r]
    BY <2>1, Zenon DEF GetNextHexRecord
  <2> QED
    BY <1>1, <1>6, <2>2 DEF c
<1>7. CASE k # c
  <2>1. k < c /\ r.next = k + 1 /\ ~r.feof /\ k + 1 \in 1..c
    BY <1>1, <1>2, <1>7
  <2> DEFINE line == LineGiven(f, k + 1)
  <2>2. /\ s.Ascii = line /\ s.HexCurrLineNo = r.HexCurrLineNo
        /\ s.next = IF k + 1 = c THEN n + 1 ELSE k + 2
        /\ s.feof <=> k + 1 = c
    <3>1. CASE k + 1 <= n
      <4>1. r.next <= n
        BY <2>1, <3>1
      <4>2. /\ s.next = k + 2 /\ s.feof = (k + 1 = n /\ ~f.terminated)
            /\ s.Ascii = f.lines[k + 1] /\ s.HexCurrLineNo = r.HexCurrLineNo
        BY <1>1, <1>4, <2>1, <4>1
      <4>3. (k + 1 = n /\ ~f.terminated) <=> (k + 1 = c)
        BY <1>1, <3>1
      <4>4. k + 1 = c => k + 2 = n + 1
        BY <1>1, <3>1
      <4>5. line = f.lines[k + 1]
        BY <3>1, Zenon DEF LineGiven, n
      <4> QED
        BY <4>2, <4>3, <4>4, <4>5
    <3>2. CASE ~(k + 1 <= n)
      <4>1. k = n /\ f.terminated /\ k + 1 = c /\ k > 0
        BY <1>1, <2>1, <3>2
      <4>2. /\ s.next = k + 1 /\ s.feof = TRUE /\ s.Ascii = r.Ascii
            /\ s.HexCurrLineNo = r.HexCurrLineNo
        BY <1>1, <1>4, <2>1, <4>1
      <4>3. r.Ascii = f.lines[n]
        BY <1>2, <2>1, <4>1
      <4>4. line = f.lines[n]
        BY <3>2, Zenon DEF LineGiven, n
      <4> QED
        BY <4>1, <4>2, <4>3, <4>4
    <3> QED
      BY <3>1, <3>2
  <2>3. line \in Lines /\ line.kind # "bad"
    BY <1>3, <2>1
  <2>4. Given(f)[k + 1] = [line |-> line, extra |-> FALSE]
    BY <2>1, GivenFacts DEF c
  <2> HIDE DEF line
  <2>5. got = [record |-> <<Converted(s.Ascii, f.crlf)>>, reader |-> next]
    BY <2>1, <2>2, <2>3, Zenon DEF GetNextHexRecord, s
  <2>6. Converted(s.Ascii, f.crlf) = Given(f)[k + 1]
    BY <1>1, <2>2, <2>4, Zenon DEF Converted
  <2>7. next = [next |-> s.next, feof |-> s.feof, Ascii |-> s.Ascii,
                HexCurrLineNo |-> s.HexCurrLineNo + 1]
    <3>1. s.HexCurrLineNo + 1 \in Nat
      BY <1>5, <2>2
    <3> QED
      BY <1>5, <3>1, ReaderUpdates
  <2> HIDE DEF next
  <2>8. next \in Readers
    BY <1>5, <2>7 DEF Readers
  <2>9. k + 1 > 0 /\ k + 1 < c => next.Ascii = f.lines[k + 1]
    <3> SUFFICES ASSUME k + 1 < c PROVE next.Ascii = f.lines[k + 1]
      OBVIOUS
    <3>1. k + 1 <= n
      BY <1>1
    <3>2. line = f.lines[k + 1]
      BY <3>1, Zenon DEF LineGiven, n, line
    <3> QED
      BY <2>2, <2>7, <3>2
  <2>10. /\ next.feof <=> k + 1 = c
         /\ next.next = IF k + 1 = c THEN n + 1 ELSE (k + 1) + 1
    BY <1>1, <2>2, <2>7
  <2>11. ReadTo(f, next, k + 1)
    BY <1>1, <2>1, <2>8, <2>9, <2>10 DEF ReadTo, c, n
  <2>12. next.HexCurrLineNo = r.HexCurrLineNo + 1
    BY <2>2, <2>7
  <2>13. got.record = <<Given(f)[k + 1]>> /\ got.reader = next
    BY <2>5, <2>6
  <2> HIDE DEF got
  <2>14. got.record = <<Given(f)[k + 1]>> /\ ReadTo(f, got.reader, k + 1)
         /\ got.reader.HexCurrLineNo = r.HexCurrLineNo + 1
    BY <2>11, <2>12, <2>13, Zenon
  <2> QED
    BY <1>7, <2>14 DEF c, got
<1> QED
  BY <1>6, <1>7

-----------------------------------------------------------------------------
(***************************************************************************)
(* A packet takes the next records of the file.                            *)
(***************************************************************************)

\* Elements k + 1 to m of a sequence.
Piece(s, k, m) == [i \in 1..(m - k) |-> s[k + i]]

LEMMA PieceFacts ==
    ASSUME NEW S, NEW s \in Seq(S), NEW k \in Nat, NEW m \in Nat, k <= m, m <= Len(s)
    PROVE  /\ Piece(s, k, m) \in Seq(S) /\ Len(Piece(s, k, m)) = m - k
           /\ \A i \in 1..(m - k) : Piece(s, k, m)[i] = s[k + i]
<1>1. \A i \in 1..(m - k) : s[k + i] \in S
  OBVIOUS
<1>2. Piece(s, k, m) \in [1..(m - k) -> S]
  BY <1>1 DEF Piece
<1>3. m - k \in Nat
  OBVIOUS
<1> QED
  BY <1>2, <1>3 DEF Piece

LEMMA PieceNone ==
    ASSUME NEW S, NEW s \in Seq(S), NEW k \in Nat, k <= Len(s)
    PROVE  Piece(s, k, k) = << >>
BY PieceFacts

LEMMA PieceWhole ==
    ASSUME NEW S, NEW s \in Seq(S)
    PROVE  Piece(s, 0, Len(s)) = s
<1> DEFINE whole == Piece(s, 0, Len(s))
<1>1. 0 \in Nat /\ Len(s) \in Nat /\ 0 <= Len(s) /\ Len(s) <= Len(s)
      /\ Len(s) - 0 = Len(s)
  OBVIOUS
<1>2. \A i \in 1..Len(s) : 0 + i = i
  OBVIOUS
<1>3. /\ whole \in Seq(S) /\ Len(whole) = Len(s) - 0
      /\ \A i \in 1..(Len(s) - 0) : whole[i] = s[0 + i]
  BY <1>1, PieceFacts, Zenon
<1> HIDE DEF whole
<1>4. \A i \in 1..Len(s) : whole[i] = s[i]
  BY <1>1, <1>2, <1>3
<1>5. whole = s
  BY <1>1, <1>3, <1>4
<1> QED
  BY <1>5 DEF whole

LEMMA PiecesJoin ==
    ASSUME NEW S, NEW s \in Seq(S), NEW j \in Nat, NEW k \in Nat, NEW m \in Nat,
           j <= k, k <= m, m <= Len(s)
    PROVE  Piece(s, j, k) \o Piece(s, k, m) = Piece(s, j, m)
<1> DEFINE left == Piece(s, j, k)
           right == Piece(s, k, m)
           whole == Piece(s, j, m)
           both == left \o right
<1>0. k <= Len(s) /\ j <= m
  OBVIOUS
<1>1. /\ left \in Seq(S) /\ Len(left) = k - j
      /\ \A i \in 1..(k - j) : left[i] = s[j + i]
  BY <1>0, PieceFacts, Zenon
<1>2. /\ right \in Seq(S) /\ Len(right) = m - k
      /\ \A i \in 1..(m - k) : right[i] = s[k + i]
  BY PieceFacts, Zenon
<1>3. /\ whole \in Seq(S) /\ Len(whole) = m - j
      /\ \A i \in 1..(m - j) : whole[i] = s[j + i]
  BY <1>0, PieceFacts, Zenon
<1> HIDE DEF left, right, whole
<1>4. both \in Seq(S) /\ Len(both) = m - j
  <2>1. both \in Seq(S) /\ Len(both) = Len(left) + Len(right)
    BY <1>1, <1>2, ConcatProperties
  <2>2. (k - j) + (m - k) = m - j
    OBVIOUS
  <2> HIDE DEF both
  <2> QED
    BY <1>1, <1>2, <2>1, <2>2
<1>6. \A i \in 1..(m - j) : both[i] = IF i <= k - j THEN left[i] ELSE right[i - (k - j)]
  BY <1>1, <1>2
<1> HIDE DEF both
<1>5. ASSUME NEW i \in 1..(m - j) PROVE both[i] = whole[i]
  <2>1. CASE i <= k - j
    BY <1>1, <1>3, <1>6, <2>1
  <2>2. CASE ~(i <= k - j)
    <3>1. i - (k - j) \in 1..(m - k) /\ k + (i - (k - j)) = j + i
      BY <2>2
    <3> QED
      BY <1>2, <1>3, <1>6, <2>2, <3>1
  <2> QED
    BY <2>1, <2>2
<1>7. both = whole
  BY <1>3, <1>4, <1>5
<1> QED
  BY <1>7, Zenon DEF left, right, whole, both

LEMMA PieceNext ==
    ASSUME NEW S, NEW s \in Seq(S), NEW k \in Nat, NEW m \in Nat, k <= m, m + 1 <= Len(s)
    PROVE  Piece(s, k, m) \o <<s[m + 1]>> = Piece(s, k, m + 1)
<1>1. /\ m + 1 \in Nat /\ m <= m + 1 /\ (m + 1) - m = 1 /\ 1 \in 1..1
      /\ s[m + 1] \in S
  OBVIOUS
<1>2. /\ Piece(s, m, m + 1) \in Seq(S) /\ Len(Piece(s, m, m + 1)) = 1
      /\ Piece(s, m, m + 1)[1] = s[m + 1]
  <2>1. /\ Piece(s, m, m + 1) \in Seq(S) /\ Len(Piece(s, m, m + 1)) = (m + 1) - m
        /\ \A i \in 1..((m + 1) - m) : Piece(s, m, m + 1)[i] = s[m + i]
    BY <1>1, PieceFacts, Zenon
  <2> QED
    BY <1>1, <2>1, Zenon
<1> DEFINE one == Piece(s, m, m + 1)
<1> HIDE DEF one
<1>3. one = <<s[m + 1]>>
  BY <1>1, <1>2 DEF one
<1>4. Piece(s, k, m) \o one = Piece(s, k, m + 1)
  BY <1>1, PiecesJoin, Zenon DEF one
<1> QED
  BY <1>3, <1>4

\* A batch that was begun behind record k, with reader r, holds the records
\* up to m.
Taken(f, r, k, batch, m) ==
    /\ batch \in Batches(f) /\ m \in Nat /\ k <= m
    /\ batch.records = Piece(Given(f), k, m)
    /\ ReadTo(f, batch.reader, m)
    /\ batch.reader.HexCurrLineNo = r.HexCurrLineNo + (m - k)

\* Where n records behind record k are: at most at the last one.
Ahead(f, k, n) == IF k + n < CountedLines(f) THEN k + n ELSE CountedLines(f)

LEMMA AddTaken ==
    ASSUME NEW f \in Files, PlainFile(f), NEW r, NEW k, ReadTo(f, r, k),
           NEW batch, NEW m, Taken(f, r, k, batch, m)
    PROVE  Taken(f, r, k, AddRecord(f, batch), Ahead(f, m, 1))
<1> DEFINE c == CountedLines(f)
           got == GetNextHexRecord(f, batch.reader)
           added == AddRecord(f, batch)
<1>1. /\ batch \in Batches(f) /\ batch.records \in Seq(Records)
      /\ batch.reader \in ReadersOf(f) /\ m \in Nat /\ k \in Nat /\ k <= m
      /\ batch.records = Piece(Given(f), k, m) /\ ReadTo(f, batch.reader, m)
      /\ batch.reader.HexCurrLineNo = r.HexCurrLineNo + (m - k)
      /\ r.HexCurrLineNo \in Nat
  BY ReadToFacts DEF Taken, Batches, Readers
<1>2. m <= c /\ c \in Nat
  BY <1>1, ReadToFacts, FileFacts
<1>3. added \in Batches(f)
  BY <1>1, AddRecordTyped
<1>4. added.records = batch.records \o got.record /\ added.reader = got.reader
  BY DEF AddRecord
<1>5. /\ m = c => got = [record |-> << >>, reader |-> batch.reader]
      /\ m < c => /\ got.record = <<Given(f)[m + 1]>>
                  /\ ReadTo(f, got.reader, m + 1)
                  /\ got.reader.HexCurrLineNo = batch.reader.HexCurrLineNo + 1
  BY <1>1, NextRecord
<1>6. Given(f) \in Seq(Records) /\ Len(Given(f)) = c
  BY GivenFacts
<1> HIDE DEF got, added, c
<1>7. CASE m = c
  <2>1. got.record = << >> /\ got.reader = batch.reader
    BY <1>5, <1>7
  <2>2. batch.records \o << >> = batch.records
    BY <1>1
  <2>3. Ahead(f, m, 1) = m
    BY <1>2, <1>7 DEF Ahead, c
  <2> QED
    BY <1>1, <1>3, <1>4, <2>1, <2>2, <2>3 DEF Taken, added
<1>8. CASE m < c
  <2>1. Ahead(f, m, 1) = m + 1
    <3>1. Ahead(f, m, 1) = IF m + 1 < c THEN m + 1 ELSE c
      BY Zenon DEF Ahead, c
    <3> QED
      BY <1>1, <1>2, <1>8, <3>1
  <2>2. batch.records \o <<Given(f)[m + 1]>> = Piece(Given(f), k, m + 1)
    BY <1>1, <1>2, <1>6, <1>8, PieceNext
  <2>3. added.records = Piece(Given(f), k, m + 1)
    BY <1>4, <1>5, <1>8, <2>2
  <2>4. added.reader.HexCurrLineNo = r.HexCurrLineNo + ((m + 1) - k)
    BY <1>1, <1>4, <1>5, <1>8
  <2>5. ReadTo(f, added.reader, m + 1) /\ m + 1 \in Nat /\ k <= m + 1
    BY <1>1, <1>4, <1>5, <1>8
  <2>6. Taken(f, r, k, added, m + 1)
    BY <1>3, <2>3, <2>4, <2>5 DEF Taken
  <2> QED
    BY <2>1, <2>6 DEF added
<1> QED
  BY <1>1, <1>2, <1>7, <1>8

\* SendCommand takes BatchSize records, fewer only where the file ends, and
\* none only behind its end.
LEMMA BatchTaken ==
    ASSUME NEW f \in Files, PlainFile(f), NEW r, NEW k, ReadTo(f, r, k)
    PROVE  /\ Taken(f, r, k, Batch(f, r), Ahead(f, k, BatchSize))
           /\ Batch(f, r).records = << >> <=> k = CountedLines(f)
<1> DEFINE c == CountedLines(f)
           first == FirstRecord(f, r)
           none == [records |-> << >>, reader |-> r]
<1>1. /\ r \in ReadersOf(f) /\ r \in Readers /\ k \in Nat /\ k <= c /\ c \in Nat
      /\ r.HexCurrLineNo \in Nat
  BY ReadToFacts, FileFacts DEF Readers
<1>2. Given(f) \in Seq(Records) /\ Len(Given(f)) = c
  BY GivenFacts
<1>3. BatchSize \in Nat /\ 1 <= BatchSize /\ BatchSize \in Int /\ 1 \in Int
      /\ BatchSize \in 1..BatchSize /\ 1 \in 1..BatchSize
  BY BatchAssumption
<1>4. Taken(f, r, k, none, k)
  <2>1. none \in Batches(f)
    BY <1>1 DEF Batches
  <2>2. Piece(Given(f), k, k) = << >>
    BY <1>1, <1>2, PieceNone
  <2>3. r.HexCurrLineNo = r.HexCurrLineNo + (k - k)
    BY <1>1
  <2> QED
    BY <1>1, <2>1, <2>2, <2>3 DEF Taken
<1>5. Taken(f, r, k, first, Ahead(f, k, 1))
  <2> HIDE DEF none
  <2>1. Taken(f, r, k, AddRecord(f, none), Ahead(f, k, 1))
    BY <1>4, AddTaken
  <2> QED
    BY <2>1 DEF FirstRecord, first, none
<1> HIDE DEF first, none
<1>6. CASE k = c
  <2>1. Ahead(f, k, 1) = k /\ Ahead(f, k, BatchSize) = k
    BY <1>1, <1>3, <1>6 DEF Ahead, c
  <2>2. first.records = << >>
    <3>1. first.records = Piece(Given(f), k, k)
      BY <1>5, <2>1 DEF Taken
    <3> QED
      BY <1>1, <1>2, <3>1, PieceNone
  <2>3. Batch(f, r) = first
    BY <2>2, Zenon DEF Batch, FirstRecord, first
  <2> QED
    BY <1>5, <1>6, <2>1, <2>2, <2>3 DEF c
<1>7. CASE k # c
  <2>1. Ahead(f, k, 1) = k + 1 /\ k + 1 <= c
    BY <1>1, <1>7 DEF Ahead, c
  <2>2. first.records # << >>
    <3>1. first.records = Piece(Given(f), k, k + 1)
      BY <1>5, <2>1 DEF Taken
    <3>2. Len(Piece(Given(f), k, k + 1)) = 1
      <4>1. k <= k + 1 /\ k + 1 \in Nat /\ k + 1 <= Len(Given(f)) /\ (k + 1) - k = 1
        BY <1>1, <1>2, <2>1
      <4> QED
        BY <1>1, <1>2, <4>1, PieceFacts, Zenon
    <3> QED
      BY <3>1, <3>2
  <2>3. PICK h \in [1..BatchSize -> Batches(f)] :
          /\ h = BatchBody(h, f, r)
          /\ Batch(f, r) = IF FirstRecord(f, r).records = << >>
                           THEN FirstRecord(f, r) ELSE h[BatchSize]
    BY <1>1, BatchChooses, Zenon
  <2>4. Batch(f, r) = h[BatchSize]
    BY <2>2, <2>3, Zenon DEF first
  <2> DEFINE Good == {i \in 1..BatchSize : Taken(f, r, k, h[i], Ahead(f, k, i))}
  <2>5. 1 \in Good
    <3>1. h[1] = first
      BY <1>3, <2>3 DEF BatchBody, first
    <3> QED
      BY <1>3, <1>5, <3>1
  <2>6. ASSUME NEW i \in (1 + 1)..BatchSize, i - 1 \in Good PROVE i \in Good
    <3>1. i \in 1..BatchSize /\ i # 1 /\ i - 1 \in 1..BatchSize /\ i \in Nat
      BY <1>3
    <3>2. h[i] = AddRecord(f, h[i - 1])
      BY <2>3, <3>1 DEF BatchBody
    <3>3. Taken(f, r, k, h[i - 1], Ahead(f, k, i - 1))
      BY <2>6
    <3>4. Ahead(f, Ahead(f, k, i - 1), 1) = Ahead(f, k, i)
      BY <1>1, <3>1 DEF Ahead, c
    <3>5. Taken(f, r, k, AddRecord(f, h[i - 1]), Ahead(f, Ahead(f, k, i - 1), 1))
      BY <3>3, AddTaken
    <3> QED
      BY <3>1, <3>2, <3>4, <3>5
  <2> HIDE DEF Good
  <2>7. \A i \in 1..BatchSize : i \in Good
    BY <1>3, <2>5, <2>6, IntervalInduction, Zenon
  <2>8. Taken(f, r, k, Batch(f, r), Ahead(f, k, BatchSize))
    BY <1>3, <2>4, <2>7 DEF Good
  <2>9. Batch(f, r).records # << >>
    <3> DEFINE m == Ahead(f, k, BatchSize)
    <3>1. m \in Nat /\ k <= m /\ m <= c /\ m - k > 0
      BY <1>1, <1>3, <1>7 DEF Ahead, c
    <3>2. Batch(f, r).records = Piece(Given(f), k, m)
      BY <2>8 DEF Taken
    <3>3. Len(Piece(Given(f), k, m)) = m - k
      BY <1>1, <1>2, <3>1, PieceFacts
    <3> HIDE DEF m
    <3> QED
      BY <3>1, <3>2, <3>3
  <2> QED
    BY <1>7, <2>8, <2>9 DEF c
<1> QED
  BY <1>6, <1>7

-----------------------------------------------------------------------------
(***************************************************************************)
(* VerifyFlash reads the whole file.                                       *)
(***************************************************************************)

\* What the loop keeps of a record.
Follows(v, new, line) ==
    LET address == v.base + line.at
    IN  /\ new.base = IF line.kind = "data" THEN v.base
                      ELSE IF line.kind = "ext" THEN line.at ELSE 0
        /\ line.kind # "data" \/ address >= Boot =>
               new.image = v.image /\ new.min = v.min /\ new.max = v.max
        /\ line.kind = "data" /\ address < Boot =>
               /\ new.image = Copied(v.image, line, address)
               /\ new.min = IF v.min > address THEN address ELSE v.min
               /\ new.max = IF v.max < address + line.len
                            THEN address + line.len ELSE v.max

\* One round: the next record, or the end.
LEMMA RoundReads ==
    ASSUME HexFile \in Files, PlainFile(HexFile), NEW v \in Loops(HexFile), ~v.ends,
           NEW k, ReadTo(HexFile, v.reader, k)
    PROVE  LET new == VerifyRound(v)
           IN  /\ k = CountedLines(HexFile) =>
                      /\ new.reader = v.reader /\ new.ends
                      /\ new.base = v.base /\ new.min = v.min /\ new.max = v.max
                      /\ new.image = v.image
               /\ k < CountedLines(HexFile) =>
                      /\ ReadTo(HexFile, new.reader, k + 1) /\ ~new.ends
                      /\ new.reader.HexCurrLineNo = v.reader.HexCurrLineNo + 1
                      /\ Follows(v, new, LineGiven(HexFile, k + 1))
<1> DEFINE c == CountedLines(HexFile)
           got == GetNextHexRecord(HexFile, v.reader)
           next == [v EXCEPT !.reader = got.reader]
           new == VerifyRound(v)
           line == LineGiven(HexFile, k + 1)
<1>1. /\ v.reader \in ReadersOf(HexFile) /\ v.ends \in BOOLEAN /\ v.base \in Nat
      /\ v.min \in Nat /\ v.max \in Nat /\ v.image \in Images
      /\ k \in Nat /\ k <= c /\ c \in Nat
  BY FileFacts, ReadToFacts DEF Loops
<1>2. got.reader \in ReadersOf(HexFile)
  BY <1>1, RecordTyped
<1>3. /\ k = c => got = [record |-> << >>, reader |-> v.reader]
      /\ k < c => /\ got.record = <<Given(HexFile)[k + 1]>>
                  /\ ReadTo(HexFile, got.reader, k + 1)
                  /\ got.reader.HexCurrLineNo = v.reader.HexCurrLineNo + 1
  BY NextRecord
<1>4. /\ got.record = << >> => new = [next EXCEPT !.ends = TRUE]
      /\ got.record # << >> => new = WithRecord(next, got.record[1].line)
  BY Zenon DEF VerifyRound
<1> HIDE DEF got, c, new
<1>5. next = [reader |-> got.reader, ends |-> v.ends, base |-> v.base, min |-> v.min,
              max |-> v.max, image |-> v.image]
  BY DEF Loops
<1>6. next \in Loops(HexFile)
  BY <1>1, <1>2, <1>5 DEF Loops
<1> HIDE DEF next
<1>7. CASE k = c
  <2>1. got.record = << >> /\ got.reader = v.reader
    BY <1>3, <1>7
  <2>2. new = [reader |-> next.reader, ends |-> TRUE, base |-> next.base,
               min |-> next.min, max |-> next.max, image |-> next.image]
    <3>1. new = [next EXCEPT !.ends = TRUE]
      BY <1>4, <2>1
    <3> QED
      BY <1>6, <3>1 DEF Loops
  <2>3. /\ new.reader = v.reader /\ new.ends /\ new.base = v.base /\ new.min = v.min
        /\ new.max = v.max /\ new.image = v.image
    BY <1>5, <2>1, <2>2
  <2>4. ~(k < c)
    BY <1>1, <1>7
  <2> QED
    BY <1>7, <2>3, <2>4, Zenon DEF c, new
<1>8. CASE k < c
  <2>1. k + 1 \in 1..c
    BY <1>1, <1>8
  <2>2. line \in FileLines /\ line.kind # "bad"
    BY <2>1, GivenFacts DEF c, PlainFile
  <2>3. Given(HexFile)[k + 1] = [line |-> line, extra |-> FALSE]
    BY <2>1, GivenFacts DEF c
  <2>4. line \in Lines
    BY <2>2 DEF Lines
  <2>5. line.kind \in {"data", "ext", "eof"} /\ line.at \in Nat /\ line.len \in Nat
    BY <2>2, <2>4, LineFacts DEF Kinds
  <2> HIDE DEF line
  <2>6. got.record # << >> /\ got.record[1].line = line
    <3> DEFINE given == Given(HexFile)[k + 1]
    <3>1. given.line = line
      BY <2>3
    <3> HIDE DEF given
    <3>2. got.record = <<given>>
      BY <1>3, <1>8 DEF given
    <3>3. got.record # << >> /\ got.record[1] = given
      BY <3>2
    <3> QED
      BY <3>1, <3>3
  <2>7. new = WithRecord(next, line)
    BY <1>4, <2>6
  <2>8. /\ new.reader = next.reader /\ new.ends = next.ends
        /\ Follows(next, new, line)
    BY <1>6, <2>4, <2>5, <2>7, WithRecordFacts DEF Follows
  <2>9. /\ next.reader = got.reader /\ next.ends = v.ends /\ next.base = v.base
        /\ next.min = v.min /\ next.max = v.max /\ next.image = v.image
    BY <1>5
  <2>10. Follows(v, new, line)
    BY <2>8, <2>9 DEF Follows
  <2>11. ReadTo(HexFile, new.reader, k + 1) /\ ~new.ends
         /\ new.reader.HexCurrLineNo = v.reader.HexCurrLineNo + 1
    BY <1>3, <1>8, <2>8, <2>9
  <2>12. k # c
    BY <1>1, <1>8
  <2> QED
    BY <1>8, <2>10, <2>11, <2>12, Zenon DEF c, new, line
<1> QED
  BY <1>1, <1>7, <1>8

\* The states of the loop behind each record, and at its end.
LEMMA LoopReads ==
    ASSUME HexFile \in Files, PlainFile(HexFile), reader \in Readers, NEW base \in Nat
    PROVE  \E h \in [0..CountedLines(HexFile) -> Loops(HexFile)] :
               /\ h[0] = Unread(base)
               /\ \A i \in 1..CountedLines(HexFile) :
                      Follows(h[i - 1], h[i], LineGiven(HexFile, i))
               /\ LET v == VerifyLoop(base)
                      last == h[CountedLines(HexFile)]
                  IN  /\ ReadTo(HexFile, v.reader, CountedLines(HexFile))
                      /\ v.reader.HexCurrLineNo
                             = reader.HexCurrLineNo + CountedLines(HexFile)
                      /\ v.base = last.base /\ v.min = last.min /\ v.max = last.max
                      /\ v.image = last.image
<1> DEFINE c == CountedLines(HexFile)
<1>1. PICK g \in [0..Rounds -> Loops(HexFile)] :
        g = VerifyBody(g, base) /\ VerifyLoop(base) = g[Rounds]
  BY VerifyChooses, Zenon
<1>2. c \in Nat /\ c > 0 /\ Rounds = c + 1 /\ c \in Int /\ 0 \in Int
  BY FileFacts DEF Rounds
<1>3. reader.HexCurrLineNo \in Nat
  BY DEF Readers
<1> HIDE DEF c
<1>4. g[0] = Unread(base) /\ \A i \in 1..(c + 1) : g[i] = VerifyRound(g[i - 1])
  BY <1>1, <1>2 DEF VerifyBody
<1> DEFINE Good == {i \in 0..c : /\ ReadTo(HexFile, g[i].reader, i) /\ ~g[i].ends
                                 /\ g[i].reader.HexCurrLineNo = reader.HexCurrLineNo + i}
<1>5. 0 \in Good
  <2>1. g[0].reader = Rewound(reader) /\ ~g[0].ends
    BY <1>4 DEF Unread
  <2>2. Rewound(reader).HexCurrLineNo = reader.HexCurrLineNo + 0
    BY <1>3, RewoundFacts
  <2>3. ReadTo(HexFile, Rewound(reader), 0)
    BY ReadToStart
  <2>4. 0 \in 0..c
    BY <1>2
  <2> QED
    BY <2>1, <2>2, <2>3, <2>4
<1>6. ASSUME NEW i \in 1..c, i - 1 \in Good
      PROVE  i \in Good /\ Follows(g[i - 1], g[i], LineGiven(HexFile, i))
  <2>1. /\ i - 1 \in 0..c /\ i - 1 < c /\ (i - 1) + 1 = i /\ i \in 0..c
        /\ i - 1 \in 0..Rounds /\ i \in 1..(c + 1)
    BY <1>2
  <2>2. g[i] = VerifyRound(g[i - 1]) /\ g[i - 1] \in Loops(HexFile)
    BY <1>4, <2>1
  <2>3. /\ ReadTo(HexFile, g[i - 1].reader, i - 1) /\ ~g[i - 1].ends
        /\ g[i - 1].reader.HexCurrLineNo = reader.HexCurrLineNo + (i - 1)
    BY <1>6
  <2> DEFINE v == g[i - 1]
             new == VerifyRound(v)
             k == i - 1
  <2>4. v \in Loops(HexFile) /\ ~v.ends /\ ReadTo(HexFile, v.reader, k) /\ k < c
    BY <2>1, <2>2, <2>3
  <2> HIDE DEF v, k
  <2>5. /\ ReadTo(HexFile, new.reader, k + 1) /\ ~new.ends
        /\ new.reader.HexCurrLineNo = v.reader.HexCurrLineNo + 1
        /\ Follows(v, new, LineGiven(HexFile, k + 1))
    BY <2>4, RoundReads DEF c
  <2> HIDE DEF new
  <2>6. g[i] = new /\ k + 1 = i /\ v = g[i - 1]
    BY <2>1, <2>2 DEF new, v, k
  <2>7. new.reader.HexCurrLineNo = reader.HexCurrLineNo + i
    BY <1>3, <2>3, <2>5, <2>6
  <2> QED
    BY <2>1, <2>5, <2>6, <2>7
<1> HIDE DEF Good
<1>7. \A i \in (0 + 1)..c : i - 1 \in Good => i \in Good
  BY <1>6
<1>8. \A i \in 0..c : i \in Good
  BY <1>2, <1>5, <1>7, IntervalInduction, Zenon
<1> DEFINE h == [i \in 0..c |-> g[i]]
           v == g[c]
           last == VerifyRound(v)
<1>9. /\ v \in Loops(HexFile) /\ ~v.ends /\ ReadTo(HexFile, v.reader, c)
      /\ v.reader.HexCurrLineNo = reader.HexCurrLineNo + c
  BY <1>2, <1>8 DEF Good
<1> HIDE DEF v
<1>10. /\ last.reader = v.reader /\ last.base = v.base /\ last.min = v.min
       /\ last.max = v.max /\ last.image = v.image
  BY <1>9, RoundReads DEF c
<1> HIDE DEF last
<1>11. VerifyLoop(base) = last /\ h[c] = v
  <2>1. c + 1 \in 1..(c + 1) /\ (c + 1) - 1 = c /\ c \in 0..c
    BY <1>2
  <2> QED
    BY <1>1, <1>2, <1>4, <2>1 DEF last, v
<1>12. h \in [0..c -> Loops(HexFile)] /\ h[0] = Unread(base)
  BY <1>2, <1>4
<1>13. ASSUME NEW i \in 1..c PROVE Follows(h[i - 1], h[i], LineGiven(HexFile, i))
  <2>1. i \in 0..c /\ i - 1 \in 0..c
    BY <1>2
  <2>2. h[i] = g[i] /\ h[i - 1] = g[i - 1]
    BY <2>1
  <2>3. Follows(g[i - 1], g[i], LineGiven(HexFile, i))
    BY <1>6, <1>8, <2>1
  <2> QED
    BY <2>2, <2>3, Zenon
<1> HIDE DEF h
<1>14. LET loop == VerifyLoop(base)
       IN  /\ ReadTo(HexFile, loop.reader, c)
           /\ loop.reader.HexCurrLineNo = reader.HexCurrLineNo + c
           /\ loop.base = h[c].base /\ loop.min = h[c].min /\ loop.max = h[c].max
           /\ loop.image = h[c].image
  BY <1>9, <1>10, <1>11
<1> QED
  BY <1>12, <1>13, <1>14 DEF c

-----------------------------------------------------------------------------
(***************************************************************************)
(* Completion and progress.                                                *)
(***************************************************************************)

\* While the file is programmed its first k records have been sent and
\* counted, and the reader stands behind them.
SentTo(k) ==
    /\ k \in 1..CountedLines(HexFile)
    /\ ReadTo(HexFile, reader, k)
    /\ reader.HexCurrLineNo = k
    /\ FlattenSeq(packets) = Piece(Given(HexFile), 0, k)

FileInv ==
    /\ HexFile # NoFile => HexTotalLines = CountedLines(HexFile)
    /\ programming => \E k \in Nat : SentTo(k)
    /\ completed => /\ HexFile # NoFile
                    /\ FlattenSeq(packets) = Given(HexFile)
                    /\ reader.HexCurrLineNo >= CountedLines(HexFile)

LEMMA LoadKeepsFile ==
    ASSUME TypeInv, FileInv, LoadHexFile
    PROVE  FileInv'
BY DEF LoadHexFile, FileInv

\* The first packet: nothing was sent and nothing counted before it.
LEMMA ProgramKeepsFile ==
    ASSUME PlainFiles, TypeInv, FileInv, ProgramFlash
    PROVE  FileInv'
<1> DEFINE r == ResetHexFilePointer(reader)
           batch == Batch(HexFile, r)
           k == Ahead(HexFile, 0, BatchSize)
           c == CountedLines(HexFile)
<1>1. /\ HexFile \in Files /\ HexFile # NoFile /\ reader \in Readers /\ PlainFile(HexFile)
  BY ReaderFacts DEF ProgramFlash, PlainFiles
<1>2. /\ c \in Nat /\ c > 0 /\ BatchSize \in Nat /\ BatchSize > 0
  BY <1>1, FileFacts, BatchAssumption
<1>3. ReadTo(HexFile, r, 0) /\ r.HexCurrLineNo = 0
  BY <1>1, ReadToStart, RewoundFacts
<1> HIDE DEF r
<1>4. Taken(HexFile, r, 0, batch, k) /\ batch.records # << >>
  BY <1>1, <1>2, <1>3, BatchTaken
<1>5. k \in 1..c
  BY <1>2 DEF Ahead
<1>6. /\ reader' = batch.reader /\ programming' = (batch.records # << >>)
      /\ packets' = IF batch.records = << >> THEN << >> ELSE <<batch.records>>
      /\ completed' = FALSE /\ HexFile' = HexFile /\ HexTotalLines' = HexTotalLines
  BY DEF ProgramFlash, r
<1> DEFINE records == batch.records
<1> HIDE DEF batch, k, c
<1>7. /\ records \in Seq(Records) /\ records = Piece(Given(HexFile), 0, k)
      /\ ReadTo(HexFile, batch.reader, k) /\ batch.reader.HexCurrLineNo = k
  BY <1>3, <1>4, <1>5 DEF Taken, Batches
<1> HIDE DEF records
<1>8. packets' = Append(<< >>, records)
  BY <1>4, <1>6 DEF records
<1>9. FlattenSeq(packets') = records
  <2>1. << >> \in Seq(Seq(Records))
    OBVIOUS
  <2>2. FlattenSeq(Append(<< >>, records)) = FlattenSeq(<< >>) \o records
    BY <1>7, <2>1, FlattenAppend, Zenon
  <2>3. << >> \o records = records
    BY <1>7
  <2> QED
    BY <1>8, <2>2, <2>3, FlattenEmpty, Zenon
<1>10. PICK j \in Nat : j = k
  BY <1>5
<1>11. /\ j \in 1..CountedLines(HexFile') /\ ReadTo(HexFile', reader', j)
       /\ reader'.HexCurrLineNo = j
       /\ FlattenSeq(packets') = Piece(Given(HexFile'), 0, j)
  BY <1>5, <1>6, <1>7, <1>9, <1>10 DEF c
<1>12. SentTo(j)'
  BY <1>11 DEF SentTo
<1> QED
  BY <1>6, <1>12 DEF FileInv

\* An answer: the next packet, or all of the file has been sent.
LEMMA AnswerKeepsFile ==
    ASSUME PlainFiles, TypeInv, FileInv, ProgramNext
    PROVE  FileInv'
<1> DEFINE batch == Batch(HexFile, reader)
           c == CountedLines(HexFile)
<1>1. /\ HexFile \in Files /\ HexFile # NoFile /\ PlainFile(HexFile)
      /\ packets \in Seq(Seq(Records))
  BY ReaderFacts DEF ProgramNext, PlainFiles, TypeInv
<1>2. /\ c \in Nat /\ c > 0 /\ BatchSize \in Nat /\ BatchSize > 0
      /\ Given(HexFile) \in Seq(Records) /\ Len(Given(HexFile)) = c
  BY <1>1, FileFacts, GivenFacts, BatchAssumption
<1>3. PICK k \in Nat : SentTo(k)
  BY DEF ProgramNext, FileInv
<1>4. /\ k \in 1..c /\ ReadTo(HexFile, reader, k) /\ reader.HexCurrLineNo = k
      /\ FlattenSeq(packets) = Piece(Given(HexFile), 0, k)
  BY <1>3 DEF SentTo
<1> DEFINE m == Ahead(HexFile, k, BatchSize)
<1>5. Taken(HexFile, reader, k, batch, m) /\ (batch.records = << >> <=> k = c)
  BY <1>1, <1>4, BatchTaken
<1>6. m \in 1..c /\ k <= m /\ m \in Nat /\ (k = c => m = c)
  BY <1>2, <1>4 DEF Ahead
<1>7. /\ reader' = batch.reader /\ programming' = (batch.records # << >>)
      /\ completed' = (batch.records = << >>)
      /\ packets' = IF batch.records = << >> THEN packets
                    ELSE Append(packets, batch.records)
      /\ HexFile' = HexFile /\ HexTotalLines' = HexTotalLines
  BY DEF ProgramNext
<1> DEFINE records == batch.records
<1> HIDE DEF batch, m, c
<1>8. /\ records \in Seq(Records) /\ records = Piece(Given(HexFile), k, m)
      /\ ReadTo(HexFile, batch.reader, m) /\ batch.reader.HexCurrLineNo = k + (m - k)
  BY <1>4, <1>5 DEF Taken, Batches
<1> HIDE DEF records
<1>9. batch.reader.HexCurrLineNo = m
  BY <1>6, <1>8
<1>10. CASE k = c
  <2>1. batch.records = << >> /\ m = c
    BY <1>5, <1>6, <1>10
  <2>2. packets' = packets /\ ~programming'
    BY <1>7, <2>1
  <2>3. FlattenSeq(packets') = Given(HexFile)
    BY <1>2, <1>4, <1>10, <2>2, PieceWhole
  <2>4. reader'.HexCurrLineNo >= CountedLines(HexFile)
    BY <1>2, <1>7, <1>9, <2>1 DEF c
  <2> QED
    BY <1>1, <1>7, <2>2, <2>3, <2>4 DEF FileInv
<1>11. CASE k # c
  <2>1. batch.records # << >> /\ ~completed'
    BY <1>5, <1>7, <1>11
  <2>2. packets' = Append(packets, records)
    BY <1>7, <2>1 DEF records
  <2>3. FlattenSeq(packets') = FlattenSeq(packets) \o records
    BY <1>1, <1>8, <2>2, FlattenAppend, Zenon
  <2>4. 0 \in Nat /\ 0 <= k /\ m <= Len(Given(HexFile))
    BY <1>2, <1>4, <1>6
  <2>5. Piece(Given(HexFile), 0, k) \o Piece(Given(HexFile), k, m)
            = Piece(Given(HexFile), 0, m)
    BY <1>2, <1>6, <2>4, PiecesJoin, Zenon
  <2>6. FlattenSeq(packets') = Piece(Given(HexFile), 0, m)
    BY <1>4, <1>8, <2>3, <2>5
  <2>7. PICK j \in Nat : j = m
    BY <1>6
  <2>8. /\ j \in 1..CountedLines(HexFile') /\ ReadTo(HexFile', reader', j)
        /\ reader'.HexCurrLineNo = j
        /\ FlattenSeq(packets') = Piece(Given(HexFile'), 0, j)
    BY <1>6, <1>7, <1>8, <1>9, <2>6, <2>7 DEF c
  <2>9. SentTo(j)'
    BY <2>8 DEF SentTo
  <2> QED
    BY <1>1, <1>7, <2>1, <2>9 DEF FileInv
<1> QED
  BY <1>10, <1>11

\* VerifyFlash counts on from where it finds HexCurrLineNo.
LEMMA VerifyKeepsFile ==
    ASSUME PlainFiles, TypeInv, FileInv, VerifyFlash
    PROVE  FileInv'
<1>1. /\ HexFile \in Files /\ HexFile # NoFile /\ PlainFile(HexFile)
      /\ reader \in Readers /\ reader.HexCurrLineNo \in Nat
      /\ CountedLines(HexFile) \in Nat /\ programming = FALSE
  BY ReaderFacts, FileFacts DEF VerifyFlash, PlainFiles, Readers, TypeInv, TypeOK
<1>2. PICK base \in GarbageBase : reader' = VerifyLoop(base).reader
  BY DEF VerifyFlash
<1>3. base \in Nat
  BY GarbageAssumption
<1>4. VerifyLoop(base).reader.HexCurrLineNo = reader.HexCurrLineNo + CountedLines(HexFile)
  BY <1>1, <1>3, LoopReads, Zenon
<1>5. reader'.HexCurrLineNo >= CountedLines(HexFile)
  BY <1>1, <1>2, <1>4
<1>6. UNCHANGED <<HexFile, HexTotalLines, packets, programming, completed>>
  BY DEF VerifyFlash
<1> QED
  BY <1>1, <1>5, <1>6 DEF FileInv

LEMMA StepKeepsFile ==
    PlainFiles /\ TypeInv /\ FileInv /\ [Next]_vars => FileInv'
<1> SUFFICES ASSUME PlainFiles, TypeInv, FileInv, [Next]_vars PROVE FileInv'
  OBVIOUS
<1>1. CASE LoadFails
  BY <1>1 DEF LoadFails, FileInv
<1>2. CASE ProgramFails
  BY <1>2 DEF ProgramFails, FileInv
<1>3. CASE VerifyCrashes
  BY <1>3 DEF VerifyCrashes, FileInv, SentTo
<1>4. CASE UNCHANGED vars
  BY <1>4 DEF vars, FileInv, SentTo
<1> QED
  BY <1>1, <1>2, <1>3, <1>4, LoadKeepsFile, ProgramKeepsFile, AnswerKeepsFile,
     VerifyKeepsFile DEF Next

LEMMA FileInvHolds == PlainFiles => (Spec => [](TypeInv /\ FileInv))
<1> SUFFICES ASSUME PlainFiles PROVE Spec => [](TypeInv /\ FileInv)
  OBVIOUS
<1>1. Init => TypeInv /\ FileInv
  <2>1. Init => FileInv
    BY DEF Init, FileInv
  <2> QED
    BY <2>1, InitTyped
<1>2. TypeInv /\ FileInv /\ [Next]_vars => (TypeInv /\ FileInv)'
  BY StepTyped, StepKeepsFile
<1> QED
  BY <1>1, <1>2, PTL DEF Spec

\* When every line of the files begins with a colon and none ends in CR LF,
\* completion is reported only when every record has been sent, in order and
\* unchanged, and at most the last one once more, however many records a
\* packet takes and wherever VerifyFlash and LoadHexFile left the reader.
THEOREM CompletedIsWhole == PlainFiles => (Spec => []CompletedMeansWhole)
<1>1. TypeInv /\ FileInv => CompletedMeansWhole
  <2> SUFFICES ASSUME TypeInv, FileInv, completed PROVE CompletedMeansWhole
    BY DEF CompletedMeansWhole
  <2>1. HexFile \in Files /\ FlattenSeq(packets) = Given(HexFile)
    BY ReaderFacts DEF FileInv
  <2> QED
    BY <2>1, GivenIsWhole, Zenon DEF CompletedMeansWhole
<1> QED
  BY <1>1, FileInvHolds, PTL

\* For the same files the progress bar never leaves its range while the file
\* is programmed, and it is full at the end.
THEOREM ProgressStaysInRange == PlainFiles => (Spec => []ProgressInRange)
<1>1. TypeInv /\ FileInv => ProgressInRange
  <2> SUFFICES ASSUME TypeInv, FileInv PROVE ProgressInRange
    OBVIOUS
  <2>1. ASSUME programming PROVE reader.HexCurrLineNo <= HexTotalLines
    <3>1. PICK k \in Nat : SentTo(k)
      BY <2>1 DEF FileInv
    <3>2. HexTotalLines = CountedLines(HexFile)
      BY <2>1 DEF FileInv, TypeInv
    <3> QED
      BY <3>1, <3>2 DEF SentTo
  <2>2. ASSUME completed PROVE reader.HexCurrLineNo >= HexTotalLines
    BY <2>2 DEF FileInv
  <2> QED
    BY <2>1, <2>2 DEF ProgressInRange
<1> QED
  BY <1>1, FileInvHolds, PTL

-----------------------------------------------------------------------------
(***************************************************************************)
(* The device and VerifyFlash read the same records.                       *)
(***************************************************************************)

\* The file sets the base, or ends, before its first data record.
BasedFiles == \A f \in Files : f.lines[1].kind # "data"

Devices == [base : Nat, flash : Images, written : SUBSET Int]
EmptyDevice == [base |-> 0, flash |-> Blank, written |-> {}]

LEMMA DeviceStepFacts ==
    ASSUME NEW d \in Devices, NEW record \in Records, NEW line, line = record.line,
           line.kind \in {"data", "ext", "eof"}, line.at \in Nat, line.len \in Nat
    PROVE  LET address == d.base + line.at
               new == DeviceStep(d, record)
           IN  /\ new \in Devices
               /\ new.base = IF line.kind = "data" THEN d.base
                             ELSE IF line.kind = "ext" THEN line.at ELSE 0
               /\ line.kind # "data" \/ address >= Boot =>
                      new.flash = d.flash /\ new.written = d.written
               /\ line.kind = "data" /\ address < Boot =>
                      /\ new.flash = Copied(d.flash, line, address)
                      /\ new.written = d.written \cup address..(address + line.len - 1)
<1> DEFINE address == d.base + line.at
           new == DeviceStep(d, record)
<1>1. /\ d.base \in Nat /\ d.flash \in Images /\ d.written \in SUBSET Int
      /\ address \in Nat /\ Boot \in Nat /\ line \in Lines
  BY FlashAssumption DEF Devices, Records
<1>2. CASE line.kind = "ext"
  <2>1. new = [d EXCEPT !.base = line.at]
    BY <1>2 DEF DeviceStep
  <2> HIDE DEF new
  <2>2. new = [base |-> line.at, flash |-> d.flash, written |-> d.written]
    BY <2>1 DEF Devices
  <2> QED
    BY <1>1, <1>2, <2>2 DEF Devices, new
<1>3. CASE line.kind = "eof"
  <2>1. new = [d EXCEPT !.base = 0]
    BY <1>3 DEF DeviceStep
  <2> HIDE DEF new
  <2>2. new = [base |-> 0, flash |-> d.flash, written |-> d.written]
    BY <2>1 DEF Devices
  <2> QED
    BY <1>1, <1>3, <2>2 DEF Devices, new
<1>4. CASE line.kind = "data" /\ address >= Boot
  <2>1. new = d
    BY <1>1, <1>4 DEF DeviceStep
  <2> HIDE DEF new
  <2>2. ~(address < Boot)
    BY <1>1, <1>4
  <2> QED
    BY <1>1, <1>4, <2>1, <2>2 DEF new
<1>5. CASE line.kind = "data" /\ ~(address >= Boot)
  <2> DEFINE flash == Copied(d.flash, line, address)
             written == d.written \cup address..(address + line.len - 1)
  <2>1. address < Boot
    BY <1>1, <1>5
  <2>2. new = [d EXCEPT !.flash = flash, !.written = written]
    BY <1>5, <2>1, Zenon DEF DeviceStep
  <2>3. flash \in Images /\ written \in SUBSET Int
    BY <1>1, CopiedTyped
  <2> HIDE DEF new, flash, written
  <2>4. new = [base |-> d.base, flash |-> flash, written |-> written]
    BY <2>2 DEF Devices
  <2>5. new \in Devices
    BY <1>1, <2>3, <2>4 DEF Devices
  <2> QED
    BY <1>5, <2>4, <2>5 DEF new, flash, written
<1> QED
  BY <1>2, <1>3, <1>4, <1>5

\* The records a plain file is made of.
LEMMA GivenRecord ==
    ASSUME NEW f \in Files, PlainFile(f), NEW i \in 1..CountedLines(f)
    PROVE  LET record == Given(f)[i]
               line == LineGiven(f, i)
           IN  /\ record \in Records /\ record.line = line /\ line \in Lines
               /\ line.kind \in {"data", "ext", "eof"} /\ line.at \in Nat /\ line.len \in Nat
<1> DEFINE line == LineGiven(f, i)
<1>1. /\ line \in FileLines /\ line.kind # "bad"
      /\ Given(f)[i] = [line |-> line, extra |-> FALSE] /\ Given(f)[i] \in Records
  BY GivenFacts DEF PlainFile
<1> HIDE DEF line
<1>2. line \in Lines
  BY <1>1 DEF Lines
<1>3. line.kind \in {"data", "ext", "eof"} /\ line.at \in Nat /\ line.len \in Nat
  BY <1>1, <1>2, LineFacts DEF Kinds
<1> QED
  BY <1>1, <1>2, <1>3 DEF line

\* What Device chooses, when the whole file has been sent.
DeviceBody(h, s) ==
    [i \in 0..Len(s) |-> IF i = 0 THEN EmptyDevice ELSE DeviceStep(h[i - 1], s[i])]

LEMMA DeviceChooses ==
    ASSUME NEW f \in Files, PlainFile(f), FlattenSeq(packets) = Given(f)
    PROVE  \E g \in [0..CountedLines(f) -> Devices] :
               /\ g[0] = EmptyDevice
               /\ \A i \in 1..CountedLines(f) : g[i] = DeviceStep(g[i - 1], Given(f)[i])
               /\ Device = g[CountedLines(f)]
<1> DEFINE c == CountedLines(f)
           s == Given(f)
           step == [p \in ((0 + 1)..c) \X Devices |-> DeviceStep(p[2], s[p[1]])]
<1>1. c \in Nat /\ c \in Int /\ 0 \in Int /\ 0 <= c /\ Len(s) = c /\ c \in 0..c
  BY FileFacts, GivenFacts
<1>2. EmptyDevice \in Devices
  BY BlankTyped DEF EmptyDevice, Devices
<1>3. step \in [((0 + 1)..c) \X Devices -> Devices]
  <2>1. ASSUME NEW i \in (0 + 1)..c, NEW d \in Devices PROVE DeviceStep(d, s[i]) \in Devices
    <3> DEFINE line == LineGiven(f, i)
    <3>1. i \in 1..CountedLines(f)
      OBVIOUS
    <3>2. /\ s[i] \in Records /\ line = s[i].line
          /\ line.kind \in {"data", "ext", "eof"} /\ line.at \in Nat /\ line.len \in Nat
      BY <3>1, GivenRecord
    <3> HIDE DEF line, s
    <3> QED
      BY <3>2, DeviceStepFacts
  <2> QED
    BY <2>1
<1>4. \A i \in (0 + 1)..c, d \in Devices : step[<<i, d>>] = DeviceStep(d, s[i])
  OBVIOUS
<1> HIDE DEF step, c, s
<1>5. PICK g \in [0..c -> Devices] : Recursive(g, 0, c, EmptyDevice, step)
  BY <1>1, <1>2, <1>3, RecursionOnInterval, Zenon
<1>6. g[0] = EmptyDevice
  BY <1>5 DEF Recursive
<1>7. \A i \in 1..c : g[i] = DeviceStep(g[i - 1], s[i])
  <2> TAKE i \in 1..c
  <2>1. i \in (0 + 1)..c /\ i - 1 \in 0..c
    BY <1>1
  <2>2. g[i] = step[<<i, g[i - 1]>>] /\ g[i - 1] \in Devices
    BY <1>5, <2>1 DEF Recursive
  <2> QED
    BY <1>4, <2>1, <2>2
<1>8. g = DeviceBody(g, s)
  <2>1. \A i \in 0..c : g[i] = IF i = 0 THEN EmptyDevice ELSE DeviceStep(g[i - 1], s[i])
    <3> TAKE i \in 0..c
    <3>1. i = 0 \/ (i # 0 /\ i \in 1..c)
      BY <1>1
    <3> QED
      BY <1>6, <1>7, <3>1
  <2> QED
    BY <1>1, <2>1 DEF DeviceBody
<1> DEFINE chosen == CHOOSE h : h = DeviceBody(h, s)
<1>9. chosen = DeviceBody(chosen, s)
  BY <1>8, Zenon
<1>10. Device = chosen[c]
  <2>1. Device = chosen[Len(s)]
    BY Zenon DEF Device, DeviceBody, EmptyDevice, s
  <2> QED
    BY <1>1, <2>1
<1> HIDE DEF chosen
<1>11. \A i \in 0..c : chosen[i] = g[i]
  <2> DEFINE Same == {i \in 0..c : chosen[i] = g[i]}
  <2>1. 0 \in Same
    BY <1>1, <1>6, <1>9 DEF DeviceBody
  <2>2. ASSUME NEW i \in (0 + 1)..c, i - 1 \in Same PROVE i \in Same
    <3>1. i \in 0..c /\ i \in 1..c /\ i # 0 /\ chosen[i - 1] = g[i - 1]
      BY <1>1, <2>2
    <3>2. chosen[i] = DeviceStep(chosen[i - 1], s[i])
      BY <1>1, <1>9, <3>1 DEF DeviceBody
    <3>3. g[i] = DeviceStep(g[i - 1], s[i])
      BY <1>7, <3>1
    <3> QED
      BY <3>1, <3>2, <3>3
  <2> HIDE DEF Same
  <2>3. \A i \in 0..c : i \in Same
    BY <1>1, <2>1, <2>2, IntervalInduction, Zenon
  <2> QED
    BY <2>3 DEF Same
<1>12. Device = g[c]
  BY <1>1, <1>10, <1>11
<1> QED
  BY <1>6, <1>7, <1>12 DEF c, s

\* The image of VerifyFlash is the flash of the device, and its range holds
\* what the device wrote.
Matches(d, v) == d.flash = v.image /\ d.written \subseteq v.min..(v.max - 1)

LEMMA RecordMatches ==
    ASSUME NEW f \in Files, NEW d \in Devices, NEW v \in Loops(f), NEW new \in Loops(f),
           Matches(d, v), NEW record \in Records, NEW line, line = record.line,
           line.kind \in {"data", "ext", "eof"}, line.at \in Nat, line.len \in Nat,
           Follows(v, new, line), line.kind = "data" => d.base = v.base
    PROVE  /\ Matches(DeviceStep(d, record), new)
           /\ DeviceStep(d, record).base = new.base
<1> DEFINE address == v.base + line.at
           after == DeviceStep(d, record)
<1>1. /\ v.base \in Nat /\ v.min \in Nat /\ v.max \in Nat /\ address \in Nat
      /\ new.min \in Nat /\ new.max \in Nat /\ Boot \in Nat
  BY FlashAssumption DEF Loops
<1>2. /\ after.base = IF line.kind = "data" THEN d.base
                      ELSE IF line.kind = "ext" THEN line.at ELSE 0
      /\ line.kind # "data" \/ d.base + line.at >= Boot =>
             after.flash = d.flash /\ after.written = d.written
      /\ line.kind = "data" /\ d.base + line.at < Boot =>
             /\ after.flash = Copied(d.flash, line, d.base + line.at)
             /\ after.written = d.written \cup
                    (d.base + line.at)..(d.base + line.at + line.len - 1)
  BY DeviceStepFacts
<1> HIDE DEF after
<1>3. after.base = new.base
  BY <1>2 DEF Follows
<1>4. CASE line.kind # "data"
  BY <1>2, <1>3, <1>4 DEF Follows, Matches, after
<1>5. CASE line.kind = "data" /\ address >= Boot
  BY <1>2, <1>3, <1>5 DEF Follows, Matches, after
<1>6. CASE line.kind = "data" /\ ~(address >= Boot)
  <2>1. d.base = v.base /\ address < Boot
    BY <1>1, <1>6
  <2>2. after.flash = Copied(v.image, line, address) /\ new.image = Copied(v.image, line, address)
    BY <1>2, <1>6, <2>1 DEF Follows, Matches
  <2>3. /\ new.min = IF v.min > address THEN address ELSE v.min
        /\ new.max = IF v.max < address + line.len THEN address + line.len ELSE v.max
    BY <1>6, <2>1 DEF Follows
  <2>4. after.written = d.written \cup address..(address + line.len - 1)
    BY <1>2, <1>6, <2>1
  <2>5. address..(address + line.len - 1) \subseteq new.min..(new.max - 1)
    BY <1>1, <2>3
  <2>6. v.min..(v.max - 1) \subseteq new.min..(new.max - 1)
    BY <1>1, <2>3
  <2>7. d.written \subseteq v.min..(v.max - 1)
    BY DEF Matches
  <2>8. after.written \subseteq new.min..(new.max - 1)
    BY <2>4, <2>5, <2>6, <2>7, Zenon
  <2> QED
    BY <1>3, <2>2, <2>8 DEF Matches, after
<1> QED
  BY <1>4, <1>5, <1>6

\* So they agree behind the whole file.
LEMMA LoopMatches ==
    ASSUME PlainFiles, BasedFiles, HexFile \in Files, reader \in Readers,
           FlattenSeq(packets) = Given(HexFile), NEW base \in Nat
    PROVE  LET v == VerifyLoop(base)
           IN  Matches(Device, v) /\ v.min \in Nat /\ v.max \in Nat
<1> DEFINE c == CountedLines(HexFile)
           loop == VerifyLoop(base)
<1>1. PlainFile(HexFile) /\ HexFile.lines[1].kind # "data"
  BY DEF PlainFiles, BasedFiles
<1>2. c \in Nat /\ c > 0 /\ c \in Int /\ 0 \in Int /\ c \in 0..c /\ Len(HexFile.lines) > 0
      /\ Len(HexFile.lines) \in Nat
  BY FileFacts
<1>3. PICK g \in [0..c -> Devices] :
        /\ g[0] = EmptyDevice
        /\ \A i \in 1..c : g[i] = DeviceStep(g[i - 1], Given(HexFile)[i])
        /\ Device = g[c]
  BY <1>1, DeviceChooses, Zenon
<1>4. PICK h \in [0..c -> Loops(HexFile)] :
        /\ h[0] = Unread(base)
        /\ \A i \in 1..c : Follows(h[i - 1], h[i], LineGiven(HexFile, i))
        /\ /\ ReadTo(HexFile, loop.reader, c)
           /\ loop.reader.HexCurrLineNo = reader.HexCurrLineNo + c
           /\ loop.base = h[c].base /\ loop.min = h[c].min /\ loop.max = h[c].max
           /\ loop.image = h[c].image
  BY <1>1, LoopReads, Zenon
<1> HIDE DEF c, loop
<1> DEFINE Good == {i \in 0..c : Matches(g[i], h[i]) /\ (i > 0 => g[i].base = h[i].base)}
<1>5. 0 \in Good
  <2>1. /\ g[0].flash = Blank /\ g[0].written = {}
    BY <1>3 DEF EmptyDevice
  <2>2. h[0].image = Blank
    BY <1>4 DEF Unread
  <2>3. Matches(g[0], h[0])
    BY <2>1, <2>2 DEF Matches
  <2> QED
    BY <1>2, <2>3
<1>6. ASSUME NEW i \in (0 + 1)..c, i - 1 \in Good PROVE i \in Good
  <2> DEFINE d == g[i - 1]
             v == h[i - 1]
             new == h[i]
             record == Given(HexFile)[i]
             line == LineGiven(HexFile, i)
  <2>1. i \in 1..c /\ i \in 0..c /\ i - 1 \in 0..c
    BY <1>2
  <2>2. /\ record \in Records /\ line = record.line
        /\ line.kind \in {"data", "ext", "eof"} /\ line.at \in Nat /\ line.len \in Nat
    BY <1>1, <2>1, GivenRecord DEF c
  <2>3. line.kind = "data" => d.base = v.base
    <3>1. CASE i = 1
      <4>1. line = HexFile.lines[1]
        <5>1. 1 <= Len(HexFile.lines)
          BY <1>2
        <5> QED
          BY <3>1, <5>1, Zenon DEF LineGiven
      <4> QED
        BY <1>1, <4>1
    <3>2. CASE i # 1
      <4>1. i - 1 > 0
        BY <2>1, <3>2
      <4> QED
        BY <1>6, <4>1
    <3> QED
      BY <3>1, <3>2
  <2>4. d \in Devices /\ v \in Loops(HexFile) /\ new \in Loops(HexFile)
        /\ Follows(v, new, line)
    BY <1>4, <2>1
  <2>5. Matches(d, v)
    BY <1>6
  <2>6. g[i] = DeviceStep(d, record)
    BY <1>3, <2>1
  <2> HIDE DEF d, v, new, record, line
  <2>7. /\ Matches(DeviceStep(d, record), new)
        /\ DeviceStep(d, record).base = new.base
    BY <2>2, <2>3, <2>4, <2>5, RecordMatches
  <2> QED
    BY <2>1, <2>6, <2>7 DEF new
<1> HIDE DEF Good
<1>7. \A i \in 0..c : i \in Good
  BY <1>2, <1>5, <1>6, IntervalInduction, Zenon
<1>8. Matches(g[c], h[c])
  BY <1>2, <1>7 DEF Good
<1>9. Matches(Device, loop)
  BY <1>3, <1>4, <1>8 DEF Matches
<1>10. loop.min \in Nat /\ loop.max \in Nat
  BY <1>2, <1>4 DEF Loops
<1> QED
  BY <1>9, <1>10 DEF loop

\* Rounding the ends of the range to words only widens it.
LEMMA AlignedWidens ==
    ASSUME NEW min \in Nat, NEW max \in Nat
    PROVE  LET range == Aligned(min, max)
           IN  min..(max - 1) \subseteq
                   range.start..(range.start + (range.end - range.start) - 1)
<1> DEFINE low == min % 4
           high == max % 4
<1>1. low \in Nat /\ high \in Nat
  OBVIOUS
<1>2. Aligned(min, max) = [start |-> min - low, end |-> max + high]
  BY DEF Aligned
<1> HIDE DEF low, high
<1>3. min..(max - 1) \subseteq (min - low)..((min - low) + ((max + high) - (min - low)) - 1)
  BY <1>1
<1> QED
  BY <1>2, <1>3

LEMMA VerifyMatches ==
    ASSUME PlainFiles, BasedFiles, TypeInv, FileInv, [Next]_vars,
           completed, verified' # verified
    PROVE  /\ Device.written \subseteq
                  verified'.start..(verified'.start + verified'.len - 1)
           /\ verified'.crc = Region(Device.flash, verified'.start, verified'.len)
<1>1. VerifyFlash
  BY DEF Next, vars, LoadHexFile, LoadFails, ProgramFlash, ProgramNext, ProgramFails,
         VerifyCrashes
<1>2. /\ HexFile \in Files /\ reader \in Readers /\ FlattenSeq(packets) = Given(HexFile)
  BY ReaderFacts DEF FileInv
<1>3. PICK base \in GarbageBase :
        LET v == VerifyLoop(base)
            range == Aligned(v.min, v.max)
            len == range.end - range.start
        IN  verified' = [start |-> range.start, len |-> len,
                         crc |-> Region(v.image, range.start, len)]
  BY <1>1, Zenon DEF VerifyFlash
<1> DEFINE v == VerifyLoop(base)
           range == Aligned(v.min, v.max)
           len == range.end - range.start
<1>4. Matches(Device, v) /\ v.min \in Nat /\ v.max \in Nat
  BY <1>2, GarbageAssumption, LoopMatches
<1> HIDE DEF v
<1>5. v.min..(v.max - 1) \subseteq range.start..(range.start + len - 1)
  BY <1>4, AlignedWidens
<1>6. verified' = [start |-> range.start, len |-> len,
                   crc |-> Region(v.image, range.start, len)]
  BY <1>3, Zenon DEF v
<1> HIDE DEF range, len
<1>7. /\ verified'.start = range.start /\ verified'.len = len
      /\ verified'.crc = Region(v.image, range.start, len)
  BY <1>6
<1>8. Device.written \subseteq range.start..(range.start + len - 1)
  BY <1>4, <1>5, Zenon DEF Matches
<1>9. Device.flash = v.image
  BY <1>4 DEF Matches
<1> QED
  BY <1>7, <1>8, <1>9, Zenon

\* A successful verification can be trusted: for every plain file that sets
\* its base before its first data record, wherever Boot and the end of flash
\* are and whatever the extended address is before it is set, the range that
\* is checked after programming holds every byte that was written, and the
\* CRC expected of it is that of the device's flash.
THEOREM VerificationMatches ==
    PlainFiles /\ BasedFiles => (Spec => VerifyMatchesDevice)
<1> SUFFICES ASSUME PlainFiles, BasedFiles PROVE Spec => VerifyMatchesDevice
  OBVIOUS
<1>1. TypeInv /\ FileInv /\ [Next]_vars =>
          [(completed /\ verified' # verified) =>
               /\ Device.written \subseteq
                      verified'.start..(verified'.start + verified'.len - 1)
               /\ verified'.crc = Region(Device.flash, verified'.start, verified'.len)]_vars
  BY VerifyMatches
<1> QED
  BY <1>1, FileInvHolds, PTL DEF Spec, VerifyMatchesDevice

-----------------------------------------------------------------------------
(***************************************************************************)
(* The file is a number of packets, taken one by one.                      *)
(***************************************************************************)

\* Progress of a reader behind record k.
ProgressAt(f, k) == IF k = CountedLines(f) THEN Len(f.lines) + 2 ELSE k + 1

\* The records behind which the first packets of a file end; all its packets;
\* and what packetEnds holds of them.
Chain(f, ends) ==
    \A i \in 1..Len(ends) :
        /\ ends[i] \in 1..CountedLines(f)
        /\ i = 1 => ends[i] = Ahead(f, 0, BatchSize)
        /\ i > 1 => /\ ends[i - 1] < CountedLines(f)
                    /\ ends[i] = Ahead(f, ends[i - 1], BatchSize)
Whole(f, ends) ==
    Chain(f, ends) /\ Len(ends) > 0 /\ ends[Len(ends)] = CountedLines(f)
Marks(f, ends) == [i \in 1..Len(ends) |-> ProgressAt(f, ends[i])]

LEMMA ProgressFacts ==
    ASSUME NEW f \in Files, NEW r, NEW k, ReadTo(f, r, k)
    PROVE  Progress(r) = ProgressAt(f, k)
<1>1. /\ Len(f.lines) \in Nat /\ k \in Nat
  BY FileFacts, ReadToFacts
<1>2. /\ r.feof <=> k = CountedLines(f)
      /\ r.next = IF k = CountedLines(f) THEN Len(f.lines) + 1 ELSE k + 1
  BY DEF ReadTo
<1>3. CASE k = CountedLines(f)
  <2>1. Progress(r) = (Len(f.lines) + 1) + 1
    BY <1>2, <1>3, Zenon DEF Progress
  <2>2. ProgressAt(f, k) = Len(f.lines) + 2
    BY <1>3, Zenon DEF ProgressAt
  <2> QED
    BY <1>1, <2>1, <2>2
<1>4. CASE k # CountedLines(f)
  <2>1. Progress(r) = (k + 1) + 0
    BY <1>2, <1>4, Zenon DEF Progress
  <2>2. ProgressAt(f, k) = k + 1
    BY <1>4, Zenon DEF ProgressAt
  <2> QED
    BY <1>1, <2>1, <2>2
<1> QED
  BY <1>3, <1>4

LEMMA ProgressGrows ==
    ASSUME NEW f \in Files, NEW j \in 1..CountedLines(f), NEW k \in 1..CountedLines(f)
    PROVE  /\ ProgressAt(f, j) \in Nat
           /\ j < k => ProgressAt(f, j) < ProgressAt(f, k)
<1>1. /\ Len(f.lines) \in Nat /\ f.terminated \in BOOLEAN
      /\ CountedLines(f) = IF f.terminated THEN Len(f.lines) + 1 ELSE Len(f.lines)
  BY FileFacts
<1>2. CountedLines(f) \in Nat /\ CountedLines(f) <= Len(f.lines) + 1
  BY <1>1
<1> QED
  BY <1>1, <1>2 DEF ProgressAt

LEMMA ChainGrows ==
    ASSUME NEW f \in Files, NEW ends \in Seq(Nat), Chain(f, ends),
           NEW i \in 1..Len(ends), NEW j \in 1..Len(ends), i < j
    PROVE  ends[i] < ends[j]
<1> DEFINE c == CountedLines(f)
           n == Len(ends)
           Good == {l \in (i + 1)..n : ends[i] < ends[l]}
<1>1. /\ c \in Nat /\ n \in Nat /\ n \in Int /\ i + 1 \in Int /\ i \in Int
      /\ BatchSize \in Nat /\ BatchSize > 0
  BY FileFacts, BatchAssumption
<1>2. ASSUME NEW l \in 1..n, l > 1 PROVE ends[l - 1] < ends[l] /\ ends[l - 1] \in Nat /\ ends[l] \in Nat
  <2>1. /\ ends[l - 1] < c /\ ends[l] = Ahead(f, ends[l - 1], BatchSize)
    BY <1>2 DEF Chain
  <2>2. l - 1 \in 1..n
    BY <1>1, <1>2
  <2>3. ends[l - 1] \in Nat /\ ends[l] \in Nat
    BY <2>2
  <2> QED
    BY <1>1, <2>1, <2>3 DEF Ahead
<1>3. i + 1 <= n => i + 1 \in Good
  <2> SUFFICES ASSUME i + 1 <= n PROVE i + 1 \in Good
    OBVIOUS
  <2>1. i + 1 \in 1..n /\ i + 1 > 1 /\ (i + 1) - 1 = i /\ i + 1 \in (i + 1)..n
    BY <1>1
  <2>2. ends[(i + 1) - 1] < ends[i + 1]
    BY <1>2, <2>1
  <2> QED
    BY <2>1, <2>2
<1>4. ASSUME NEW l \in ((i + 1) + 1)..n, l - 1 \in Good PROVE l \in Good
  <2>1. l \in 1..n /\ l > 1 /\ l \in (i + 1)..n
    BY <1>1
  <2>2. ends[l - 1] < ends[l] /\ ends[l - 1] \in Nat /\ ends[l] \in Nat
    BY <1>2, <2>1
  <2>3. ends[i] < ends[l - 1] /\ ends[i] \in Nat
    BY <1>4
  <2> QED
    BY <2>1, <2>2, <2>3
<1> HIDE DEF Good
<1>5. \A l \in (i + 1)..n : l \in Good
  BY <1>1, <1>3, <1>4, IntervalInduction, Zenon
<1>6. j \in (i + 1)..n
  BY <1>1
<1> QED
  BY <1>5, <1>6 DEF Good

\* How many packets the engine sees as taken.
CountTaken(marks, r) == Cardinality({i \in DOMAIN marks : marks[i] <= Progress(r)})

\* The packets a reader has come behind are counted by what packetEnds holds.
LEMMA PacketsCounted ==
    ASSUME NEW f \in Files, NEW ends \in Seq(Nat), Chain(f, ends),
           NEW m \in 1..Len(ends), NEW r, ReadTo(f, r, ends[m])
    PROVE  LET marks == Marks(f, ends)
           IN  /\ Len(marks) = Len(ends)
               /\ CountTaken(marks, r) = m
<1> DEFINE n == Len(ends)
           marks == Marks(f, ends)
<1>1. n \in Nat /\ DOMAIN marks = 1..n /\ \A i \in 1..n : marks[i] = ProgressAt(f, ends[i])
  BY DEF Marks
<1>2. Len(marks) = n
  BY DEF Marks
<1> HIDE DEF marks
<1>3. Progress(r) = ProgressAt(f, ends[m])
  BY ProgressFacts
<1>4. ASSUME NEW i \in 1..n PROVE marks[i] <= Progress(r) <=> i <= m
  <2>1. ends[i] \in 1..CountedLines(f) /\ ends[m] \in 1..CountedLines(f)
    BY DEF Chain
  <2>2. ProgressAt(f, ends[i]) \in Nat /\ ProgressAt(f, ends[m]) \in Nat
    BY <2>1, ProgressGrows
  <2>3. CASE i < m
    <3>1. ends[i] < ends[m]
      BY <2>3, ChainGrows
    <3>2. ProgressAt(f, ends[i]) < ProgressAt(f, ends[m])
      BY <2>1, <3>1, ProgressGrows
    <3> QED
      BY <1>1, <1>3, <2>2, <2>3, <3>2
  <2>4. CASE i = m
    BY <1>1, <1>3, <2>2, <2>4
  <2>5. CASE i > m
    <3>1. ends[m] < ends[i]
      BY <2>5, ChainGrows
    <3>2. ProgressAt(f, ends[m]) < ProgressAt(f, ends[i])
      BY <2>1, <3>1, ProgressGrows
    <3> QED
      BY <1>1, <1>3, <2>2, <2>5, <3>2
  <2> QED
    BY <1>1, <2>3, <2>4, <2>5
<1>5. {i \in DOMAIN marks : marks[i] <= Progress(r)} = 1..m
  BY <1>1, <1>4
<1>6. Cardinality(1..m) = m
  <2>1. m \in Nat
    BY <1>1
  <2>2. Cardinality(1..m) = IF 1 > m THEN 0 ELSE m - 1 + 1
    BY <2>1, FS_Interval
  <2> QED
    BY <1>1, <2>2
<1> QED
  BY <1>2, <1>5, <1>6 DEF CountTaken, marks

\* What PacketEnds chooses: the reader and the ends after each round.
Reads(f) == [reader : ReadersOf(f), ends : Seq(Nat)]
EndsBody(h, f) ==
    [i \in 0..CountedLines(f) |->
        IF i = 0 THEN [reader |-> Rewound(reader), ends |-> << >>] ELSE NextEnd(f, h[i - 1])]

LEMMA NextEndTyped ==
    ASSUME NEW f \in Files, NEW read \in Reads(f)
    PROVE  NextEnd(f, read) \in Reads(f)
<1> DEFINE batch == Batch(f, read.reader)
           longer == Append(read.ends, Progress(batch.reader))
<1>1. read.reader \in ReadersOf(f) /\ read.ends \in Seq(Nat)
  BY DEF Reads
<1>2. /\ batch.reader \in ReadersOf(f) /\ batch.reader.next \in Nat
      /\ batch.reader.feof \in BOOLEAN
  BY <1>1, PacketTyped DEF Readers
<1>3. NextEnd(f, read) = IF batch.records = << >> THEN read
                         ELSE [reader |-> batch.reader, ends |-> longer]
  BY Zenon DEF NextEnd
<1> HIDE DEF batch
<1>4. Progress(batch.reader) \in Nat
  BY <1>2 DEF Progress
<1>5. longer \in Seq(Nat)
  BY <1>1, <1>4
<1> HIDE DEF longer
<1> QED
  BY <1>2, <1>3, <1>5 DEF Reads

LEMMA EndsChoose ==
    ASSUME NEW f \in Files, reader \in Readers
    PROVE  \E h \in [0..CountedLines(f) -> Reads(f)] :
               /\ h[0] = [reader |-> Rewound(reader), ends |-> << >>]
               /\ \A i \in 1..CountedLines(f) : h[i] = NextEnd(f, h[i - 1])
               /\ PacketEnds(f) = h[CountedLines(f)].ends
<1> DEFINE c == CountedLines(f)
           none == [reader |-> Rewound(reader), ends |-> << >>]
           step == [p \in ((0 + 1)..c) \X Reads(f) |-> NextEnd(f, p[2])]
<1>1. c \in Nat /\ c \in Int /\ 0 \in Int /\ 0 <= c /\ c \in 0..c
  BY FileFacts
<1>2. none \in Reads(f)
  BY RewoundTyped DEF Reads
<1>3. step \in [((0 + 1)..c) \X Reads(f) -> Reads(f)]
  BY NextEndTyped
<1>4. \A i \in (0 + 1)..c, read \in Reads(f) : step[<<i, read>>] = NextEnd(f, read)
  OBVIOUS
<1> HIDE DEF step, c, none
<1>5. PICK g \in [0..c -> Reads(f)] : Recursive(g, 0, c, none, step)
  BY <1>1, <1>2, <1>3, RecursionOnInterval, Zenon
<1>6. g[0] = none
  BY <1>5 DEF Recursive
<1>7. \A i \in 1..c : g[i] = NextEnd(f, g[i - 1])
  <2> TAKE i \in 1..c
  <2>1. i \in (0 + 1)..c /\ i - 1 \in 0..c
    BY <1>1
  <2>2. g[i] = step[<<i, g[i - 1]>>] /\ g[i - 1] \in Reads(f)
    BY <1>5, <2>1 DEF Recursive
  <2> QED
    BY <1>4, <2>1, <2>2
<1>8. g = EndsBody(g, f)
  <2>1. \A i \in 0..c : g[i] = IF i = 0 THEN none ELSE NextEnd(f, g[i - 1])
    <3> TAKE i \in 0..c
    <3>1. i = 0 \/ (i # 0 /\ i \in 1..c)
      BY <1>1
    <3> QED
      BY <1>6, <1>7, <3>1
  <2> QED
    BY <1>1, <2>1 DEF EndsBody, none, c
<1> DEFINE chosen == CHOOSE h : h = EndsBody(h, f)
<1>9. chosen = EndsBody(chosen, f)
  BY <1>8, Zenon
<1>10. PacketEnds(f) = chosen[c].ends
  BY Zenon DEF PacketEnds, EndsBody, c
<1> HIDE DEF chosen
<1>11. \A i \in 0..c : chosen[i] = g[i]
  <2> DEFINE Same == {i \in 0..c : chosen[i] = g[i]}
  <2>1. 0 \in Same
    BY <1>1, <1>6, <1>9 DEF EndsBody, none, c
  <2>2. ASSUME NEW i \in (0 + 1)..c, i - 1 \in Same PROVE i \in Same
    <3>1. i \in 0..c /\ i \in 1..c /\ i # 0 /\ chosen[i - 1] = g[i - 1]
      BY <1>1, <2>2
    <3>2. chosen[i] = NextEnd(f, chosen[i - 1])
      BY <1>9, <3>1 DEF EndsBody, c
    <3>3. g[i] = NextEnd(f, g[i - 1])
      BY <1>7, <3>1
    <3> QED
      BY <3>1, <3>2, <3>3
  <2> HIDE DEF Same
  <2>3. \A i \in 0..c : i \in Same
    BY <1>1, <2>1, <2>2, IntervalInduction, Zenon
  <2> QED
    BY <2>3 DEF Same
<1>12. PacketEnds(f) = g[c].ends
  BY <1>1, <1>10, <1>11
<1> QED
  BY <1>6, <1>7, <1>12 DEF c, none

\* The rounds of PacketEnds: behind every packet counted so far.
Position(ends) == IF Len(ends) = 0 THEN 0 ELSE ends[Len(ends)]
Packed(f, read, ends) ==
    /\ ends \in Seq(Nat) /\ Chain(f, ends)
    /\ read.ends = Marks(f, ends)
    /\ ReadTo(f, read.reader, Position(ends))

\* One packet more.
LEMMA ChainAppend ==
    ASSUME NEW f \in Files, NEW ends \in Seq(Nat), Chain(f, ends),
           NEW k, k = Position(ends), k < CountedLines(f)
    PROVE  LET next == Ahead(f, k, BatchSize)
               longer == Append(ends, next)
           IN  /\ longer \in Seq(Nat) /\ Chain(f, longer) /\ Position(longer) = next
               /\ next \in Nat /\ next > k
               /\ Marks(f, longer) = Append(Marks(f, ends), ProgressAt(f, next))
<1> DEFINE c == CountedLines(f)
           n == Len(ends)
           next == Ahead(f, k, BatchSize)
           longer == Append(ends, next)
<1>1. c \in Nat /\ n \in Nat /\ BatchSize \in Nat /\ BatchSize > 0 /\ Len(f.lines) \in Nat
  BY FileFacts, BatchAssumption
<1>2. k \in Nat /\ (n = 0 => k = 0) /\ (n > 0 => k = ends[n])
  <2>1. CASE n = 0
    BY <1>1, <2>1 DEF Position
  <2>2. CASE n # 0
    <3>1. n \in 1..n
      BY <1>1, <2>2
    <3> QED
      BY <1>1, <2>2, <3>1 DEF Position
  <2> QED
    BY <2>1, <2>2
<1>3. next \in 1..c /\ next > k /\ next \in Nat
  BY <1>1, <1>2 DEF Ahead
<1> HIDE DEF next
<1>4. /\ longer \in Seq(Nat) /\ Len(longer) = n + 1 /\ longer[n + 1] = next
      /\ \A i \in 1..n : longer[i] = ends[i]
  BY <1>3, AppendProperties
<1> HIDE DEF longer, c
<1>5. Position(longer) = next
  BY <1>1, <1>4 DEF Position
<1>6. Chain(f, longer)
  <2> SUFFICES ASSUME NEW i \in 1..(n + 1)
               PROVE  /\ longer[i] \in 1..c
                      /\ i = 1 => longer[i] = Ahead(f, 0, BatchSize)
                      /\ i > 1 => /\ longer[i - 1] < c
                                  /\ longer[i] = Ahead(f, longer[i - 1], BatchSize)
    BY <1>4 DEF Chain, c
  <2>1. CASE i = n + 1
    <3>1. CASE n = 0
      BY <1>2, <1>3, <1>4, <2>1, <3>1 DEF next
    <3>2. CASE n > 0
      <4>1. i > 1 /\ i - 1 = n /\ n \in 1..n
        BY <1>1, <2>1, <3>2
      <4>2. longer[i - 1] = k
        BY <1>2, <1>4, <3>2, <4>1
      <4>3. k < c
        BY DEF c
      <4> QED
        BY <1>3, <1>4, <2>1, <4>1, <4>2, <4>3 DEF next
    <3> QED
      BY <1>1, <3>1, <3>2
  <2>2. CASE i # n + 1
    <3>1. i \in 1..n /\ (i > 1 => i - 1 \in 1..n)
      BY <1>1, <2>2
    <3>2. longer[i] = ends[i] /\ (i > 1 => longer[i - 1] = ends[i - 1])
      BY <1>4, <3>1
    <3> QED
      BY <3>1, <3>2 DEF Chain, c
  <2> QED
    BY <2>1, <2>2
<1>7. Marks(f, longer) = Append(Marks(f, ends), ProgressAt(f, next))
  <2> DEFINE mark == ProgressAt(f, next)
             old == Marks(f, ends)
             new == Marks(f, longer)
             more == Append(old, mark)
  <2>1. mark \in Nat
    BY <1>1, <1>3 DEF ProgressAt
  <2>2. old \in Seq(Nat) /\ Len(old) = n /\ \A i \in 1..n : old[i] = ProgressAt(f, ends[i])
    <3>1. \A i \in 1..n : ProgressAt(f, ends[i]) \in Nat
      BY <1>1 DEF ProgressAt
    <3>2. old \in [1..n -> Nat]
      BY <3>1 DEF Marks
    <3> QED
      BY <1>1, <3>2 DEF Marks
  <2>3. /\ new \in Seq(Nat) /\ Len(new) = n + 1
        /\ \A i \in 1..(n + 1) : new[i] = ProgressAt(f, longer[i])
    <3>1. \A i \in 1..(n + 1) : ProgressAt(f, longer[i]) \in Nat
      BY <1>1, <1>4 DEF ProgressAt
    <3>2. new \in [1..(n + 1) -> Nat]
      BY <1>4, <3>1 DEF Marks
    <3> QED
      BY <1>1, <1>4, <3>2 DEF Marks
  <2> HIDE DEF mark, old, new
  <2>4. /\ more \in Seq(Nat) /\ Len(more) = n + 1 /\ more[n + 1] = mark
        /\ \A i \in 1..n : more[i] = old[i]
    BY <2>1, <2>2, AppendProperties
  <2> HIDE DEF more
  <2>5. ASSUME NEW i \in 1..(n + 1) PROVE new[i] = more[i]
    <3>1. CASE i = n + 1
      BY <1>4, <2>3, <2>4, <3>1 DEF mark
    <3>2. CASE i # n + 1
      <4>1. i \in 1..n
        BY <1>1, <3>2
      <4> QED
        BY <1>4, <2>2, <2>3, <2>4, <4>1
    <3> QED
      BY <3>1, <3>2
  <2>6. new = more
    BY <2>3, <2>4, <2>5
  <2> QED
    BY <2>6, Zenon DEF new, more, old, mark
<1> QED
  BY <1>3, <1>4, <1>5, <1>6, <1>7 DEF next, longer

LEMMA NextEndPacked ==
    ASSUME NEW f \in Files, PlainFile(f), NEW read \in Reads(f), NEW ends,
           Packed(f, read, ends)
    PROVE  /\ Position(ends) = CountedLines(f) => NextEnd(f, read) = read
           /\ Position(ends) < CountedLines(f) =>
                  \E longer : /\ Packed(f, NextEnd(f, read), longer)
                              /\ Position(longer) > Position(ends)
<1> DEFINE k == Position(ends)
           c == CountedLines(f)
           batch == Batch(f, read.reader)
           next == Ahead(f, k, BatchSize)
<1>1. /\ ends \in Seq(Nat) /\ Chain(f, ends) /\ read.ends = Marks(f, ends)
      /\ ReadTo(f, read.reader, k)
  BY DEF Packed
<1>2. k \in Nat /\ c \in Nat
  BY <1>1, ReadToFacts, FileFacts
<1>3. /\ Taken(f, read.reader, k, batch, next)
      /\ batch.records = << >> <=> k = c
  BY <1>1, BatchTaken
<1>4. NextEnd(f, read) = IF batch.records = << >> THEN read
                         ELSE [reader |-> batch.reader,
                               ends |-> Append(read.ends, Progress(batch.reader))]
  BY Zenon DEF NextEnd
<1> HIDE DEF k, c, batch
<1>5. CASE k = c
  BY <1>2, <1>3, <1>4, <1>5 DEF k, c
<1>6. CASE k # c
  <2> SUFFICES ASSUME k < c
               PROVE  \E longer : Packed(f, NextEnd(f, read), longer) /\ Position(longer) > k
    BY <1>6 DEF k, c
  <2> DEFINE longer == Append(ends, next)
  <2>1. /\ longer \in Seq(Nat) /\ Chain(f, longer) /\ Position(longer) = next
        /\ next \in Nat /\ next > k
        /\ Marks(f, longer) = Append(Marks(f, ends), ProgressAt(f, next))
    BY <1>1, ChainAppend DEF k, c
  <2>2. ReadTo(f, batch.reader, next)
    BY <1>3 DEF Taken
  <2>3. Progress(batch.reader) = ProgressAt(f, next)
    BY <2>2, ProgressFacts
  <2> HIDE DEF longer, next
  <2>4. /\ NextEnd(f, read).reader = batch.reader
        /\ NextEnd(f, read).ends = Append(read.ends, Progress(batch.reader))
    BY <1>3, <1>4, <1>6
  <2>5. Packed(f, NextEnd(f, read), longer)
    BY <1>1, <2>1, <2>2, <2>3, <2>4 DEF Packed
  <2> QED
    BY <2>1, <2>5
<1> QED
  BY <1>5, <1>6

\* Every round gains a packet until the file ends, so there are rounds enough.
LEMMA EndsAreWhole ==
    ASSUME NEW f \in Files, PlainFile(f), reader \in Readers
    PROVE  \E ends \in Seq(Nat) : Whole(f, ends) /\ PacketEnds(f) = Marks(f, ends)
<1> DEFINE c == CountedLines(f)
<1>1. c \in Nat /\ c > 0 /\ c \in Int /\ 0 \in Int /\ c \in 0..c
  BY FileFacts
<1>2. PICK h \in [0..c -> Reads(f)] :
        /\ h[0] = [reader |-> Rewound(reader), ends |-> << >>]
        /\ \A i \in 1..c : h[i] = NextEnd(f, h[i - 1])
        /\ PacketEnds(f) = h[c].ends
  BY EndsChoose, Zenon
<1> HIDE DEF c
<1> DEFINE Good == {i \in 0..c : \E ends \in Seq(Nat) :
                                     Packed(f, h[i], ends) /\ Position(ends) >= i}
<1>3. 0 \in Good
  <2> DEFINE none == << >>
  <2>1. none \in Seq(Nat) /\ Len(none) = 0 /\ Marks(f, none) = << >>
    BY DEF Marks
  <2>2. Chain(f, none) /\ Position(none) = 0
    BY <2>1 DEF Chain, Position
  <2> HIDE DEF none
  <2>3. ReadTo(f, Rewound(reader), 0)
    BY ReadToStart
  <2>4. h[0].reader = Rewound(reader) /\ h[0].ends = << >>
    BY <1>2
  <2>5. Packed(f, h[0], none)
    BY <2>1, <2>2, <2>3, <2>4 DEF Packed
  <2>6. Position(none) >= 0 /\ 0 \in 0..c
    BY <1>1, <2>2
  <2> QED
    BY <2>1, <2>5, <2>6, Zenon
<1>4. ASSUME NEW i \in (0 + 1)..c, i - 1 \in Good PROVE i \in Good
  <2>1. i \in 1..c /\ i \in 0..c /\ i - 1 \in 0..c
    BY <1>1
  <2>2. PICK ends \in Seq(Nat) : Packed(f, h[i - 1], ends) /\ Position(ends) >= i - 1
    BY <1>4
  <2>3. h[i] = NextEnd(f, h[i - 1]) /\ h[i - 1] \in Reads(f)
    BY <1>2, <2>1
  <2> DEFINE k == Position(ends)
             read == h[i - 1]
  <2>4. k \in Nat /\ k <= c
    <3>1. ReadTo(f, read.reader, k)
      BY <2>2 DEF Packed
    <3> QED
      BY <3>1, ReadToFacts DEF c
  <2>5. CASE k = c
    <3>1. NextEnd(f, read) = read
      BY <2>2, <2>3, <2>5, NextEndPacked DEF c
    <3>2. Packed(f, h[i], ends)
      BY <2>2, <2>3, <3>1
    <3>3. k >= i
      BY <2>1, <2>5
    <3> QED
      BY <2>1, <3>2, <3>3
  <2>6. CASE k < c
    <3>1. PICK longer : Packed(f, NextEnd(f, read), longer) /\ Position(longer) > k
      BY <2>2, <2>3, <2>6, NextEndPacked DEF c
    <3>2. longer \in Seq(Nat) /\ Position(longer) \in Nat
      <4>1. ReadTo(f, NextEnd(f, read).reader, Position(longer)) /\ longer \in Seq(Nat)
        BY <3>1 DEF Packed
      <4> QED
        BY <4>1, ReadToFacts
    <3>3. Position(longer) >= i
      BY <2>1, <2>2, <2>4, <3>1, <3>2
    <3> QED
      BY <2>1, <2>3, <3>1, <3>2, <3>3
  <2> QED
    BY <1>1, <2>4, <2>5, <2>6
<1> HIDE DEF Good
<1>5. \A i \in 0..c : i \in Good
  BY <1>1, <1>3, <1>4, IntervalInduction, Zenon
<1>6. PICK ends \in Seq(Nat) : Packed(f, h[c], ends) /\ Position(ends) >= c
  BY <1>1, <1>5 DEF Good
<1>7. Position(ends) = c
  <2>1. ReadTo(f, h[c].reader, Position(ends))
    BY <1>6 DEF Packed
  <2>2. Position(ends) \in Nat /\ Position(ends) <= c
    BY <2>1, ReadToFacts DEF c
  <2> QED
    BY <1>1, <1>6, <2>2
<1>8. Len(ends) > 0 /\ ends[Len(ends)] = c
  BY <1>1, <1>7 DEF Position
<1>9. Chain(f, ends) /\ PacketEnds(f) = Marks(f, ends)
  BY <1>2, <1>6 DEF Packed
<1> QED
  BY <1>8, <1>9 DEF Whole, c

\* The engine and the dialog find a reader r behind packet m of the file, with
\* the packets marked in marks.
AtPacket(f, r, marks, m) ==
    \E ends \in Seq(Nat) :
        /\ Whole(f, ends) /\ marks = Marks(f, ends)
        /\ m \in 1..Len(ends) /\ ReadTo(f, r, ends[m])

PacketInv ==
    /\ HexFile = NoFile => packetEnds = << >>
    /\ HexFile # NoFile => \E m \in Nat : AtPacket(HexFile, reader, packetEnds, m)

LEMMA SeenPackets ==
    ASSUME NEW f \in Files, NEW r, NEW marks, NEW m, AtPacket(f, r, marks, m)
    PROVE  /\ CountTaken(marks, r) = m /\ Len(marks) \in Nat
           /\ m \in Nat /\ m <= Len(marks) /\ m > 0
<1>1. PICK ends \in Seq(Nat) :
        /\ Whole(f, ends) /\ marks = Marks(f, ends)
        /\ m \in 1..Len(ends) /\ ReadTo(f, r, ends[m])
  BY DEF AtPacket
<1>2. Chain(f, ends) /\ Len(ends) \in Nat
  BY <1>1 DEF Whole
<1>3. /\ Len(marks) = Len(ends)
      /\ CountTaken(marks, r) = m
  <2>1. Len(Marks(f, ends)) = Len(ends) /\ CountTaken(Marks(f, ends), r) = m
    BY <1>1, <1>2, PacketsCounted
  <2> QED
    BY <1>1, <2>1, Zenon
<1> QED
  BY <1>1, <1>2, <1>3

LEMMA NonePackets ==
    ASSUME NEW r
    PROVE  CountTaken(<< >>, r) = 0 /\ Len(<< >>) = 0
<1>1. {i \in DOMAIN << >> : << >>[i] <= Progress(r)} = {}
  OBVIOUS
<1>2. Cardinality({}) = 0
  BY FS_EmptySet
<1>3. CountTaken(<< >>, r) = 0
  BY <1>1, <1>2, Zenon DEF CountTaken
<1> QED
  BY <1>3

\* A reader at the end of the file is at the end of its last packet.
LEMMA AtLastPacket ==
    ASSUME NEW f \in Files, NEW r, NEW marks, NEW ends \in Seq(Nat), Whole(f, ends),
           marks = Marks(f, ends), ReadTo(f, r, CountedLines(f))
    PROVE  AtPacket(f, r, marks, Len(marks)) /\ Len(marks) \in Nat
<1>1. /\ Len(ends) \in 1..Len(ends) /\ ends[Len(ends)] = CountedLines(f)
      /\ Len(ends) \in Nat
  BY DEF Whole
<1>2. Len(marks) = Len(ends)
  BY <1>1 DEF Marks
<1> QED
  BY <1>1, <1>2 DEF AtPacket

\* The packet behind the first ones, and behind none.
LEMMA TakesPacket ==
    ASSUME NEW f \in Files, PlainFile(f), NEW r, NEW marks, NEW m, AtPacket(f, r, marks, m)
    PROVE  /\ Batch(f, r).records # << >> =>
                  /\ m < Len(marks)
                  /\ AtPacket(f, Batch(f, r).reader, marks, m + 1)
           /\ Batch(f, r).records = << >> => AtPacket(f, Batch(f, r).reader, marks, m)
<1> DEFINE c == CountedLines(f)
           batch == Batch(f, r)
<1>1. PICK ends \in Seq(Nat) :
        /\ Whole(f, ends) /\ marks = Marks(f, ends)
        /\ m \in 1..Len(ends) /\ ReadTo(f, r, ends[m])
  BY DEF AtPacket
<1> DEFINE n == Len(ends)
           k == ends[m]
<1>2. /\ n \in Nat /\ ends[n] = c /\ Chain(f, ends) /\ Len(marks) = n
  BY <1>1 DEF Whole, Marks
<1>3. k \in Nat /\ k <= c /\ c \in Nat /\ BatchSize \in Nat
  BY <1>1, ReadToFacts, FileFacts, BatchAssumption
<1>4. Taken(f, r, k, batch, Ahead(f, k, BatchSize)) /\ (batch.records = << >> <=> k = c)
  BY <1>1, BatchTaken
<1>5. ReadTo(f, batch.reader, Ahead(f, k, BatchSize))
  BY <1>4 DEF Taken
<1> HIDE DEF batch, c
<1>6. CASE k = c
  <2>1. Ahead(f, k, BatchSize) = k
    BY <1>3, <1>6 DEF Ahead, c
  <2>2. AtPacket(f, batch.reader, marks, m)
    BY <1>1, <1>5, <2>1 DEF AtPacket
  <2> QED
    BY <1>4, <1>6, <2>2 DEF batch
<1>7. CASE k # c
  <2>1. m # n
    BY <1>2, <1>7
  <2>2. m < n /\ m + 1 \in 1..n /\ m + 1 > 1 /\ (m + 1) - 1 = m
    BY <1>1, <1>2, <2>1
  <2>3. ends[m + 1] = Ahead(f, ends[(m + 1) - 1], BatchSize)
    BY <1>2, <2>2 DEF Chain
  <2>4. ends[m + 1] = Ahead(f, k, BatchSize)
    BY <2>2, <2>3
  <2>5. AtPacket(f, batch.reader, marks, m + 1)
    BY <1>1, <1>5, <2>2, <2>4 DEF AtPacket
  <2> QED
    BY <1>2, <1>4, <1>7, <2>2, <2>5 DEF batch
<1> QED
  BY <1>6, <1>7

LEMMA TakesFirstPacket ==
    ASSUME NEW f \in Files, PlainFile(f), NEW r, NEW marks, NEW m, AtPacket(f, r, marks, m),
           NEW start, ReadTo(f, start, 0)
    PROVE  AtPacket(f, Batch(f, start).reader, marks, 1)
<1>1. PICK ends \in Seq(Nat) :
        /\ Whole(f, ends) /\ marks = Marks(f, ends)
        /\ m \in 1..Len(ends) /\ ReadTo(f, r, ends[m])
  BY DEF AtPacket
<1>2. 1 \in 1..Len(ends) /\ ends[1] = Ahead(f, 0, BatchSize)
  BY <1>1 DEF Whole, Chain
<1>3. ReadTo(f, Batch(f, start).reader, Ahead(f, 0, BatchSize))
  BY BatchTaken DEF Taken
<1> QED
  BY <1>1, <1>2, <1>3 DEF AtPacket

\* The steps of PacketFile.
LoadsFile ==
    /\ Len(packetEnds') \in Nat /\ CountTaken(packetEnds', reader') = Len(packetEnds')
TakesOne ==
    /\ \E from \in {0, CountTaken(packetEnds, reader)} :
           from < Len(packetEnds) /\ CountTaken(packetEnds', reader') = from + 1
    /\ Len(packetEnds') = Len(packetEnds)
SamePackets ==
    /\ CountTaken(packetEnds', reader') = CountTaken(packetEnds, reader)
    /\ Len(packetEnds') = Len(packetEnds)

LEMMA SeenMoves ==
    ASSUME LoadsFile \/ TakesOne \/ SamePackets
    PROVE  [PacketView!FileNext]_(PacketView!fileVars)
<1>1. CASE LoadsFile
  BY <1>1, Zenon DEF LoadsFile, CountTaken, PacketView!FileNext, PacketView!Load
<1>2. CASE TakesOne
  BY <1>2, Zenon DEF TakesOne, CountTaken, PacketView!FileNext, PacketView!Take
<1>3. CASE SamePackets
  BY <1>3, Zenon DEF SamePackets, CountTaken, PacketView!fileVars
<1> QED
  BY <1>1, <1>2, <1>3

LEMMA LoadMoves ==
    ASSUME PlainFiles, TypeInv, LoadHexFile
    PROVE  PacketInv' /\ LoadsFile
<1>1. PICK f \in Files :
        /\ HexFile' = f
        /\ reader' = [reader EXCEPT !.next = Len(f.lines) + 1, !.feof = TRUE]
        /\ packetEnds' = PacketEnds(f)
  BY DEF LoadHexFile
<1>2. /\ reader \in Readers /\ PlainFile(f) /\ Len(f.lines) + 1 \in Nat /\ f # NoFile
      /\ CountedLines(f) \in Nat
  BY FileFacts DEF TypeInv, PlainFiles
<1>3. reader' = [next |-> Len(f.lines) + 1, feof |-> TRUE, Ascii |-> reader.Ascii,
                 HexCurrLineNo |-> reader.HexCurrLineNo]
  BY <1>1, <1>2, Seeked
<1>4. reader' \in Readers
  BY <1>2, <1>3 DEF Readers
<1>5. reader'.next = Len(f.lines) + 1 /\ reader'.feof = TRUE
  BY <1>3
<1>6. ReadTo(f, reader', CountedLines(f))
  BY <1>2, <1>4, <1>5 DEF ReadTo
<1>7. PICK ends \in Seq(Nat) : Whole(f, ends) /\ PacketEnds(f) = Marks(f, ends)
  BY <1>2, EndsAreWhole
<1> DEFINE marks == PacketEnds(f)
<1>8. AtPacket(f, reader', marks, Len(marks)) /\ Len(marks) \in Nat
  BY <1>6, <1>7, AtLastPacket
<1>9. CountTaken(marks, reader') = Len(marks)
  BY <1>8, SeenPackets
<1> HIDE DEF marks
<1>10. packetEnds' = marks
  BY <1>1 DEF marks
<1>11. LoadsFile
  BY <1>8, <1>9, <1>10 DEF LoadsFile
<1>12. PacketInv'
  BY <1>1, <1>2, <1>8, <1>10 DEF PacketInv
<1> QED
  BY <1>11, <1>12

LEMMA LoadFailsMoves ==
    ASSUME TypeInv, LoadFails
    PROVE  PacketInv' /\ LoadsFile
<1>1. HexFile' = NoFile /\ packetEnds' = << >>
  BY DEF LoadFails
<1>2. CountTaken(<< >>, reader') = 0 /\ Len(<< >>) = 0
  BY NonePackets
<1> QED
  BY <1>1, <1>2 DEF PacketInv, LoadsFile

LEMMA ProgramMoves ==
    ASSUME PlainFiles, TypeInv, PacketInv, ProgramFlash
    PROVE  PacketInv' /\ TakesOne
<1> DEFINE start == ResetHexFilePointer(reader)
<1>1. /\ HexFile \in Files /\ HexFile # NoFile /\ reader \in Readers /\ PlainFile(HexFile)
  BY ReaderFacts DEF ProgramFlash, PlainFiles
<1>2. PICK m \in Nat : AtPacket(HexFile, reader, packetEnds, m)
  BY <1>1 DEF PacketInv
<1>3. ReadTo(HexFile, start, 0)
  BY <1>1, ReadToStart
<1>4. /\ reader' = Batch(HexFile, start).reader
      /\ HexFile' = HexFile /\ packetEnds' = packetEnds
  BY DEF ProgramFlash
<1> HIDE DEF start
<1>5. AtPacket(HexFile, reader', packetEnds, 1)
  BY <1>1, <1>2, <1>3, <1>4, TakesFirstPacket
<1>6. /\ CountTaken(packetEnds, reader') = 1 /\ Len(packetEnds) \in Nat
      /\ 1 <= Len(packetEnds)
  BY <1>1, <1>5, SeenPackets
<1>7. TakesOne
  BY <1>4, <1>6 DEF TakesOne
<1>8. PacketInv'
  BY <1>1, <1>4, <1>5 DEF PacketInv
<1> QED
  BY <1>7, <1>8

LEMMA AnswerMoves ==
    ASSUME PlainFiles, TypeInv, PacketInv, ProgramNext
    PROVE  PacketInv' /\ (TakesOne \/ SamePackets)
<1>1. /\ HexFile \in Files /\ HexFile # NoFile /\ PlainFile(HexFile)
  BY ReaderFacts DEF ProgramNext, PlainFiles, TypeInv
<1>2. PICK m \in Nat : AtPacket(HexFile, reader, packetEnds, m)
  BY <1>1 DEF PacketInv
<1>3. /\ reader' = Batch(HexFile, reader).reader
      /\ HexFile' = HexFile /\ packetEnds' = packetEnds
  BY DEF ProgramNext
<1>4. CountTaken(packetEnds, reader) = m /\ Len(packetEnds) \in Nat
  BY <1>1, <1>2, SeenPackets
<1>5. CASE Batch(HexFile, reader).records = << >>
  <2>1. AtPacket(HexFile, reader', packetEnds, m)
    BY <1>1, <1>2, <1>3, <1>5, TakesPacket
  <2>2. CountTaken(packetEnds, reader') = m
    BY <1>1, <2>1, SeenPackets
  <2>3. SamePackets
    BY <1>3, <1>4, <2>2 DEF SamePackets
  <2>4. PacketInv'
    BY <1>1, <1>3, <2>1 DEF PacketInv
  <2> QED
    BY <2>3, <2>4
<1>6. CASE Batch(HexFile, reader).records # << >>
  <2>1. m < Len(packetEnds) /\ AtPacket(HexFile, reader', packetEnds, m + 1)
    BY <1>1, <1>2, <1>3, <1>6, TakesPacket
  <2>2. CountTaken(packetEnds, reader') = m + 1
    BY <1>1, <2>1, SeenPackets
  <2>3. TakesOne
    BY <1>3, <1>4, <2>1, <2>2 DEF TakesOne
  <2>4. PacketInv'
    BY <1>1, <1>3, <2>1 DEF PacketInv
  <2> QED
    BY <2>3, <2>4
<1> QED
  BY <1>5, <1>6

LEMMA VerifyMoves ==
    ASSUME PlainFiles, TypeInv, PacketInv, VerifyFlash
    PROVE  PacketInv' /\ LoadsFile
<1>1. /\ HexFile \in Files /\ HexFile # NoFile /\ PlainFile(HexFile) /\ reader \in Readers
  BY ReaderFacts DEF VerifyFlash, PlainFiles
<1>2. PICK base \in GarbageBase : reader' = VerifyLoop(base).reader
  BY DEF VerifyFlash
<1>3. base \in Nat
  BY GarbageAssumption
<1>4. ReadTo(HexFile, reader', CountedLines(HexFile))
  BY <1>1, <1>2, <1>3, LoopReads, Zenon
<1>5. HexFile' = HexFile /\ packetEnds' = packetEnds
  BY DEF VerifyFlash
<1>6. PICK ends \in Seq(Nat) : Whole(HexFile, ends) /\ packetEnds = Marks(HexFile, ends)
  BY <1>1 DEF PacketInv, AtPacket
<1>7. AtPacket(HexFile, reader', packetEnds, Len(packetEnds)) /\ Len(packetEnds) \in Nat
  BY <1>1, <1>4, <1>6, AtLastPacket
<1>8. CountTaken(packetEnds, reader') = Len(packetEnds)
  BY <1>1, <1>7, SeenPackets
<1>9. LoadsFile
  BY <1>5, <1>7, <1>8 DEF LoadsFile
<1>10. PacketInv'
  BY <1>1, <1>5, <1>7 DEF PacketInv
<1> QED
  BY <1>9, <1>10

LEMMA FileStepMoves ==
    ASSUME PlainFiles, TypeInv, PacketInv, [Next]_vars
    PROVE  PacketInv' /\ [PacketView!FileNext]_(PacketView!fileVars)
<1>1. CASE ProgramFails \/ VerifyCrashes \/ UNCHANGED vars
  <2>1. HexFile' = HexFile /\ packetEnds' = packetEnds /\ reader' = reader
    BY <1>1 DEF ProgramFails, VerifyCrashes, vars
  <2>2. SamePackets
    BY <2>1 DEF SamePackets
  <2>3. PacketInv'
    BY <2>1 DEF PacketInv
  <2> QED
    BY <2>2, <2>3, SeenMoves
<1>2. CASE LoadHexFile
  BY <1>2, LoadMoves, SeenMoves
<1>3. CASE LoadFails
  BY <1>3, LoadFailsMoves, SeenMoves
<1>4. CASE ProgramFlash
  BY <1>4, ProgramMoves, SeenMoves
<1>5. CASE ProgramNext
  BY <1>5, AnswerMoves, SeenMoves
<1>6. CASE VerifyFlash
  BY <1>6, VerifyMoves, SeenMoves
<1> QED
  BY <1>1, <1>2, <1>3, <1>4, <1>5, <1>6 DEF Next

\* The hex file implements PacketFile, the file of module BootLoader: lines,
\* batches, feof, and what VerifyFlash and LoadHexFile do to the reader show
\* no more than a number of packets that are taken one by one.
THEOREM FileIsImplemented == PlainFiles => (Spec => FileIsPackets)
<1> SUFFICES ASSUME PlainFiles PROVE Spec => FileIsPackets
  OBVIOUS
<1>1. Init => PacketInv /\ PacketView!FileInit
  <2> SUFFICES ASSUME Init PROVE PacketInv /\ PacketView!FileInit
    OBVIOUS
  <2>1. HexFile = NoFile /\ packetEnds = << >>
    BY DEF Init
  <2>2. Len(packetEnds) = 0 /\ CountTaken(packetEnds, reader) = 0
    BY <2>1, NonePackets
  <2> QED
    BY <2>1, <2>2, Zenon DEF PacketInv, CountTaken, PacketView!FileInit
<1>2. TypeInv /\ PacketInv /\ [Next]_vars =>
          PacketInv' /\ [PacketView!FileNext]_(PacketView!fileVars)
  BY FileStepMoves
<1> QED
  BY <1>1, <1>2, InitTyped, StepTyped, PTL
     DEF Spec, FileIsPackets, PacketView!FileSpec
=============================================================================
