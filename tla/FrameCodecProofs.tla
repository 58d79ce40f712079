-------------------------- MODULE FrameCodecProofs --------------------------
(***************************************************************************)
(* The frame codec for any size of RxData, any length of the reads and any *)
(* CRC of two bytes: no byte behind RxData, no answer lost on a quiet      *)
(* line, synchronisation after whatever happened on another.               *)
(***************************************************************************)
EXTENDS FrameCodec, SequenceLemmas

\* What may be in RxData, and the states of the automaton that TypeOK allows.
Contents == {data \in Seq(Byte) : Len(data) <= RxSize - 2}
Decoders == [data : Contents, escape : BOOLEAN, valid : BOOLEAN]

LEMMA EmptyContents == << >> \in Contents /\ Len(<< >>) < RxSize - 2
BY SizesAssumption DEF Contents

\* Limited makes room for the next byte.
LEMMA LimitedFacts ==
    ASSUME NEW rx \in Decoders
    PROVE  /\ Limited(rx) \in Decoders
           /\ Len(Limited(rx).data) < RxSize - 2
<1>1. CASE Len(rx.data) >= RxSize - 2
  <2>1. Limited(rx) = [rx EXCEPT !.data = << >>]
    BY <1>1 DEF Limited
  <2>2. Limited(rx) \in Decoders /\ Limited(rx).data = << >>
    BY <2>1, EmptyContents DEF Decoders
  <2> QED
    BY <2>2, EmptyContents
<1>2. CASE ~(Len(rx.data) >= RxSize - 2)
  <2>1. Limited(rx) = rx
    BY <1>2 DEF Limited
  <2>2. Len(rx.data) \in Nat
    BY DEF Decoders, Contents
  <2> QED
    BY <1>2, <2>1, <2>2, SizesAssumption
<1> QED
  BY <1>1, <1>2

\* Whatever byte comes in whatever state, control or data, escaped or not:
\* no byte is stored behind the end of RxData, and two stay free, which is
\* what the check in front of the switch is for (bootloader.cpp:255).
THEOREM NothingBehindRxData ==
    ASSUME NEW rx \in Decoders, NEW byte \in Byte
    PROVE  /\ Received(rx, byte) \in Decoders
           /\ Len(Received(rx, byte).data) <= RxSize - 2
<1> DEFINE room == Limited(rx)
<1>1. room \in Decoders /\ Len(room.data) < RxSize - 2
  BY LimitedFacts
<1>2. /\ room.data \in Seq(Byte) /\ Len(room.data) \in Nat
      /\ room.escape \in BOOLEAN /\ room.valid \in BOOLEAN
  BY <1>1 DEF Decoders, Contents
<1> HIDE DEF room
<1>3. ASSUME byte \in Special PROVE Control(room, byte) \in Decoders
  <2>1. CASE byte = SOH
    BY <1>1, <2>1, EmptyContents DEF Control, Decoders, SOH, EOT, DLE
  <2>2. CASE byte = EOT
    <3>1. Control(room, byte) = [room EXCEPT !.valid = CrcMatches(room.data)]
      BY <2>2 DEF Control, SOH, EOT, DLE
    <3>2. /\ [room EXCEPT !.valid = TRUE] \in Decoders
          /\ [room EXCEPT !.valid = FALSE] \in Decoders
      BY <1>1 DEF Decoders
    <3>3. CrcMatches(room.data) = TRUE \/ CrcMatches(room.data) = FALSE
      BY DEF CrcMatches
    <3>4. CASE CrcMatches(room.data) = TRUE
      BY <3>1, <3>2, <3>4, Zenon
    <3>5. CASE CrcMatches(room.data) = FALSE
      BY <3>1, <3>2, <3>5, Zenon
    <3> QED
      BY <3>3, <3>4, <3>5
  <2>3. CASE byte = DLE
    <3>1. Control(room, byte) = [room EXCEPT !.escape = TRUE]
      BY <2>3 DEF Control, SOH, EOT, DLE
    <3> QED
      BY <1>1, <3>1 DEF Decoders
  <2> QED
    BY <1>3, <2>1, <2>2, <2>3 DEF Special
<1>4. Data(room, byte) \in Decoders
  <2>1. /\ Append(room.data, byte) \in Seq(Byte)
        /\ Len(Append(room.data, byte)) = Len(room.data) + 1
    BY <1>2
  <2>2. Len(Append(room.data, byte)) <= RxSize - 2
    BY <1>1, <1>2, <2>1, SizesAssumption
  <2>3. Append(room.data, byte) \in Contents
    BY <2>1, <2>2 DEF Contents
  <2> QED
    BY <1>1, <2>3 DEF Data, Decoders
<1>5. Received(rx, byte) \in Decoders
  BY <1>3, <1>4 DEF Received, room
<1> QED
  BY <1>5 DEF Decoders, Contents

-----------------------------------------------------------------------------
(***************************************************************************)
(* The loop over a buffer.                                                 *)
(***************************************************************************)
LEMMA TakenTyped ==
    ASSUME NEW rx \in Decoders, NEW byte \in Byte
    PROVE  Taken(rx, byte) \in Decoders
BY NothingBehindRxData DEF Taken

\* What BuildRxFrame chooses: the decoder after each byte.
BuildBody(f, rx, buff) ==
    [n \in 0..Len(buff) |-> IF n = 0 THEN rx ELSE Taken(f[n - 1], buff[n])]

LEMMA BuildChooses ==
    ASSUME NEW rx \in Decoders, NEW buff \in Seq(Byte)
    PROVE  \E f \in [0..Len(buff) -> Decoders] :
               /\ f = BuildBody(f, rx, buff)
               /\ BuildRxFrame(rx, buff) = f[Len(buff)]
<1> DEFINE n == Len(buff)
           step == [p \in ((0 + 1)..n) \X Decoders |-> Taken(p[2], buff[p[1]])]
<1>1. n \in Nat /\ 0 <= n /\ 0 \in Int /\ n \in Int /\ buff \in [1..n -> Byte]
  OBVIOUS
<1>2. step \in [((0 + 1)..n) \X Decoders -> Decoders]
  <2>1. ASSUME NEW i \in (0 + 1)..n, NEW d \in Decoders
        PROVE  Taken(d, buff[i]) \in Decoders
    <3>1. buff[i] \in Byte
      BY <1>1
    <3> QED
      BY <3>1, TakenTyped
  <2> QED
    BY <2>1
<1>3. \A i \in (0 + 1)..n, d \in Decoders : step[<<i, d>>] = Taken(d, buff[i])
  OBVIOUS
<1> HIDE DEF step
<1>4. PICK g \in [0..n -> Decoders] : Recursive(g, 0, n, rx, step)
  BY <1>1, <1>2, RecursionOnInterval, Zenon
<1>5. g = BuildBody(g, rx, buff)
  <2>1. ASSUME NEW i \in 0..n, i # 0 PROVE g[i] = Taken(g[i - 1], buff[i])
    <3>1. i \in (0 + 1)..n /\ i - 1 \in 0..n
      BY <2>1
    <3>2. g[i] = step[<<i, g[i - 1]>>] /\ g[i - 1] \in Decoders
      BY <1>4, <3>1 DEF Recursive
    <3> QED
      BY <1>3, <3>1, <3>2
  <2>2. g[0] = rx
    BY <1>4 DEF Recursive
  <2>3. \A i \in 0..n : g[i] = IF i = 0 THEN rx ELSE Taken(g[i - 1], buff[i])
    BY <2>1, <2>2
  <2> QED
    BY <2>3 DEF BuildBody
<1> DEFINE chosen == CHOOSE f : f = BuildBody(f, rx, buff)
<1>6. chosen = BuildBody(chosen, rx, buff)
  BY <1>5, Zenon
<1>7. BuildRxFrame(rx, buff) = chosen[n]
  BY Zenon DEF BuildRxFrame, BuildBody
<1> HIDE DEF chosen
<1>8. \A i \in 0..n : chosen[i] = g[i]
  <2> DEFINE Same == {i \in 0..n : chosen[i] = g[i]}
  <2>1. 0 \in Same
    BY <1>1, <1>4, <1>6 DEF BuildBody, Recursive
  <2>2. ASSUME NEW i \in (0 + 1)..n, i - 1 \in Same PROVE i \in Same
    <3>1. i \in 0..n /\ i # 0 /\ chosen[i - 1] = g[i - 1]
      BY <2>2
    <3>2. chosen[i] = Taken(chosen[i - 1], buff[i])
      BY <1>6, <3>1 DEF BuildBody
    <3>3. g[i] = Taken(g[i - 1], buff[i])
      BY <1>5, <3>1 DEF BuildBody
    <3> QED
      BY <3>1, <3>2, <3>3
  <2> HIDE DEF Same
  <2>3. \A i \in 0..n : i \in Same
    BY <1>1, <2>1, <2>2, IntervalInduction, Zenon
  <2> QED
    BY <2>3 DEF Same
<1> QED
  BY <1>1, <1>5, <1>7, <1>8

\* Nothing is written behind RxData, however long the read is.
LEMMA BuildTyped ==
    ASSUME NEW rx \in Decoders, NEW buff \in Seq(Byte)
    PROVE  BuildRxFrame(rx, buff) \in Decoders
<1>1. PICK f \in [0..Len(buff) -> Decoders] : BuildRxFrame(rx, buff) = f[Len(buff)]
  BY BuildChooses, Zenon
<1>2. Len(buff) \in 0..Len(buff)
  OBVIOUS
<1> QED
  BY <1>1, <1>2

LEMMA BuildEmpty ==
    ASSUME NEW rx \in Decoders
    PROVE  BuildRxFrame(rx, << >>) = rx
<1>1. << >> \in Seq(Byte) /\ Len(<< >>) = 0
  OBVIOUS
<1>2. PICK f \in [0..Len(<< >>) -> Decoders] :
        f = BuildBody(f, rx, << >>) /\ BuildRxFrame(rx, << >>) = f[Len(<< >>)]
  BY <1>1, BuildChooses, Zenon
<1>3. f[0] = rx
  BY <1>1, <1>2 DEF BuildBody
<1> QED
  BY <1>1, <1>2, <1>3, Zenon

LEMMA BuildAppend ==
    ASSUME NEW rx \in Decoders, NEW buff \in Seq(Byte), NEW byte \in Byte
    PROVE  BuildRxFrame(rx, Append(buff, byte)) = Taken(BuildRxFrame(rx, buff), byte)
<1> DEFINE longer == Append(buff, byte)
           n == Len(buff)
<1>1. /\ longer \in Seq(Byte)
      /\ n \in Nat /\ n \in Int /\ 0 \in Int /\ Len(longer) = n + 1
      /\ longer[n + 1] = byte
      /\ \A i \in 1..n : longer[i] = buff[i]
  BY AppendProperties
<1> HIDE DEF longer
<1>2. PICK g \in [0..(n + 1) -> Decoders] :
        g = BuildBody(g, rx, longer) /\ BuildRxFrame(rx, longer) = g[n + 1]
  BY <1>1, BuildChooses, Zenon
<1>3. PICK f \in [0..n -> Decoders] :
        f = BuildBody(f, rx, buff) /\ BuildRxFrame(rx, buff) = f[n]
  BY BuildChooses, Zenon
<1> DEFINE Same == {i \in 0..n : g[i] = f[i]}
<1>4. 0 <= n => 0 \in Same
  BY <1>1, <1>2, <1>3 DEF BuildBody
<1>5. ASSUME NEW i \in (0 + 1)..n, i - 1 \in Same PROVE i \in Same
  <2>1. i \in 0..n /\ i \in 1..n /\ i \in 0..(n + 1) /\ i # 0 /\ g[i - 1] = f[i - 1]
    BY <1>5
  <2>2. f[i] = Taken(f[i - 1], buff[i])
    BY <1>3, <2>1 DEF BuildBody
  <2>3. g[i] = Taken(g[i - 1], longer[i])
    BY <1>1, <1>2, <2>1 DEF BuildBody
  <2> QED
    BY <1>1, <2>1, <2>2, <2>3
<1> HIDE DEF Same
<1>6. \A i \in 0..n : i \in Same
  BY <1>1, <1>4, <1>5, IntervalInduction, Zenon
<1>7. g[n] = f[n]
  BY <1>1, <1>6 DEF Same
<1>8. g[n + 1] = Taken(g[n], byte)
  <2>1. n + 1 \in 0..(n + 1) /\ n + 1 # 0 /\ (n + 1) - 1 = n
    BY <1>1
  <2> QED
    BY <1>1, <1>2, <2>1 DEF BuildBody
<1> QED
  BY <1>2, <1>3, <1>7, <1>8 DEF longer

\* Bytes that come in two reads are as good as bytes that come in one.
LEMMA BuildConcat ==
    ASSUME NEW rx \in Decoders, NEW s \in Seq(Byte), NEW t \in Seq(Byte)
    PROVE  BuildRxFrame(rx, s \o t) = BuildRxFrame(BuildRxFrame(rx, s), t)
<1> DEFINE mid == BuildRxFrame(rx, s)
           Good == {u \in Seq(Byte) :
                      BuildRxFrame(rx, s \o u) = BuildRxFrame(mid, u)}
<1>1. mid \in Decoders
  BY BuildTyped
<1>2. << >> \in Good
  <2>1. s \o << >> = s /\ << >> \in Seq(Byte)
    OBVIOUS
  <2>2. BuildRxFrame(rx, s \o << >>) = BuildRxFrame(mid, << >>)
    BY <1>1, <2>1, BuildEmpty, Zenon
  <2> QED
    BY <2>1, <2>2
<1>3. ASSUME NEW u \in Seq(Byte), NEW b \in Byte, u \in Good
      PROVE  Append(u, b) \in Good
  <2>1. /\ s \o Append(u, b) = Append(s \o u, b)
        /\ s \o u \in Seq(Byte) /\ Append(u, b) \in Seq(Byte)
    OBVIOUS
  <2>2. BuildRxFrame(rx, Append(s \o u, b)) = Taken(BuildRxFrame(rx, s \o u), b)
    BY <2>1, BuildAppend
  <2>3. BuildRxFrame(mid, Append(u, b)) = Taken(BuildRxFrame(mid, u), b)
    BY <1>1, BuildAppend
  <2> QED
    BY <1>3, <2>1, <2>2, <2>3
<1> HIDE DEF Good
<1>4. \A u \in Seq(Byte) : u \in Good
  BY <1>2, <1>3, SequenceInduction, Zenon
<1> QED
  BY <1>4 DEF Good

\* Behind a complete frame nothing changes.
LEMMA BuildComplete ==
    ASSUME NEW rx \in Decoders, rx.valid, NEW buff \in Seq(Byte)
    PROVE  BuildRxFrame(rx, buff) = rx
<1> DEFINE Good == {u \in Seq(Byte) : BuildRxFrame(rx, u) = rx}
<1>1. << >> \in Good
  <2>1. << >> \in Seq(Byte)
    OBVIOUS
  <2> QED
    BY <2>1, BuildEmpty
<1>2. ASSUME NEW u \in Seq(Byte), NEW b \in Byte, u \in Good
      PROVE  Append(u, b) \in Good
  <2>1. BuildRxFrame(rx, Append(u, b)) = Taken(rx, b)
    BY <1>2, BuildAppend
  <2> QED
    BY <2>1 DEF Taken
<1> HIDE DEF Good
<1>3. \A u \in Seq(Byte) : u \in Good
  BY <1>1, <1>2, SequenceInduction, Zenon
<1> QED
  BY <1>3 DEF Good

-----------------------------------------------------------------------------
(***************************************************************************)
(* Types.  CalculateCrc returns an unsigned short: two bytes.              *)
(***************************************************************************)
TwoByteCrc ==
    \A data \in Seq(Byte) : Crc(data) \in Seq(Byte) /\ Len(Crc(data)) = 2

\* What Escaped flattens.
EscapedBytes(data) ==
    [i \in DOMAIN data |->
        IF data[i] \in Special THEN <<DLE, data[i]>> ELSE <<data[i]>>]

LEMMA EscapedBytesTyped ==
    ASSUME NEW data \in Seq(Byte)
    PROVE  /\ EscapedBytes(data) \in Seq(Seq(Byte))
           /\ Len(EscapedBytes(data)) = Len(data)
<1> DEFINE n == Len(data)
<1>1. n \in Nat /\ DOMAIN data = 1..n
  OBVIOUS
<1>2. ASSUME NEW i \in 1..n
      PROVE  (IF data[i] \in Special THEN <<DLE, data[i]>> ELSE <<data[i]>>) \in Seq(Byte)
  <2>1. data[i] \in Byte /\ DLE \in Byte
    <3>1. data[i] \in Byte
      OBVIOUS
    <3>2. DLE \in Byte
      BY DEF DLE, Byte
    <3> QED
      BY <3>1, <3>2
  <2>2. <<DLE, data[i]>> \in Seq(Byte) /\ <<data[i]>> \in Seq(Byte)
    BY <2>1
  <2> QED
    BY <2>2
<1>3. EscapedBytes(data) \in [1..n -> Seq(Byte)]
  BY <1>1, <1>2 DEF EscapedBytes
<1>4. DOMAIN EscapedBytes(data) = 1..n
  BY <1>3
<1> QED
  BY <1>1, <1>3, <1>4

LEMMA EscapedTyped ==
    ASSUME NEW data \in Seq(Byte)
    PROVE  Escaped(data) \in Seq(Byte)
BY EscapedBytesTyped, FlattenTyped, Zenon DEF Escaped, EscapedBytes

LEMMA TxPacketTyped ==
    ASSUME TwoByteCrc, NEW data \in Seq(Byte)
    PROVE  TxPacket(data) \in Seq(Byte)
<1>1. data \o Crc(data) \in Seq(Byte)
  BY DEF TwoByteCrc
<1>2. Escaped(data \o Crc(data)) \in Seq(Byte)
  BY <1>1, EscapedTyped
<1>3. <<SOH>> \in Seq(Byte) /\ <<EOT>> \in Seq(Byte)
  BY DEF SOH, EOT, Byte
<1> QED
  BY <1>2, <1>3 DEF TxPacket

LEMMA PaddingTyped ==
    ASSUME NEW packet \in Seq(Byte)
    PROVE  [i \in 1..(ReadSize - Len(packet)) |-> 0] \in Seq(Byte)
<1> DEFINE padding == [i \in 1..(ReadSize - Len(packet)) |-> 0]
<1>1. ReadSize \in Nat /\ Len(packet) \in Nat /\ 0 \in Byte
  BY SizesAssumption DEF Byte
<1>2. CASE ReadSize - Len(packet) \in Nat
  <2>1. padding \in [1..(ReadSize - Len(packet)) -> Byte]
    BY <1>1
  <2> QED
    BY <1>2, <2>1
<1>3. CASE ~(ReadSize - Len(packet) \in Nat)
  <2>1. 1..(ReadSize - Len(packet)) = {}
    BY <1>1, <1>3
  <2>2. padding = << >>
    BY <2>1
  <2>3. << >> \in Seq(Byte)
    OBVIOUS
  <2> QED
    BY <2>2, <2>3, Zenon
<1> QED
  BY <1>2, <1>3

\* A byte, a report or a datagram of the line.
LEMMA OnLineTyped ==
    ASSUME NEW packet \in Seq(Byte), PortSelected \in {"COM", "USB", "ETH"}
    PROVE  OnLine(packet) \in Seq(Seq(Byte))
<1>1. CASE PortSelected = "COM"
  <2>1. \A i \in 1..Len(packet) : <<packet[i]>> \in Seq(Byte)
    OBVIOUS
  <2>2. [i \in DOMAIN packet |-> <<packet[i]>>] \in [1..Len(packet) -> Seq(Byte)]
    BY <2>1
  <2>3. Len(packet) \in Nat
    OBVIOUS
  <2> QED
    BY <1>1, <2>2, <2>3 DEF OnLine
<1>2. CASE PortSelected = "USB"
  <2> DEFINE padding == [i \in 1..(ReadSize - Len(packet)) |-> 0]
  <2>1. padding \in Seq(Byte)
    BY PaddingTyped
  <2>2. <<packet \o padding>> \in Seq(Seq(Byte))
    BY <2>1
  <2> QED
    BY <1>2, <2>2 DEF OnLine
<1>3. CASE PortSelected = "ETH"
  BY <1>3 DEF OnLine
<1> QED
  BY <1>1, <1>2, <1>3

LEMMA ReceiveTyped ==
    ASSUME TypeOK, ReceiveTask
    PROVE  TypeOK'
<1>1. /\ PortSelected \in Ports /\ line \in Seq(Seq(Byte))
      /\ buffer \in Seq(Byte) /\ delivered \in Seq(Seq(Byte))
      /\ sent \in Seq(Responses) /\ discarded \in BOOLEAN
      /\ faults \in 0..MaxFaults
  BY DEF TypeOK
<1>2. Decoder \in Decoders
  BY DEF TypeOK, Decoder, Decoders, Contents
<1>3. PICK n \in 1..Len(line) :
        /\ line' = SubSeq(line, n + 1, Len(line))
        /\ discarded' = (discarded \/ CompleteBefore(n))
        /\ LET read == FlattenSeq(SubSeq(line, 1, n))
               rx == BuildRxFrame(Decoder, read \o Stale(read))
           IN  /\ buffer' = read \o Stale(read)
               /\ RxData' = rx.data
               /\ Escape' = rx.escape
               /\ delivered' = IF rx.valid
                               THEN Append(delivered, SubSeq(rx.data, 1, Len(rx.data) - 2))
                               ELSE delivered
        /\ RxFrameValid' = FALSE
        /\ UNCHANGED <<PortSelected, sent, faults>>
  BY DEF ReceiveTask
<1> DEFINE read == FlattenSeq(SubSeq(line, 1, n))
           rx == BuildRxFrame(Decoder, read \o Stale(read))
<1>4. line' \in Seq(Seq(Byte)) /\ SubSeq(line, 1, n) \in Seq(Seq(Byte))
  <2>1. /\ SubSeq(line, n + 1, Len(line)) \in Seq(Seq(Byte))
        /\ SubSeq(line, 1, n) \in Seq(Seq(Byte))
    BY <1>1
  <2>2. line' = SubSeq(line, n + 1, Len(line))
    BY <1>3
  <2> QED
    BY <2>1, <2>2
<1>5. read \in Seq(Byte)
  BY <1>4, FlattenTyped
<1>6. read \o Stale(read) \in Seq(Byte)
  <2> HIDE DEF read
  <2>1. SubSeq(buffer, Len(read) + 1, Len(buffer)) \in Seq(Byte)
    BY <1>1, <1>5
  <2>2. Stale(read) \in Seq(Byte)
    BY <2>1 DEF Stale
  <2> QED
    BY <1>5, <2>2
<1>7. rx \in Decoders
  BY <1>2, <1>6, BuildTyped
<1>8. /\ buffer' = read \o Stale(read) /\ RxData' = rx.data /\ Escape' = rx.escape
      /\ delivered' = IF rx.valid
                      THEN Append(delivered, SubSeq(rx.data, 1, Len(rx.data) - 2))
                      ELSE delivered
  BY <1>3
<1> HIDE DEF rx, read
<1>9. /\ rx.data \in Seq(Byte) /\ Len(rx.data) <= RxSize - 2
      /\ rx.escape \in BOOLEAN
  BY <1>7 DEF Decoders, Contents
<1>10. SubSeq(rx.data, 1, Len(rx.data) - 2) \in Seq(Byte)
  BY <1>9
<1>11. delivered' \in Seq(Seq(Byte))
  BY <1>1, <1>8, <1>10
<1>12. CompleteBefore(n) \in BOOLEAN
  BY DEF CompleteBefore
<1> QED
  BY <1>1, <1>3, <1>4, <1>6, <1>8, <1>9, <1>11, <1>12 DEF TypeOK

LEMMA FaultTyped ==
    ASSUME TypeOK, Lose \/ Disturb \/ Duplicate \/ Overtake \/ Reconnect
    PROVE  TypeOK'
<1>1. line \in Seq(Seq(Byte)) /\ faults \in 0..MaxFaults /\ MaxFaults \in Nat
  BY BoundsAssumption DEF TypeOK
<1>2. Fault
  BY DEF Lose, Disturb, Duplicate, Overtake, Reconnect
<1>3. line' \in Seq(Seq(Byte))
  <2>1. CASE Lose
    <3>1. PICK i \in DOMAIN line : line' = RemoveAt(line, i)
      BY <2>1 DEF Lose
    <3>2. i \in 1..Len(line)
      BY <1>1, <3>1
    <3>3. /\ SubSeq(line, 1, i - 1) \in Seq(Seq(Byte))
          /\ SubSeq(line, i + 1, Len(line)) \in Seq(Seq(Byte))
      BY <1>1, <3>2
    <3> QED
      BY <3>1, <3>3 DEF RemoveAt
  <2>2. CASE Disturb
    <3>1. PICK i \in DOMAIN line, byte \in NoiseBytes : line' = [line EXCEPT ![i] = <<byte>>]
      BY <2>2 DEF Disturb
    <3>2. i \in 1..Len(line)
      BY <1>1, <3>1
    <3>3. byte \in Byte
      BY <3>1, NoiseAssumption
    <3>4. <<byte>> \in Seq(Byte)
      BY <3>3
    <3> QED
      BY <1>1, <3>1, <3>2, <3>4, ExceptSeq
  <2>3. CASE Duplicate
    <3>1. PICK i \in DOMAIN line : line' = InsertAt(line, i, line[i])
      BY <2>3 DEF Duplicate
    <3>2. i \in 1..Len(line) /\ line[i] \in Seq(Byte)
      BY <1>1, <3>1
    <3>3. /\ SubSeq(line, 1, i - 1) \in Seq(Seq(Byte))
          /\ SubSeq(line, i, Len(line)) \in Seq(Seq(Byte))
          /\ <<line[i]>> \in Seq(Seq(Byte))
      BY <1>1, <3>2
    <3> QED
      BY <3>1, <3>3 DEF InsertAt
  <2>4. CASE Overtake
    <3>1. PICK i \in 2..Len(line) :
            line' = [line EXCEPT ![i] = line[i - 1], ![i - 1] = line[i]]
      BY <2>4 DEF Overtake
    <3>2. /\ i \in 1..Len(line) /\ i - 1 \in 1..Len(line)
          /\ line[i] \in Seq(Byte) /\ line[i - 1] \in Seq(Byte)
      BY <1>1, <3>1
    <3> DEFINE half == [line EXCEPT ![i] = line[i - 1]]
    <3>3. half \in Seq(Seq(Byte)) /\ Len(half) = Len(line)
      BY <1>1, <3>2, ExceptSeq
    <3>4. line' = [half EXCEPT ![i - 1] = line[i]]
      BY <3>1
    <3> HIDE DEF half
    <3> QED
      BY <3>2, <3>3, <3>4, ExceptSeq
  <2>5. CASE Reconnect
    BY <2>5 DEF Reconnect
  <2> QED
    BY <2>1, <2>2, <2>3, <2>4, <2>5
<1>4. faults' \in 0..MaxFaults
  BY <1>1, <1>2 DEF Fault
<1> QED
  BY <1>2, <1>3, <1>4 DEF TypeOK, Fault, decoder

\* No sequence of reads, however the line was disturbed, has a byte written
\* behind RxData, and every field keeps a value of its type.
THEOREM CodecTypeCorrect ==
    ASSUME TwoByteCrc
    PROVE  Spec => []TypeOK
<1>1. Init => TypeOK
  <2>1. << >> \in Seq(Byte) /\ Len(<< >>) <= RxSize - 2
    BY SizesAssumption
  <2>2. /\ << >> \in Seq(Seq(Byte)) /\ << >> \in Seq(Responses)
        /\ 0 \in 0..MaxFaults
    BY BoundsAssumption
  <2> QED
    BY <2>1, <2>2, Zenon DEF Init, TypeOK
<1>2. TypeOK /\ [Next]_vars => TypeOK'
  <2> SUFFICES ASSUME TypeOK, [Next]_vars PROVE TypeOK'
    OBVIOUS
  <2>1. CASE DeviceSends
    <3>1. PICK response \in Responses :
            /\ line' = line \o OnLine(TxPacket(response))
            /\ sent' = Append(sent, response)
      BY <2>1 DEF DeviceSends
    <3>2. TxPacket(response) \in Seq(Byte)
      BY TxPacketTyped, ResponsesAssumption
    <3>3. OnLine(TxPacket(response)) \in Seq(Seq(Byte))
      BY <3>2, OnLineTyped, PortsAssumption DEF TypeOK
    <3>4. line \in Seq(Seq(Byte)) /\ sent \in Seq(Responses)
      BY DEF TypeOK
    <3>5. line' \in Seq(Seq(Byte)) /\ sent' \in Seq(Responses)
      BY <3>1, <3>3, <3>4
    <3> QED
      BY <2>1, <3>5 DEF TypeOK, DeviceSends, decoder
  <2>2. CASE UNCHANGED vars
    BY <2>2 DEF TypeOK, vars, decoder, history
  <2> QED
    BY <2>1, <2>2, ReceiveTyped, FaultTyped DEF Next
<1> QED
  BY <1>1, <1>2, PTL DEF Spec

-----------------------------------------------------------------------------
(***************************************************************************)
(* A whole frame.                                                          *)
(***************************************************************************)

\* HandleResponse looks at a command byte at least, and the frame is shorter
\* than RxData by what the check of the limit wants: it is made before EOT is
\* looked at, too.
ResponsesFit ==
    \A response \in Responses : response # << >> /\ Len(response) + 4 < RxSize

\* Inside a frame, behind the bytes of data.
Inside(data) == [data |-> data, escape |-> FALSE, valid |-> FALSE]

\* The frame is complete.
Complete(response) ==
    [data |-> response \o Crc(response), escape |-> FALSE, valid |-> TRUE]

LEMMA OneByte ==
    ASSUME NEW rx \in Decoders, NEW byte \in Byte
    PROVE  BuildRxFrame(rx, <<byte>>) = Taken(rx, byte)
<1>1. << >> \in Seq(Byte) /\ <<byte>> = Append(<< >>, byte)
  OBVIOUS
<1>2. BuildRxFrame(rx, Append(<< >>, byte)) = Taken(BuildRxFrame(rx, << >>), byte)
  BY <1>1, BuildAppend, Zenon
<1> QED
  BY <1>1, <1>2, BuildEmpty, Zenon

LEMMA InsideTyped ==
    ASSUME NEW data \in Seq(Byte), Len(data) <= RxSize - 2
    PROVE  Inside(data) \in Decoders
BY DEF Inside, Decoders, Contents

\* Decoders, without the limit of their data.
Shapes == [data : Seq(Byte), escape : BOOLEAN, valid : BOOLEAN]

LEMMA DecoderShape == \A rx \in Decoders : rx \in Shapes
BY DEF Decoders, Contents, Shapes

\* What assignments to the fields of a decoder make of it.
LEMMA Updates ==
    ASSUME NEW rx \in Shapes
    PROVE  /\ \A data \in Seq(Byte) : [rx EXCEPT !.data = data]
                  = [data |-> data, escape |-> rx.escape, valid |-> rx.valid]
           /\ \A flag \in BOOLEAN : [rx EXCEPT !.escape = flag]
                  = [data |-> rx.data, escape |-> flag, valid |-> rx.valid]
           /\ \A flag \in BOOLEAN : [rx EXCEPT !.valid = flag]
                  = [data |-> rx.data, escape |-> rx.escape, valid |-> flag]
           /\ \A data \in Seq(Byte), flag \in BOOLEAN :
                  [rx EXCEPT !.data = data, !.escape = flag]
                      = [data |-> data, escape |-> flag, valid |-> rx.valid]
<1>1. \A data \in Seq(Byte) : [rx EXCEPT !.data = data]
          = [data |-> data, escape |-> rx.escape, valid |-> rx.valid]
  BY DEF Shapes
<1>2. \A flag \in BOOLEAN : [rx EXCEPT !.escape = flag]
          = [data |-> rx.data, escape |-> flag, valid |-> rx.valid]
  BY DEF Shapes
<1>3. \A flag \in BOOLEAN : [rx EXCEPT !.valid = flag]
          = [data |-> rx.data, escape |-> rx.escape, valid |-> flag]
  BY DEF Shapes
<1>4. ASSUME NEW data \in Seq(Byte), NEW flag \in BOOLEAN
      PROVE  [rx EXCEPT !.data = data, !.escape = flag]
                 = [data |-> data, escape |-> flag, valid |-> rx.valid]
  <2> DEFINE half == [rx EXCEPT !.data = data]
             both == [rx EXCEPT !.data = data, !.escape = flag]
  <2>1. both = [half EXCEPT !.escape = flag]
    BY Zenon
  <2>2. half = [data |-> data, escape |-> rx.escape, valid |-> rx.valid]
    BY <1>1
  <2>3. half \in Shapes
    BY <2>2 DEF Shapes
  <2> HIDE DEF half
  <2>4. [half EXCEPT !.escape = flag]
            = [data |-> half.data, escape |-> flag, valid |-> half.valid]
    BY <2>3 DEF Shapes
  <2>5. half.data = data /\ half.valid = rx.valid
    BY <2>2
  <2> QED
    BY <2>1, <2>4, <2>5
<1> QED
  BY <1>1, <1>2, <1>3, <1>4

\* SOH begins a frame, whatever was there before.
LEMMA StartTaken ==
    ASSUME NEW rx \in Decoders, ~rx.escape, ~rx.valid
    PROVE  Taken(rx, SOH) = Inside(<< >>)
<1>1. Limited(rx) \in Decoders /\ << >> \in Seq(Byte)
  BY LimitedFacts
<1>2. Limited(rx).escape = FALSE /\ Limited(rx).valid = FALSE
  <2>1. [rx EXCEPT !.data = << >>]
            = [data |-> << >>, escape |-> rx.escape, valid |-> rx.valid]
    BY <1>1, DecoderShape, Updates, Zenon
  <2>2. rx.escape = FALSE /\ rx.valid = FALSE
    BY DEF Decoders
  <2> QED
    BY <2>1, <2>2 DEF Limited
<1>3. [Limited(rx) EXCEPT !.data = << >>] = Inside(<< >>)
  <2>1. [Limited(rx) EXCEPT !.data = << >>]
            = [data |-> << >>, escape |-> Limited(rx).escape, valid |-> Limited(rx).valid]
    BY <1>1, DecoderShape, Updates, Zenon
  <2> QED
    BY <1>2, <2>1, Zenon DEF Inside
<1>4. Control(Limited(rx), SOH) = [Limited(rx) EXCEPT !.data = << >>]
  BY DEF Control, SOH, EOT, DLE
<1>5. Received(rx, SOH) = Control(Limited(rx), SOH)
  BY DEF Received, Special
<1> QED
  BY <1>3, <1>4, <1>5 DEF Taken

LEMMA AppendedInside ==
    ASSUME NEW data \in Seq(Byte), NEW byte \in Byte, NEW flag \in BOOLEAN
    PROVE  Data([data |-> data, escape |-> flag, valid |-> FALSE], byte)
               = Inside(Append(data, byte))
<1> DEFINE rx == [data |-> data, escape |-> flag, valid |-> FALSE]
           longer == Append(data, byte)
<1>1. longer \in Seq(Byte) /\ rx \in Shapes /\ FALSE \in BOOLEAN
  BY DEF Shapes
<1>2. rx.data = data /\ rx.valid = FALSE
  OBVIOUS
<1> HIDE DEF rx, longer
<1>3. [rx EXCEPT !.data = longer, !.escape = FALSE]
          = [data |-> longer, escape |-> FALSE, valid |-> rx.valid]
  BY <1>1, Updates, Zenon
<1>4. [rx EXCEPT !.data = Append(@, byte), !.escape = FALSE]
          = [rx EXCEPT !.data = longer, !.escape = FALSE]
  BY <1>2, Zenon DEF longer
<1> QED
  BY <1>2, <1>3, <1>4, Zenon DEF rx, longer, Data, Inside

\* A byte of the frame, escaped where it has to be, is appended to RxData.
LEMMA EscapedByteTaken ==
    ASSUME NEW data \in Seq(Byte), Len(data) < RxSize - 2, NEW byte \in Byte
    PROVE  BuildRxFrame(Inside(data),
                        IF byte \in Special THEN <<DLE, byte>> ELSE <<byte>>)
               = Inside(Append(data, byte))
<1>1. Inside(data) \in Decoders /\ Len(data) \in Nat
  BY SizesAssumption, InsideTyped
<1>2. Limited(Inside(data)) = Inside(data)
  BY <1>1, SizesAssumption DEF Limited, Inside
<1>3. CASE byte \notin Special
  <2>1. Received(Inside(data), byte) = Data(Inside(data), byte)
    BY <1>2, <1>3 DEF Received
  <2>2. Data(Inside(data), byte) = Inside(Append(data, byte))
    BY AppendedInside DEF Inside
  <2>3. Taken(Inside(data), byte) = Inside(Append(data, byte))
    BY <2>1, <2>2 DEF Taken, Inside
  <2> QED
    BY <1>1, <1>3, <2>3, OneByte
<1>4. CASE byte \in Special
  <2> DEFINE escaping == [data |-> data, escape |-> TRUE, valid |-> FALSE]
  <2>1. DLE \in Byte /\ <<DLE>> \in Seq(Byte) /\ <<DLE, byte>> = Append(<<DLE>>, byte)
    <3>1. DLE \in Byte
      BY DEF DLE, Byte
    <3> QED
      BY <3>1
  <2>2. Taken(Inside(data), DLE) = escaping
    <3>1. Received(Inside(data), DLE) = Control(Inside(data), DLE)
      BY <1>2 DEF Received, Special, Inside
    <3>2. Control(Inside(data), DLE) = [Inside(data) EXCEPT !.escape = TRUE]
      BY DEF Control, SOH, EOT, DLE
    <3>3. [Inside(data) EXCEPT !.escape = TRUE] = escaping
      <4>1. [Inside(data) EXCEPT !.escape = TRUE]
                = [data |-> Inside(data).data, escape |-> TRUE,
                   valid |-> Inside(data).valid]
        BY <1>1, DecoderShape, Updates, Zenon
      <4> QED
        BY <4>1 DEF Inside
    <3> QED
      BY <3>1, <3>2, <3>3 DEF Taken, Inside
  <2>3. Taken(escaping, byte) = Inside(Append(data, byte))
    <3>1. Limited(escaping) = escaping
      BY <1>1, SizesAssumption DEF Limited
    <3>2. Received(escaping, byte) = Data(escaping, byte)
      BY <3>1 DEF Received
    <3>3. Data(escaping, byte) = Inside(Append(data, byte))
      BY AppendedInside
    <3> QED
      BY <3>2, <3>3 DEF Taken
  <2>4. BuildRxFrame(Inside(data), <<DLE>>) = escaping
    BY <1>1, <2>1, <2>2, OneByte
  <2>5. BuildRxFrame(Inside(data), Append(<<DLE>>, byte)) = Taken(escaping, byte)
    BY <1>1, <2>1, <2>4, BuildAppend, Zenon
  <2> QED
    BY <1>4, <2>1, <2>3, <2>5, Zenon
<1> QED
  BY <1>3, <1>4

\* Escaping is undone, and no byte of the content ends the frame.
LEMMA EscapedTaken ==
    ASSUME NEW data \in Seq(Byte), Len(data) <= RxSize - 2
    PROVE  BuildRxFrame(Inside(<< >>), Escaped(data)) = Inside(data)
<1> DEFINE Good == {d \in Seq(Byte) : Len(d) <= RxSize - 2 =>
                      BuildRxFrame(Inside(<< >>), Escaped(d)) = Inside(d)}
<1>1. Inside(<< >>) \in Decoders
  <2>1. << >> \in Seq(Byte) /\ Len(<< >>) <= RxSize - 2
    BY SizesAssumption
  <2> QED
    BY <2>1, InsideTyped, Zenon
<1>2. << >> \in Good
  <2>1. << >> \in Seq(Byte) /\ EscapedBytes(<< >>) = << >>
    BY DEF EscapedBytes
  <2>2. Escaped(<< >>) = << >>
    BY <2>1, FlattenEmpty, Zenon DEF Escaped, EscapedBytes
  <2>3. BuildRxFrame(Inside(<< >>), Escaped(<< >>)) = Inside(<< >>)
    BY <1>1, <2>2, BuildEmpty, Zenon
  <2> QED
    BY <2>1, <2>3
<1>3. ASSUME NEW d \in Seq(Byte), NEW b \in Byte, d \in Good
      PROVE  Append(d, b) \in Good
  <2> SUFFICES ASSUME Len(Append(d, b)) <= RxSize - 2
               PROVE  BuildRxFrame(Inside(<< >>), Escaped(Append(d, b)))
                          = Inside(Append(d, b))
    OBVIOUS
  <2> DEFINE last == IF b \in Special THEN <<DLE, b>> ELSE <<b>>
  <2>1. Len(d) < RxSize - 2 /\ Len(d) <= RxSize - 2
    BY SizesAssumption
  <2>2. last \in Seq(Byte)
    <3>1. DLE \in Byte
      BY DEF DLE, Byte
    <3>2. <<DLE, b>> \in Seq(Byte) /\ <<b>> \in Seq(Byte)
      BY <3>1
    <3> QED
      BY <3>2
  <2>3. EscapedBytes(Append(d, b)) = Append(EscapedBytes(d), last)
    <3> DEFINE longer == Append(d, b)
               n == Len(d)
    <3>1. /\ longer \in Seq(Byte) /\ n \in Nat
          /\ DOMAIN longer = 1..(n + 1) /\ DOMAIN d = 1..n
          /\ longer[n + 1] = b
          /\ \A i \in 1..n : longer[i] = d[i]
      BY AppendProperties
    <3> HIDE DEF longer
    <3>2. /\ EscapedBytes(longer) \in Seq(Seq(Byte))
          /\ Len(EscapedBytes(longer)) = n + 1
      BY <3>1, EscapedBytesTyped
    <3>3. /\ EscapedBytes(d) \in Seq(Seq(Byte))
          /\ Len(EscapedBytes(d)) = n
      BY EscapedBytesTyped
    <3> DEFINE other == Append(EscapedBytes(d), last)
    <3>4. /\ other \in Seq(Seq(Byte)) /\ Len(other) = n + 1
          /\ other[n + 1] = last
          /\ \A i \in 1..n : other[i] = EscapedBytes(d)[i]
      BY <2>2, <3>3, AppendProperties
    <3> HIDE DEF other
    <3>5. ASSUME NEW i \in 1..(n + 1) PROVE EscapedBytes(longer)[i] = other[i]
      <4>1. CASE i = n + 1
        BY <3>1, <3>4, <4>1 DEF EscapedBytes
      <4>2. CASE i # n + 1
        <5>1. i \in 1..n
          BY <4>2, <3>1
        <5> QED
          BY <3>1, <3>4, <5>1 DEF EscapedBytes
      <4> QED
        BY <4>1, <4>2
    <3>6. EscapedBytes(longer) = other
      BY <3>2, <3>4, <3>5, SeqEqual
    <3> QED
      BY <3>6 DEF longer, other
  <2>4. Escaped(Append(d, b)) = Escaped(d) \o last
    <3>1. EscapedBytes(d) \in Seq(Seq(Byte))
      BY EscapedBytesTyped
    <3>2. FlattenSeq(Append(EscapedBytes(d), last)) = FlattenSeq(EscapedBytes(d)) \o last
      BY <2>2, <3>1, FlattenAppend
    <3>3. /\ Escaped(Append(d, b)) = FlattenSeq(EscapedBytes(Append(d, b)))
          /\ Escaped(d) = FlattenSeq(EscapedBytes(d))
      BY Zenon DEF Escaped, EscapedBytes
    <3> QED
      BY <2>3, <3>2, <3>3
  <2> HIDE DEF last
  <2>5. BuildRxFrame(Inside(<< >>), Escaped(d) \o last)
            = BuildRxFrame(BuildRxFrame(Inside(<< >>), Escaped(d)), last)
    BY <1>1, <2>2, EscapedTyped, BuildConcat, Zenon
  <2>6. BuildRxFrame(Inside(d), last) = Inside(Append(d, b))
    BY <2>1, EscapedByteTaken DEF last
  <2>7. BuildRxFrame(Inside(<< >>), Escaped(d)) = Inside(d)
    BY <1>3, <2>1
  <2> QED
    BY <2>4, <2>5, <2>6, <2>7, Zenon
<1> HIDE DEF Good
<1>4. \A d \in Seq(Byte) : d \in Good
  BY <1>2, <1>3, SequenceInduction, Zenon
<1> QED
  BY <1>4 DEF Good

\* A frame up to its EOT.
Opened(response) == <<SOH>> \o Escaped(response \o Crc(response))

LEMMA OpenedFacts ==
    ASSUME TwoByteCrc, NEW response \in Seq(Byte)
    PROVE  /\ Opened(response) \in Seq(Byte)
           /\ TxPacket(response) = Append(Opened(response), EOT)
           /\ EOT \in Byte
<1>1. response \o Crc(response) \in Seq(Byte)
  BY DEF TwoByteCrc
<1>2. Escaped(response \o Crc(response)) \in Seq(Byte)
  BY <1>1, EscapedTyped
<1>3. <<SOH>> \in Seq(Byte) /\ EOT \in Byte
  BY DEF SOH, EOT, Byte
<1>4. Opened(response) \in Seq(Byte)
  BY <1>2, <1>3 DEF Opened
<1> QED
  BY <1>3, <1>4 DEF TxPacket, Opened

\* The bytes of a response are in RxData, and not yet accepted, before EOT.
LEMMA OpenedTaken ==
    ASSUME TwoByteCrc, ResponsesFit, NEW response \in Responses,
           NEW rx \in Decoders, ~rx.escape, ~rx.valid
    PROVE  BuildRxFrame(rx, Opened(response)) = Inside(response \o Crc(response))
<1> DEFINE data == response \o Crc(response)
<1>1. response \in Seq(Byte) /\ Len(response) + 4 < RxSize
  BY ResponsesAssumption DEF ResponsesFit
<1>2. data \in Seq(Byte) /\ Len(data) = Len(response) + 2
  <2>1. Crc(response) \in Seq(Byte) /\ Len(Crc(response)) = 2
    BY <1>1 DEF TwoByteCrc
  <2>2. data \in Seq(Byte) /\ Len(data) = Len(response) + Len(Crc(response))
    BY <1>1, <2>1, ConcatProperties
  <2> QED
    BY <2>1, <2>2
<1>3. Len(data) <= RxSize - 2
  BY <1>1, <1>2, SizesAssumption
<1> HIDE DEF data
<1>4. SOH \in Byte /\ <<SOH>> \in Seq(Byte)
  BY DEF SOH, Byte
<1>5. BuildRxFrame(rx, <<SOH>>) = Inside(<< >>)
  BY <1>4, OneByte, StartTaken
<1>6. BuildRxFrame(rx, <<SOH>> \o Escaped(data))
          = BuildRxFrame(BuildRxFrame(rx, <<SOH>>), Escaped(data))
  BY <1>2, <1>4, EscapedTyped, BuildConcat, Zenon
<1> QED
  BY <1>2, <1>3, <1>5, <1>6, EscapedTaken, Zenon DEF Opened, data

\* Its EOT has it accepted, with the content the device gave it.
LEMMA FrameTaken ==
    ASSUME TwoByteCrc, ResponsesFit, NEW response \in Responses,
           NEW rx \in Decoders, ~rx.escape, ~rx.valid
    PROVE  BuildRxFrame(rx, TxPacket(response)) = Complete(response)
<1> DEFINE data == response \o Crc(response)
           inside == Inside(data)
<1>1. /\ response \in Seq(Byte) /\ Len(response) + 4 < RxSize
      /\ Len(response) \in Nat \ {0}
  BY ResponsesAssumption DEF ResponsesFit
<1>2. /\ data \in Seq(Byte) /\ Len(data) = Len(response) + 2
      /\ Crc(response) \in Seq(Byte) /\ Len(Crc(response)) = 2
  <2>1. Crc(response) \in Seq(Byte) /\ Len(Crc(response)) = 2
    BY <1>1 DEF TwoByteCrc
  <2>2. data \in Seq(Byte) /\ Len(data) = Len(response) + Len(Crc(response))
    BY <1>1, <2>1, ConcatProperties
  <2> QED
    BY <2>1, <2>2
<1>3. CrcMatches(data)
  <2>1. /\ SubSeq(data, 1, Len(data) - 2) = response
        /\ SubSeq(data, Len(data) - 1, Len(data)) = Crc(response)
    BY <1>1, <1>2
  <2>2. Len(data) > 2
    BY <1>1, <1>2
  <2> QED
    BY <2>1, <2>2 DEF CrcMatches
<1>4. BuildRxFrame(rx, Opened(response)) = inside
  BY OpenedTaken
<1>5. BuildRxFrame(rx, TxPacket(response)) = Taken(inside, EOT)
  <2>1. BuildRxFrame(rx, Append(Opened(response), EOT))
            = Taken(BuildRxFrame(rx, Opened(response)), EOT)
    BY <1>1, OpenedFacts, BuildAppend, Zenon
  <2> QED
    BY <1>1, <1>4, <2>1, OpenedFacts, Zenon
<1> HIDE DEF data
<1>6. Limited(inside) = inside
  BY <1>1, <1>2, SizesAssumption DEF Limited, Inside
<1>7. Received(inside, EOT) = Control(inside, EOT)
  BY <1>6 DEF Received, Special, Inside
<1>8. Control(inside, EOT) = [inside EXCEPT !.valid = CrcMatches(data)]
  BY DEF Control, Inside, SOH, EOT, DLE
<1>9. [inside EXCEPT !.valid = TRUE]
          = [data |-> data, escape |-> FALSE, valid |-> TRUE]
  <2>1. inside \in Shapes
    BY <1>2 DEF Inside, Shapes
  <2>2. [inside EXCEPT !.valid = TRUE]
            = [data |-> inside.data, escape |-> inside.escape, valid |-> TRUE]
    BY <2>1, Updates, Zenon
  <2> QED
    BY <2>2 DEF Inside
<1>10. CrcMatches(data) = TRUE
  BY <1>3 DEF CrcMatches
<1>11. ~inside.valid
  BY DEF Inside
<1> QED
  BY <1>5, <1>7, <1>8, <1>9, <1>10, <1>11, Zenon DEF Taken, Complete, data

\* Behind the EOT of a frame the decoder is not in the middle of an escape.
LEMMA FrameSynchronises ==
    ASSUME TwoByteCrc, NEW response \in Seq(Byte), NEW rx \in Decoders
    PROVE  LET once == BuildRxFrame(rx, TxPacket(response))
           IN  once.valid \/ ~once.escape
<1> DEFINE before == BuildRxFrame(rx, Opened(response))
           room == Limited(before)
<1>1. before \in Decoders
  BY OpenedFacts, BuildTyped
<1>2. BuildRxFrame(rx, TxPacket(response)) = Taken(before, EOT)
  <2>1. BuildRxFrame(rx, Append(Opened(response), EOT)) = Taken(before, EOT)
    BY OpenedFacts, BuildAppend, Zenon
  <2> QED
    BY <2>1, OpenedFacts, Zenon
<1> HIDE DEF before
<1>3. room \in Decoders
  BY <1>1, LimitedFacts
<1>4. room.escape = before.escape
  <2>1. [before EXCEPT !.data = << >>]
            = [data |-> << >>, escape |-> before.escape, valid |-> before.valid]
    <3>1. << >> \in Seq(Byte)
      OBVIOUS
    <3> QED
      BY <1>1, <3>1, DecoderShape, Updates, Zenon
  <2> QED
    BY <2>1 DEF Limited
<1> HIDE DEF room
<1>5. CASE before.valid
  BY <1>2, <1>5 DEF Taken
<1>6. CASE ~before.valid /\ before.escape
  <2>1. Received(before, EOT) = Data(room, EOT)
    BY <1>6 DEF Received, room
  <2>2. Append(room.data, EOT) \in Seq(Byte)
    BY <1>1, <1>3, OpenedFacts DEF Decoders, Contents
  <2>3. Data(room, EOT) = [room EXCEPT !.data = Append(room.data, EOT), !.escape = FALSE]
    BY Zenon DEF Data
  <2>4. [room EXCEPT !.data = Append(room.data, EOT), !.escape = FALSE]
            = [data |-> Append(room.data, EOT), escape |-> FALSE, valid |-> room.valid]
    BY <1>3, <2>2, DecoderShape, Updates, Zenon
  <2> QED
    BY <1>2, <1>6, <2>1, <2>3, <2>4 DEF Taken
<1>7. CASE ~before.valid /\ ~before.escape
  <2>1. Received(before, EOT) = [room EXCEPT !.valid = CrcMatches(room.data)]
    BY <1>7 DEF Received, Control, Special, SOH, EOT, DLE, room
  <2>2. CrcMatches(room.data) \in BOOLEAN
    BY DEF CrcMatches
  <2>3. [room EXCEPT !.valid = CrcMatches(room.data)]
            = [data |-> room.data, escape |-> room.escape,
               valid |-> CrcMatches(room.data)]
    BY <1>3, <2>2, DecoderShape, Updates, Zenon
  <2> QED
    BY <1>2, <1>4, <1>7, <2>1, <2>3 DEF Taken
<1> QED
  BY <1>5, <1>6, <1>7

\* An answer that comes twice is accepted at the second time at the latest,
\* from every state the decoder can be in: a byte lost in the middle of an
\* escape or a connection cut off in a frame costs one answer, and the static
\* Escape and the RxData that is never cleared cost no more.
THEOREM SecondAnswerIsTaken ==
    ASSUME TwoByteCrc, ResponsesFit
    PROVE  Spec => []Resynchronises
<1>1. TypeOK => Resynchronises
  <2> SUFFICES ASSUME TypeOK, NEW response \in Responses,
                      ~BuildRxFrame(Decoder, TxPacket(response)).valid
               PROVE  LET once == BuildRxFrame(Decoder, TxPacket(response))
                      IN  /\ BuildRxFrame(once, TxPacket(response)).valid
                          /\ BuildRxFrame(once, TxPacket(response)).data
                                 = response \o Crc(response)
    BY DEF Resynchronises
  <2> DEFINE once == BuildRxFrame(Decoder, TxPacket(response))
  <2>1. Decoder \in Decoders /\ response \in Seq(Byte)
    BY ResponsesAssumption DEF TypeOK, Decoder, Decoders, Contents
  <2>2. once \in Decoders
    BY <2>1, TxPacketTyped, BuildTyped
  <2>3. ~once.escape
    BY <2>1, FrameSynchronises
  <2> HIDE DEF once
  <2>4. ~once.valid
    BY DEF once
  <2>5. BuildRxFrame(once, TxPacket(response)) = Complete(response)
    BY <2>2, <2>3, <2>4, FrameTaken
  <2> QED
    BY <2>5 DEF Complete, once
<1> QED
  BY <1>1, CodecTypeCorrect, PTL

-----------------------------------------------------------------------------
(***************************************************************************)
(* A quiet line: no fault, and no read that went on behind an answer.      *)
(***************************************************************************)

\* The units an answer comes in, and those of several answers.
Units(response) == OnLine(TxPacket(response))
LineOf(responses) == FlattenSeq([i \in DOMAIN responses |-> Units(responses[i])])

\* A decoder that waits for a start of header.
Fresh(rx) == rx \in Decoders /\ ~rx.escape /\ ~rx.valid

\* Nothing is under way.
Waiting == sent = delivered /\ line = << >> /\ ~Escape

\* j units of response are taken, the others and all later answers on the line.
Arriving(response, later, j, rx) ==
    /\ sent = (delivered \o <<response>>) \o later
    /\ j \in 0..(Len(Units(response)) - 1)
    /\ line = SubSeq(Units(response), j + 1, Len(Units(response))) \o LineOf(later)
    /\ Fresh(rx)
    /\ Decoder = BuildRxFrame(rx, FlattenSeq(SubSeq(Units(response), 1, j)))

QuietInv ==
    (faults = 0 /\ ~discarded) =>
        \/ Waiting
        \/ \E response \in Responses, later \in Seq(Responses), j \in Nat, rx \in Decoders :
               Arriving(response, later, j, rx)

LEMMA FlattenOne ==
    ASSUME NEW S, NEW s \in Seq(S)
    PROVE  FlattenSeq(<<s>>) = s
<1>1. << >> \in Seq(Seq(S)) /\ <<s>> = Append(<< >>, s) /\ << >> \o s = s
  OBVIOUS
<1>2. FlattenSeq(Append(<< >>, s)) = FlattenSeq(<< >>) \o s
  BY <1>1, FlattenAppend, Zenon
<1> QED
  BY <1>1, <1>2, FlattenEmpty, Zenon

\* Bytes one by one are the bytes.
LEMMA FlattenBytes ==
    ASSUME NEW S, NEW s \in Seq(S)
    PROVE  FlattenSeq([i \in DOMAIN s |-> <<s[i]>>]) = s
<1> DEFINE Singles(t) == [i \in DOMAIN t |-> <<t[i]>>]
           Good == {t \in Seq(S) : FlattenSeq(Singles(t)) = t}
<1>1. << >> \in Good
  <2>1. << >> \in Seq(S) /\ Singles(<< >>) = << >>
    OBVIOUS
  <2>2. FlattenSeq(Singles(<< >>)) = << >>
    BY <2>1, FlattenEmpty, Zenon
  <2> QED
    BY <2>1, <2>2
<1>2. ASSUME NEW t \in Seq(S), NEW e \in S, t \in Good PROVE Append(t, e) \in Good
  <2> DEFINE longer == Append(t, e)
             n == Len(t)
  <2>1. /\ longer \in Seq(S) /\ n \in Nat
        /\ DOMAIN longer = 1..(n + 1) /\ DOMAIN t = 1..n
        /\ longer[n + 1] = e /\ \A i \in 1..n : longer[i] = t[i]
    BY AppendProperties
  <2> HIDE DEF longer
  <2>2. Singles(t) \in Seq(Seq(S)) /\ Len(Singles(t)) = n /\ <<e>> \in Seq(S)
    <3>1. \A i \in 1..n : <<t[i]>> \in Seq(S)
      BY <2>1
    <3>2. Singles(t) \in [1..n -> Seq(S)]
      BY <2>1, <3>1
    <3> QED
      BY <2>1, <3>2
  <2>3. Singles(longer) = Append(Singles(t), <<e>>)
    <3> DEFINE other == Append(Singles(t), <<e>>)
    <3>1. /\ other \in Seq(Seq(S)) /\ Len(other) = n + 1 /\ other[n + 1] = <<e>>
          /\ \A i \in 1..n : other[i] = Singles(t)[i]
      BY <2>2, AppendProperties
    <3>2. \A i \in 1..(n + 1) : <<longer[i]>> \in Seq(S)
      BY <2>1
    <3>3. Singles(longer) \in [1..(n + 1) -> Seq(S)]
      BY <2>1, <3>2
    <3>4. Singles(longer) \in Seq(Seq(S)) /\ Len(Singles(longer)) = n + 1
      BY <2>1, <3>3
    <3> HIDE DEF other
    <3>5. ASSUME NEW i \in 1..(n + 1) PROVE Singles(longer)[i] = other[i]
      <4>1. CASE i = n + 1
        BY <2>1, <3>1, <4>1
      <4>2. CASE i # n + 1
        <5>1. i \in 1..n
          BY <2>1, <4>2
        <5> QED
          BY <2>1, <3>1, <5>1
      <4> QED
        BY <4>1, <4>2
    <3>6. Singles(longer) = other
      BY <3>1, <3>4, <3>5, SeqEqual
    <3> QED
      BY <3>6 DEF other
  <2>4. FlattenSeq(Singles(longer)) = FlattenSeq(Singles(t)) \o <<e>>
    BY <2>2, <2>3, FlattenAppend
  <2>5. t \o <<e>> = longer
    BY DEF longer
  <2> QED
    BY <1>2, <2>1, <2>4, <2>5 DEF longer
<1> HIDE DEF Good
<1>3. \A t \in Seq(S) : t \in Good
  BY <1>1, <1>2, SequenceInduction, Zenon
<1> QED
  BY <1>3 DEF Good

\* A piece of a line and the next one.
LEMMA FlattenPieces ==
    ASSUME NEW S, NEW u \in Seq(Seq(S)), NEW k \in 0..Len(u), NEW n \in k..Len(u)
    PROVE  /\ SubSeq(u, 1, k) \in Seq(Seq(S)) /\ SubSeq(u, k + 1, n) \in Seq(Seq(S))
           /\ FlattenSeq(SubSeq(u, 1, n))
                  = FlattenSeq(SubSeq(u, 1, k)) \o FlattenSeq(SubSeq(u, k + 1, n))
<1>1. SubSeq(u, 1, k) \in Seq(Seq(S)) /\ SubSeq(u, k + 1, n) \in Seq(Seq(S))
  OBVIOUS
<1>2. SubSeq(u, 1, k) \o SubSeq(u, k + 1, n) = SubSeq(u, 1, n)
  <2>1. 1 \in 1..(Len(u) + 1) /\ k \in (1 - 1)..Len(u)
    OBVIOUS
  <2> QED
    BY <2>1, ConcatAdjacentSubSeq
<1> QED
  BY <1>1, <1>2, FlattenConcat

\* One answer more behind the others, and one before them.
LEMMA UnitsTyped ==
    ASSUME TwoByteCrc, TypeOK, NEW response \in Responses
    PROVE  Units(response) \in Seq(Seq(Byte))
<1>1. PortSelected \in {"COM", "USB", "ETH"} /\ TxPacket(response) \in Seq(Byte)
  BY TxPacketTyped, ResponsesAssumption, PortsAssumption DEF TypeOK
<1> QED
  BY <1>1, OnLineTyped DEF Units

LEMMA LineTyped ==
    ASSUME TwoByteCrc, TypeOK, NEW responses \in Seq(Responses)
    PROVE  /\ [i \in DOMAIN responses |-> Units(responses[i])] \in Seq(Seq(Seq(Byte)))
           /\ Len([i \in DOMAIN responses |-> Units(responses[i])]) = Len(responses)
           /\ LineOf(responses) \in Seq(Seq(Byte))
<1> DEFINE all == [i \in DOMAIN responses |-> Units(responses[i])]
<1>1. Len(responses) \in Nat /\ DOMAIN responses = 1..Len(responses)
  OBVIOUS
<1>2. \A i \in 1..Len(responses) : Units(responses[i]) \in Seq(Seq(Byte))
  BY UnitsTyped
<1>3. all \in [1..Len(responses) -> Seq(Seq(Byte))]
  BY <1>1, <1>2
<1>4. all \in Seq(Seq(Seq(Byte))) /\ Len(all) = Len(responses)
  BY <1>1, <1>3
<1> QED
  BY <1>4, FlattenTyped DEF LineOf

LEMMA LineOfNone == LineOf(<< >>) = << >>
<1>1. [i \in DOMAIN << >> |-> Units(<< >>[i])] = << >>
  OBVIOUS
<1> QED
  BY <1>1, FlattenEmpty, Zenon DEF LineOf

LEMMA LineOfMore ==
    ASSUME TwoByteCrc, TypeOK, NEW responses \in Seq(Responses),
           NEW response \in Responses
    PROVE  LineOf(Append(responses, response)) = LineOf(responses) \o Units(response)
<1> DEFINE longer == Append(responses, response)
           n == Len(responses)
           all(t) == [i \in DOMAIN t |-> Units(t[i])]
           other == Append(all(responses), Units(response))
<1>1. /\ longer \in Seq(Responses) /\ n \in Nat
      /\ DOMAIN longer = 1..(n + 1) /\ DOMAIN responses = 1..n
      /\ longer[n + 1] = response /\ \A i \in 1..n : longer[i] = responses[i]
      /\ Len(longer) = n + 1
  BY AppendProperties
<1> HIDE DEF longer
<1>2. /\ all(longer) \in Seq(Seq(Seq(Byte))) /\ Len(all(longer)) = n + 1
      /\ all(responses) \in Seq(Seq(Seq(Byte))) /\ Len(all(responses)) = n
      /\ Units(response) \in Seq(Seq(Byte))
  BY <1>1, LineTyped, UnitsTyped
<1>3. /\ other \in Seq(Seq(Seq(Byte))) /\ Len(other) = n + 1
      /\ other[n + 1] = Units(response)
      /\ \A i \in 1..n : other[i] = all(responses)[i]
  BY <1>2, AppendProperties
<1>4. ASSUME NEW i \in 1..(n + 1) PROVE all(longer)[i] = other[i]
  <2> HIDE DEF other
  <2>1. CASE i = n + 1
    BY <1>1, <1>3, <2>1
  <2>2. CASE i # n + 1
    <3>1. i \in 1..n
      BY <1>1, <2>2
    <3> QED
      BY <1>1, <1>3, <3>1
  <2> QED
    BY <2>1, <2>2
<1>5. all(longer) = other
  <2> HIDE DEF other, all
  <2> QED
    BY <1>2, <1>3, <1>4, SeqEqual
<1>6. FlattenSeq(other) = FlattenSeq(all(responses)) \o Units(response)
  <2> HIDE DEF all
  <2> QED
    BY <1>2, FlattenAppend
<1> QED
  BY <1>5, <1>6, Zenon DEF LineOf, longer

LEMMA LineOfOne ==
    ASSUME TwoByteCrc, TypeOK, NEW response \in Responses
    PROVE  LineOf(<<response>>) = Units(response)
<1>1. << >> \in Seq(Responses) /\ <<response>> = Append(<< >>, response)
  OBVIOUS
<1>2. LineOf(Append(<< >>, response)) = LineOf(<< >>) \o Units(response)
  BY <1>1, LineOfMore, Zenon
<1>3. << >> \o Units(response) = Units(response)
  BY UnitsTyped
<1> QED
  BY <1>1, <1>2, <1>3, LineOfNone, Zenon

LEMMA LineOfConcat ==
    ASSUME TwoByteCrc, TypeOK, NEW a \in Seq(Responses), NEW b \in Seq(Responses)
    PROVE  LineOf(a \o b) = LineOf(a) \o LineOf(b)
<1> DEFINE Good == {t \in Seq(Responses) : LineOf(a \o t) = LineOf(a) \o LineOf(t)}
<1>1. << >> \in Good
  <2>1. LineOf(a) \in Seq(Seq(Byte)) /\ << >> \in Seq(Responses)
    <3>1. LineOf(a) \in Seq(Seq(Byte))
      BY LineTyped
    <3> QED
      BY <3>1
  <2>2. a \o << >> = a /\ LineOf(a) \o << >> = LineOf(a)
    BY <2>1
  <2>3. LineOf(a \o << >>) = LineOf(a) \o LineOf(<< >>)
    BY <2>2, LineOfNone, Zenon
  <2> QED
    BY <2>1, <2>3
<1>2. ASSUME NEW t \in Seq(Responses), NEW r \in Responses, t \in Good
      PROVE  Append(t, r) \in Good
  <2>1. /\ a \o Append(t, r) = Append(a \o t, r)
        /\ a \o t \in Seq(Responses) /\ Append(t, r) \in Seq(Responses)
    OBVIOUS
  <2>2. /\ LineOf(Append(a \o t, r)) = LineOf(a \o t) \o Units(r)
        /\ LineOf(Append(t, r)) = LineOf(t) \o Units(r)
    BY <2>1, LineOfMore
  <2>3. /\ LineOf(a) \in Seq(Seq(Byte)) /\ LineOf(t) \in Seq(Seq(Byte))
        /\ Units(r) \in Seq(Seq(Byte)) /\ LineOf(a \o t) = LineOf(a) \o LineOf(t)
    BY <1>2, LineTyped, UnitsTyped
  <2>4. (LineOf(a) \o LineOf(t)) \o Units(r) = LineOf(a) \o (LineOf(t) \o Units(r))
    BY <2>3, ConcatAssociative, SMTT(30)
  <2> QED
    BY <2>1, <2>2, <2>3, <2>4
<1> HIDE DEF Good
<1>3. \A t \in Seq(Responses) : t \in Good
  BY <1>1, <1>2, SequenceInduction, Zenon
<1> QED
  BY <1>3 DEF Good

\* What the units of an answer hold: its frame, and behind it padding if it is
\* a report; none of them but the last completes the frame.
LEMMA UnitsHold ==
    ASSUME TwoByteCrc, ResponsesFit, TypeOK, NEW response \in Responses, NEW rx, Fresh(rx)
    PROVE  /\ Len(Units(response)) \in Nat \ {0}
           /\ BuildRxFrame(rx, FlattenSeq(Units(response))) = Complete(response)
           /\ PortSelected # "COM" => Len(Units(response)) = 1
           /\ \A n \in 0..(Len(Units(response)) - 1) :
                  ~BuildRxFrame(rx, FlattenSeq(SubSeq(Units(response), 1, n))).valid
<1> DEFINE packet == TxPacket(response)
           U == Units(response)
<1>1. /\ rx \in Decoders /\ ~rx.escape /\ ~rx.valid
      /\ response \in Seq(Byte) /\ packet \in Seq(Byte)
      /\ U \in Seq(Seq(Byte)) /\ PortSelected \in {"COM", "USB", "ETH"}
  BY TxPacketTyped, UnitsTyped, ResponsesAssumption, PortsAssumption DEF Fresh, TypeOK
<1>2. BuildRxFrame(rx, packet) = Complete(response)
  BY <1>1, FrameTaken
<1>3. Complete(response) \in Decoders /\ Complete(response).valid
  <2>1. Complete(response) \in Decoders
    BY <1>1, <1>2, BuildTyped
  <2> QED
    BY <2>1 DEF Complete
<1>4. ASSUME NEW unit \in Seq(Byte), U = <<unit>>,
             BuildRxFrame(rx, unit) = Complete(response)
      PROVE  /\ Len(U) \in Nat \ {0} /\ Len(U) = 1
             /\ BuildRxFrame(rx, FlattenSeq(U)) = Complete(response)
             /\ \A n \in 0..(Len(U) - 1) :
                    ~BuildRxFrame(rx, FlattenSeq(SubSeq(U, 1, n))).valid
  <2>1. Len(U) = 1 /\ FlattenSeq(U) = unit
    <3>1. FlattenSeq(<<unit>>) = unit
      BY FlattenOne
    <3> QED
      BY <1>4, <3>1
  <2>2. ASSUME NEW n \in 0..(Len(U) - 1)
        PROVE  ~BuildRxFrame(rx, FlattenSeq(SubSeq(U, 1, n))).valid
    <3>1. SubSeq(U, 1, n) = << >>
      BY <1>1, <2>1
    <3>2. BuildRxFrame(rx, FlattenSeq(SubSeq(U, 1, n))) = rx
      BY <1>1, <3>1, FlattenEmpty, BuildEmpty, Zenon
    <3> QED
      BY <1>1, <3>2
  <2> QED
    BY <1>4, <2>1, <2>2
<1>5. CASE PortSelected = "ETH"
  <2>1. U = <<packet>>
    BY <1>5 DEF Units, OnLine
  <2> HIDE DEF packet, U
  <2> QED
    BY <1>1, <1>2, <1>4, <2>1 DEF U
<1>6. CASE PortSelected = "USB"
  <2> DEFINE padding == [i \in 1..(ReadSize - Len(packet)) |-> 0]
             unit == packet \o padding
  <2>1. U = <<unit>>
    BY <1>6 DEF Units, OnLine
  <2>2. padding \in Seq(Byte)
    BY <1>1, PaddingTyped
  <2>3. unit \in Seq(Byte)
    BY <1>1, <2>2
  <2>4. BuildRxFrame(rx, unit) = Complete(response)
    <3> HIDE DEF packet, padding
    <3>1. BuildRxFrame(rx, packet \o padding)
              = BuildRxFrame(BuildRxFrame(rx, packet), padding)
      BY <1>1, <2>2, BuildConcat
    <3> QED
      BY <1>2, <1>3, <2>2, <3>1, BuildComplete
  <2> HIDE DEF unit, packet, U
  <2> QED
    BY <1>4, <2>1, <2>3, <2>4 DEF U
<1>7. CASE PortSelected = "COM"
  <2> DEFINE opened == Opened(response)
  <2>1. U = [i \in DOMAIN packet |-> <<packet[i]>>]
    BY <1>7 DEF Units, OnLine
  <2>2. /\ opened \in Seq(Byte) /\ packet = Append(opened, EOT) /\ EOT \in Byte
        /\ Len(packet) = Len(opened) + 1 /\ Len(opened) \in Nat
    BY <1>1, OpenedFacts
  <2>3. Len(U) = Len(opened) + 1
    <3> HIDE DEF packet, U, opened
    <3>1. DOMAIN U = 1..(Len(opened) + 1)
      BY <1>1, <2>1, <2>2
    <3> QED
      BY <1>1, <2>2, <3>1
  <2>4. FlattenSeq(U) = packet
    BY <1>1, <2>1, FlattenBytes
  <2>5. FlattenSeq(SubSeq(U, 1, Len(opened))) = opened
    <3>1. SubSeq(U, 1, Len(opened)) = [i \in DOMAIN opened |-> <<opened[i]>>]
      <4> DEFINE part == SubSeq(U, 1, Len(opened))
                 other == [i \in DOMAIN opened |-> <<opened[i]>>]
      <4>1. \A i \in 1..Len(opened) : packet[i] = opened[i]
        BY <2>2, AppendProperties
      <4>2. \A i \in 1..Len(opened) : U[i] = <<opened[i]>>
        <5> HIDE DEF packet, U, opened
        <5> QED
          BY <1>1, <2>1, <2>2, <4>1
      <4>3. /\ part \in Seq(Seq(Byte)) /\ Len(part) = Len(opened)
            /\ \A i \in 1..Len(opened) : part[i] = U[i]
        <5> HIDE DEF packet, U, opened
        <5> QED
          BY <1>1, <2>2, <2>3
      <4>4. other \in Seq(Seq(Byte)) /\ Len(other) = Len(opened)
        <5>1. \A i \in 1..Len(opened) : <<opened[i]>> \in Seq(Byte)
          BY <2>2
        <5>2. other \in [1..Len(opened) -> Seq(Byte)]
          BY <2>2, <5>1
        <5> QED
          BY <2>2, <5>2
      <4>5. \A i \in 1..Len(opened) : other[i] = <<opened[i]>>
        BY <2>2
      <4> HIDE DEF part, other, opened, U
      <4> QED
        BY <4>2, <4>3, <4>4, <4>5, SeqEqual DEF part, other
    <3> QED
      BY <2>2, <3>1, FlattenBytes
  <2>6. ~BuildRxFrame(rx, opened).valid
    <3>1. BuildRxFrame(rx, opened) = Inside(response \o Crc(response))
      BY <1>1, OpenedTaken
    <3> QED
      BY <3>1 DEF Inside
  <2>7. ASSUME NEW n \in 0..(Len(U) - 1)
        PROVE  ~BuildRxFrame(rx, FlattenSeq(SubSeq(U, 1, n))).valid
    <3> HIDE DEF opened, U, packet
    <3> DEFINE taken == FlattenSeq(SubSeq(U, 1, n))
               more == FlattenSeq(SubSeq(U, n + 1, Len(opened)))
    <3>1. n \in 0..Len(U) /\ Len(opened) \in n..Len(U)
      BY <2>2, <2>3
    <3>2. /\ SubSeq(U, 1, n) \in Seq(Seq(Byte))
          /\ SubSeq(U, n + 1, Len(opened)) \in Seq(Seq(Byte))
          /\ opened = taken \o more
      BY <1>1, <2>5, <3>1, FlattenPieces
    <3>3. taken \in Seq(Byte) /\ more \in Seq(Byte)
      BY <3>2, FlattenTyped
    <3> HIDE DEF taken, more
    <3>4. BuildRxFrame(rx, opened) = BuildRxFrame(BuildRxFrame(rx, taken), more)
      BY <1>1, <3>2, <3>3, BuildConcat
    <3>5. BuildRxFrame(rx, taken) \in Decoders
      BY <1>1, <3>3, BuildTyped
    <3>6. ASSUME BuildRxFrame(rx, taken).valid PROVE FALSE
      BY <2>6, <3>3, <3>4, <3>5, <3>6, BuildComplete
    <3> QED
      BY <3>6 DEF taken
  <2> QED
    BY <1>2, <1>7, <2>2, <2>3, <2>4, <2>7
<1> QED
  BY <1>1, <1>5, <1>6, <1>7, <1>4

\* With an answer or none under way, one more is put behind it.
LEMMA QuietSend ==
    ASSUME TwoByteCrc, ResponsesFit, TypeOK, QuietInv, DeviceSends
    PROVE  QuietInv'
<1> SUFFICES ASSUME faults' = 0, ~discarded'
             PROVE  \E response \in Responses, later \in Seq(Responses), j \in Nat,
                       rx \in Decoders : Arriving(response, later, j, rx)'
  BY DEF QuietInv
<1>1. PICK r \in Responses :
        line' = line \o OnLine(TxPacket(r)) /\ sent' = Append(sent, r)
  BY DEF DeviceSends
<1>2. /\ line' = line \o Units(r)
      /\ Decoder' = Decoder /\ delivered' = delivered /\ PortSelected' = PortSelected
      /\ RxFrameValid' = RxFrameValid
      /\ faults = 0 /\ ~discarded
  BY <1>1 DEF Units, DeviceSends, decoder, Decoder
<1>3. /\ Units(r) \in Seq(Seq(Byte)) /\ line \in Seq(Seq(Byte))
      /\ delivered \in Seq(Seq(Byte)) /\ sent \in Seq(Responses)
  BY UnitsTyped DEF TypeOK
<1>4. \A response : Units(response)' = Units(response)
  BY <1>2 DEF Units, OnLine
<1>5. \A responses : LineOf(responses)' = LineOf(responses)
  BY <1>2, <1>4 DEF LineOf
<1>6. CASE Waiting
  <2>1. sent = delivered /\ line = << >> /\ ~Escape /\ ~RxFrameValid
    BY <1>6 DEF Waiting, TypeOK
  <2>2. PICK rx \in Decoders : rx = Decoder /\ Fresh(rx)
    <3>1. Decoder \in Decoders /\ Fresh(Decoder)
      BY <2>1 DEF TypeOK, Decoder, Decoders, Contents, Fresh
    <3> QED
      BY <3>1
  <2>3. << >> \in Seq(Responses) /\ 0 \in Nat
    OBVIOUS
  <2>4. sent' = (delivered' \o <<r>>) \o << >>
    BY <1>1, <1>2, <1>3, <2>1
  <2>5. Len(Units(r)) \in Nat \ {0}
    BY <2>2, UnitsHold
  <2>6. line' = SubSeq(Units(r), 0 + 1, Len(Units(r))) \o << >>
    BY <1>2, <1>3, <2>1
  <2>7. BuildRxFrame(rx, FlattenSeq(SubSeq(Units(r), 1, 0))) = rx
    <3>1. SubSeq(Units(r), 1, 0) = << >>
      BY <1>3
    <3> QED
      BY <2>2, <3>1, FlattenEmpty, BuildEmpty, Zenon
  <2>8. Arriving(r, << >>, 0, rx)'
    <3>1. 0 \in 0..(Len(Units(r)) - 1)
      BY <2>5
    <3>2. line' = SubSeq(Units(r), 0 + 1, Len(Units(r))) \o LineOf(<< >>)
      BY <2>6, LineOfNone, Zenon
    <3> QED
      BY <1>2, <1>4, <1>5, <2>2, <2>4, <2>7, <3>1, <3>2, Zenon DEF Arriving
  <2> QED
    BY <2>2, <2>3, <2>8
<1>7. CASE ~Waiting
  <2>1. PICK response \in Responses, later \in Seq(Responses), j \in Nat, rx \in Decoders :
          Arriving(response, later, j, rx)
    BY <1>2, <1>7 DEF QuietInv
  <2>2. Append(later, r) \in Seq(Responses)
    OBVIOUS
  <2>3. /\ sent = (delivered \o <<response>>) \o later
        /\ j \in 0..(Len(Units(response)) - 1)
        /\ line = SubSeq(Units(response), j + 1, Len(Units(response))) \o LineOf(later)
        /\ Fresh(rx)
        /\ Decoder = BuildRxFrame(rx, FlattenSeq(SubSeq(Units(response), 1, j)))
    BY <2>1 DEF Arriving
  <2>4. sent' = (delivered' \o <<response>>) \o Append(later, r)
    <3>1. response \in Seq(Byte) /\ later \in Seq(Seq(Byte)) /\ r \in Seq(Byte)
      BY ResponsesAssumption
    <3> DEFINE d == delivered \o <<response>>
    <3>2. d \in Seq(Seq(Byte)) /\ sent' = Append(d \o later, r)
      BY <1>1, <1>3, <2>3, <3>1
    <3> HIDE DEF d
    <3>3. /\ Append(d \o later, r) \in Seq(Seq(Byte))
          /\ d \o Append(later, r) \in Seq(Seq(Byte))
          /\ Len(Append(d \o later, r)) = Len(d) + Len(later) + 1
          /\ Len(d \o Append(later, r)) = Len(d) + Len(later) + 1
      BY <3>1, <3>2
    <3>4. ASSUME NEW i \in 1..(Len(d) + Len(later) + 1)
          PROVE  Append(d \o later, r)[i] = (d \o Append(later, r))[i]
      BY <3>1, <3>2, <3>3
    <3>5. Append(d \o later, r) = d \o Append(later, r)
      BY <3>3, <3>4, SeqEqual
    <3> QED
      BY <1>2, <3>2, <3>5 DEF d
  <2>5. line' = SubSeq(Units(response), j + 1, Len(Units(response)))
                    \o LineOf(Append(later, r))
    <3> DEFINE left == SubSeq(Units(response), j + 1, Len(Units(response)))
    <3>1. Units(response) \in Seq(Seq(Byte)) /\ LineOf(later) \in Seq(Seq(Byte))
      BY UnitsTyped, LineTyped
    <3>2. left \in Seq(Seq(Byte))
      BY <2>3, <3>1
    <3>3. line' = (left \o LineOf(later)) \o Units(r)
      BY <1>2, <2>3
    <3> HIDE DEF left
    <3>4. line' = left \o (LineOf(later) \o Units(r))
      <4> DEFINE others == LineOf(later)
                 more == Units(r)
      <4>1. others \in Seq(Seq(Byte)) /\ more \in Seq(Seq(Byte))
        BY <1>3, <3>1
      <4> HIDE DEF others, more
      <4>2. (left \o others) \o more = left \o (others \o more)
        BY <3>2, <4>1, ConcatAssociative, SMTT(30)
      <4> QED
        BY <3>3, <4>2 DEF others, more
    <3>5. LineOf(Append(later, r)) = LineOf(later) \o Units(r)
      BY LineOfMore
    <3> QED
      BY <3>4, <3>5 DEF left
  <2>6. Arriving(response, Append(later, r), j, rx)'
    BY <1>2, <1>4, <1>5, <2>3, <2>4, <2>5, Zenon DEF Arriving
  <2> QED
    BY <2>2, <2>6
<1> QED
  BY <1>6, <1>7

\* A read takes units of one answer, and with the last of them the answer: if
\* it went on behind it, it would discard.
\* HandleResponse gets the frame without its CRC.
LEMMA ContentOfFrame ==
    ASSUME TwoByteCrc, NEW response \in Responses
    PROVE  SubSeq(response \o Crc(response), 1, Len(response \o Crc(response)) - 2)
               = response
<1>1. response \in Seq(Byte) /\ Crc(response) \in Seq(Byte) /\ Len(Crc(response)) = 2
  BY ResponsesAssumption DEF TwoByteCrc
<1>2. Len(response \o Crc(response)) - 2 = Len(response) /\ Len(response) \in 0..Len(response)
  <2>1. Len(response \o Crc(response)) = Len(response) + Len(Crc(response))
    BY <1>1, ConcatProperties
  <2>2. Len(response) \in Nat
    BY <1>1
  <2> QED
    BY <1>1, <2>1, <2>2
<1>3. SubSeq(response \o Crc(response), 1, Len(response)) = SubSeq(response, 1, Len(response))
  BY <1>1, <1>2, ConcatPieces
<1> QED
  BY <1>1, <1>2, <1>3, SubSeqFull

LEMMA QuietReceive ==
    ASSUME TwoByteCrc, ResponsesFit, TypeOK, QuietInv, ReceiveTask
    PROVE  QuietInv'
<1> SUFFICES ASSUME faults' = 0, ~discarded'
             PROVE  \/ Waiting'
                    \/ \E response \in Responses, later \in Seq(Responses),
                          j \in Nat, rx \in Decoders :
                              Arriving(response, later, j, rx)'
  BY DEF QuietInv
<1>1. PICK n \in 1..Len(line) :
        /\ PortSelected = "COM" => n <= ReadSize
        /\ PortSelected # "COM" => n = 1
        /\ line' = SubSeq(line, n + 1, Len(line))
        /\ discarded' = (discarded \/ CompleteBefore(n))
        /\ LET read == FlattenSeq(SubSeq(line, 1, n))
               rx == BuildRxFrame(Decoder, read \o Stale(read))
           IN  /\ buffer' = read \o Stale(read)
               /\ RxData' = rx.data
               /\ Escape' = rx.escape
               /\ delivered' = IF rx.valid
                               THEN Append(delivered, SubSeq(rx.data, 1, Len(rx.data) - 2))
                               ELSE delivered
        /\ RxFrameValid' = FALSE
        /\ UNCHANGED <<PortSelected, sent, faults>>
  BY DEF ReceiveTask
<1>2. /\ faults = 0 /\ ~discarded /\ ~CompleteBefore(n)
      /\ PortSelected' = PortSelected /\ sent' = sent /\ RxFrameValid' = FALSE
  <2>1. discarded' = (discarded \/ CompleteBefore(n))
    BY <1>1
  <2> QED
    BY <1>1, <2>1
<1>3. PICK response \in Responses, later \in Seq(Responses), j \in Nat, rx \in Decoders :
        Arriving(response, later, j, rx)
  <2>1. ~Waiting
    BY <1>1 DEF Waiting, TypeOK
  <2> QED
    BY <1>2, <2>1 DEF QuietInv
<1> DEFINE U == Units(response)
           N == Len(U)
           back == SubSeq(U, j + 1, N)
           rest == LineOf(later)
           taken(k) == FlattenSeq(SubSeq(line, 1, k))
<1>4. /\ sent = (delivered \o <<response>>) \o later
      /\ j \in 0..(N - 1) /\ line = back \o rest /\ Fresh(rx)
      /\ Decoder = BuildRxFrame(rx, FlattenSeq(SubSeq(U, 1, j)))
  BY <1>3 DEF Arriving
<1>5. U \in Seq(Seq(Byte)) /\ rest \in Seq(Seq(Byte))
  BY UnitsTyped, LineTyped
<1>6. /\ N \in Nat \ {0} /\ BuildRxFrame(rx, FlattenSeq(U)) = Complete(response)
      /\ PortSelected # "COM" => N = 1
      /\ \A k \in 0..(N - 1) : ~BuildRxFrame(rx, FlattenSeq(SubSeq(U, 1, k))).valid
  BY <1>4, UnitsHold
<1>7. /\ line \in Seq(Seq(Byte)) /\ Decoder \in Decoders /\ delivered \in Seq(Seq(Byte))
      /\ buffer \in Seq(Byte)
  BY DEF TypeOK, Decoder, Decoders, Contents
<1> HIDE DEF U, N, rest
<1>8. ASSUME NEW k \in 0..(N - j)
      PROVE  /\ SubSeq(line, 1, k) \in Seq(Seq(Byte))
             /\ BuildRxFrame(Decoder, taken(k)) = BuildRxFrame(rx, FlattenSeq(SubSeq(U, 1, j + k)))
             /\ SubSeq(line, k + 1, Len(line)) = SubSeq(U, j + k + 1, N) \o rest
  <2>1. j \in 0..Len(U) /\ k \in 0..(Len(U) - j) /\ j + k \in j..Len(U)
    BY <1>4, <1>6 DEF N
  <2>2. /\ back \in Seq(Seq(Byte)) /\ Len(back) = N - j
        /\ SubSeq(back, 1, k) = SubSeq(U, j + 1, j + k)
        /\ SubSeq(back, k + 1, N - j) = SubSeq(U, j + k + 1, N)
    BY <1>5, <2>1, BackPieces DEF N
  <2> HIDE DEF back
  <2>3. k \in 0..Len(back)
    BY <2>2
  <2>4. /\ SubSeq(line, 1, k) = SubSeq(U, j + 1, j + k)
        /\ SubSeq(line, k + 1, Len(line)) = SubSeq(U, j + k + 1, N) \o rest
    <3>1. /\ SubSeq(back \o rest, 1, k) = SubSeq(back, 1, k)
          /\ SubSeq(back \o rest, k + 1, Len(back \o rest))
                 = SubSeq(back, k + 1, Len(back)) \o rest
      BY <1>5, <2>2, <2>3, ConcatPieces, Zenon
    <3> QED
      BY <1>4, <2>2, <3>1, Zenon
  <2> DEFINE first == FlattenSeq(SubSeq(U, 1, j))
             second == FlattenSeq(SubSeq(U, j + 1, j + k))
  <2>5. /\ SubSeq(U, 1, j) \in Seq(Seq(Byte)) /\ SubSeq(U, j + 1, j + k) \in Seq(Seq(Byte))
        /\ FlattenSeq(SubSeq(U, 1, j + k)) = first \o second
    BY <1>5, <2>1, FlattenPieces
  <2>6. first \in Seq(Byte) /\ second \in Seq(Byte)
    BY <2>5, FlattenTyped
  <2>7. BuildRxFrame(rx, first \o second) = BuildRxFrame(Decoder, second)
    <3>1. Decoder = BuildRxFrame(rx, first)
      BY <1>4
    <3> HIDE DEF first, second
    <3> QED
      BY <2>6, <3>1, BuildConcat
  <2> HIDE DEF first
  <2> QED
    BY <2>4, <2>5, <2>7
<1>9. n <= N - j
  <2> SUFFICES ASSUME ~(n <= N - j) PROVE FALSE
    OBVIOUS
  <2>1. N - j \in 0..(N - j) /\ N - j \in 1..(n - 1) /\ j + (N - j) = N
    BY <1>1, <1>4, <1>6
  <2>2. SubSeq(U, 1, N) = U
    BY <1>5, SubSeqFull DEF N
  <2>3. BuildRxFrame(Decoder, taken(N - j)) = Complete(response)
    BY <1>6, <1>8, <2>1, <2>2
  <2>4. Complete(response).valid
    BY DEF Complete
  <2>5. BuildRxFrame(Decoder, FlattenSeq(SubSeq(line, 1, N - j))).valid
    BY <2>3, <2>4
  <2> QED
    BY <1>2, <2>1, <2>5, Zenon DEF CompleteBefore
<1> DEFINE read == FlattenSeq(SubSeq(line, 1, n))
           dec == BuildRxFrame(Decoder, read \o Stale(read))
<1>10. /\ n \in 0..(N - j) /\ n \in Nat
       /\ line' = SubSeq(U, j + n + 1, N) \o rest
       /\ read \in Seq(Byte)
       /\ BuildRxFrame(Decoder, read) = BuildRxFrame(rx, FlattenSeq(SubSeq(U, 1, j + n)))
  <2>1. n \in 0..(N - j)
    BY <1>1, <1>4, <1>6, <1>9
  <2>2. SubSeq(line, 1, n) \in Seq(Seq(Byte))
    BY <1>8, <2>1
  <2>3. read \in Seq(Byte)
    BY <2>2, FlattenTyped
  <2>4. /\ SubSeq(line, n + 1, Len(line)) = SubSeq(U, j + n + 1, N) \o rest
        /\ BuildRxFrame(Decoder, read)
               = BuildRxFrame(rx, FlattenSeq(SubSeq(U, 1, j + n)))
    BY <1>8, <2>1, Zenon
  <2>5. n \in Nat
    BY <2>1
  <2>6. line' = SubSeq(line, n + 1, Len(line))
    BY <1>1
  <2> HIDE DEF read
  <2> QED
    BY <2>1, <2>3, <2>4, <2>5, <2>6
<1>11. /\ RxData' = dec.data /\ Escape' = dec.escape
       /\ delivered' = IF dec.valid
                       THEN Append(delivered, SubSeq(dec.data, 1, Len(dec.data) - 2))
                       ELSE delivered
  BY <1>1
<1>12. Stale(read) \in Seq(Byte)
  <2> HIDE DEF read
  <2>1. SubSeq(buffer, Len(read) + 1, Len(buffer)) \in Seq(Byte)
    BY <1>7, <1>10
  <2> QED
    BY <2>1 DEF Stale
<1> HIDE DEF read
<1>13. dec = BuildRxFrame(BuildRxFrame(Decoder, read), Stale(read)) /\ dec \in Decoders
  BY <1>7, <1>10, <1>12, BuildConcat, BuildTyped
<1> HIDE DEF dec
<1>14. /\ dec.data \in Seq(Byte) /\ dec.escape \in BOOLEAN
       /\ Decoder' = [data |-> dec.data, escape |-> dec.escape, valid |-> FALSE]
       /\ Decoder' \in Decoders
  BY <1>2, <1>11, <1>13 DEF Decoder, Decoders, Contents
<1>15. \A r : Units(r)' = Units(r)
  BY <1>2 DEF Units, OnLine
<1>16. \A responses : LineOf(responses)' = LineOf(responses)
  BY <1>15 DEF LineOf
<1>17. CASE j + n = N
  <2>1. dec = Complete(response)
    <3>1. SubSeq(U, 1, j + n) = U
      BY <1>5, <1>17, SubSeqFull DEF N
    <3>2. BuildRxFrame(Decoder, read) = Complete(response)
      BY <1>6, <1>10, <3>1
    <3>3. Complete(response) \in Decoders /\ Complete(response).valid
      <4>1. Complete(response) \in Decoders
        BY <1>7, <1>10, <3>2, BuildTyped
      <4> QED
        BY <4>1 DEF Complete
    <3> QED
      BY <1>12, <1>13, <3>2, <3>3, BuildComplete
  <2>2. /\ dec.data = response \o Crc(response) /\ ~dec.escape /\ dec.valid
    BY <2>1 DEF Complete
  <2>3. delivered' = Append(delivered, response)
    <3>1. SubSeq(dec.data, 1, Len(dec.data) - 2) = response
      BY <2>2, ContentOfFrame
    <3> QED
      BY <1>11, <2>2, <3>1
  <2>4. delivered' = delivered \o <<response>>
    BY <1>7, <2>3, ResponsesAssumption
  <2>5. line' = rest
    <3>1. SubSeq(U, j + n + 1, N) = << >>
      BY <1>5, <1>6, <1>17 DEF N
    <3>2. << >> \o rest = rest
      BY <1>5
    <3> QED
      BY <1>10, <3>1, <3>2, Zenon
  <2>6. sent' = delivered' \o later
    BY <1>2, <1>4, <2>4
  <2>7. Fresh(Decoder)'
    BY <1>14, <2>2 DEF Fresh
  <2>8. CASE later = << >>
    <3>1. line' = << >>
      BY <2>5, <2>8, LineOfNone, Zenon DEF rest
    <3>2. delivered' \in Seq(Seq(Byte))
      BY <1>7, <2>4, ResponsesAssumption
    <3>3. sent' = delivered'
      BY <2>6, <2>8, <3>2
    <3> QED
      BY <1>11, <2>2, <3>1, <3>3 DEF Waiting
  <2>9. CASE later # << >>
    <3> DEFINE next == Head(later)
               others == Tail(later)
    <3>1. next \in Responses /\ others \in Seq(Responses) /\ later = <<next>> \o others
      BY <2>9
    <3> HIDE DEF next, others
    <3>2. line' = Units(next) \o LineOf(others)
      <4>1. <<next>> \in Seq(Responses)
        BY <3>1
      <4>2. LineOf(<<next>> \o others) = LineOf(<<next>>) \o LineOf(others)
        BY <3>1, <4>1, LineOfConcat
      <4> QED
        BY <2>5, <3>1, <4>2, LineOfOne DEF rest
    <3>3. Units(next) \in Seq(Seq(Byte)) /\ Len(Units(next)) \in Nat \ {0}
      BY <1>4, <3>1, UnitsTyped, UnitsHold
    <3>4. sent' = (delivered' \o <<next>>) \o others
      <4>1. /\ delivered' \in Seq(Seq(Byte)) /\ <<next>> \in Seq(Seq(Byte))
            /\ others \in Seq(Seq(Byte))
        BY <1>7, <2>4, <3>1, ResponsesAssumption
      <4>2. (delivered' \o <<next>>) \o others = delivered' \o (<<next>> \o others)
        <5> DEFINE d == delivered'
                   one == <<next>>
        <5> HIDE DEF d, one
        <5>1. (d \o one) \o others = d \o (one \o others)
          BY <4>1, ConcatAssociative, SMTT(30) DEF d, one
        <5> QED
          BY <5>1, Zenon DEF d, one
      <4> QED
        BY <2>6, <3>1, <4>2, Zenon
    <3>5. PICK fresh \in Decoders : fresh = Decoder' /\ Fresh(fresh)
      BY <1>14, <2>7 DEF Fresh
    <3>6. BuildRxFrame(fresh, FlattenSeq(SubSeq(Units(next), 1, 0))) = fresh
      <4>1. SubSeq(Units(next), 1, 0) = << >>
        BY <3>3
      <4> QED
        BY <4>1, FlattenEmpty, BuildEmpty, Zenon
    <3>7. line' = SubSeq(Units(next), 0 + 1, Len(Units(next))) \o LineOf(others)
      <4>1. SubSeq(Units(next), 1, Len(Units(next))) = Units(next)
        BY <3>3, SubSeqFull, Zenon
      <4> QED
        BY <3>2, <4>1
    <3>8. 0 \in 0..(Len(Units(next)) - 1) /\ 0 \in Nat
      BY <3>3
    <3>9. Arriving(next, others, 0, fresh)'
      BY <1>15, <1>16, <3>4, <3>5, <3>6, <3>7, <3>8, Zenon DEF Arriving
    <3> QED
      BY <3>1, <3>8, <3>9
  <2> QED
    BY <2>8, <2>9
<1>18. CASE j + n # N
  <2>1. j + n \in 0..(N - 1) /\ j + n \in Nat
    BY <1>4, <1>6, <1>10, <1>18
  <2>2. PortSelected = "COM"
    BY <1>1, <1>4, <1>6, <2>1
  <2>3. dec = BuildRxFrame(rx, FlattenSeq(SubSeq(U, 1, j + n)))
    <3>1. Stale(read) = << >>
      BY <2>2 DEF Stale
    <3>2. read \o << >> = read
      BY <1>10
    <3> QED
      BY <1>10, <3>1, <3>2, Zenon DEF dec
  <2>4. ~dec.valid
    BY <1>6, <2>1, <2>3
  <2>5. delivered' = delivered
    BY <1>11, <2>4
  <2>6. Decoder' = dec
    BY <1>13, <1>14, <2>4 DEF Decoders
  <2>7. line' = SubSeq(U, (j + n) + 1, N) \o rest
    BY <1>10
  <2>8. Arriving(response, later, j + n, rx)'
    BY <1>2, <1>4, <1>15, <1>16, <2>1, <2>3, <2>5, <2>6, <2>7, Zenon DEF Arriving, U, N, rest
  <2> QED
    BY <2>1, <2>8
<1> QED
  BY <1>17, <1>18

LEMMA QuietFault ==
    ASSUME TypeOK, Fault
    PROVE  QuietInv'
<1>1. faults \in Nat /\ faults' = faults + 1
  BY DEF TypeOK, Fault
<1> QED
  BY <1>1 DEF QuietInv

\* Without faults every answer is taken, once and in order, unless a read goes
\* on behind another answer: for every content of the answers that fits RxData,
\* every way reads cut the line, and every padding or stale buffer behind them.
THEOREM QuietLineTaken ==
    ASSUME TwoByteCrc, ResponsesFit
    PROVE  Spec => []QuietLineDelivers
<1>1. Init => QuietInv
  BY DEF Init, QuietInv, Waiting
<1>2. TypeOK /\ QuietInv /\ [Next]_vars => QuietInv'
  <2> SUFFICES ASSUME TypeOK, QuietInv, [Next]_vars PROVE QuietInv'
    OBVIOUS
  <2>1. CASE Lose \/ Disturb \/ Duplicate \/ Overtake \/ Reconnect
    BY <2>1, QuietFault DEF Lose, Disturb, Duplicate, Overtake, Reconnect
  <2>2. CASE UNCHANGED vars
    <3>1. /\ PortSelected' = PortSelected /\ line' = line /\ Decoder' = Decoder
          /\ Escape' = Escape /\ sent' = sent /\ delivered' = delivered
          /\ faults' = faults /\ discarded' = discarded
      BY <2>2 DEF vars, decoder, history, Decoder
    <3>2. \A response : Units(response)' = Units(response)
      BY <3>1 DEF Units, OnLine
    <3>3. \A responses : LineOf(responses)' = LineOf(responses)
      BY <3>2 DEF LineOf
    <3>4. CASE faults # 0 \/ discarded
      BY <3>1, <3>4 DEF QuietInv
    <3>5. CASE Waiting
      BY <3>1, <3>5 DEF QuietInv, Waiting
    <3>6. CASE faults = 0 /\ ~discarded /\ ~Waiting
      <4>1. PICK response \in Responses, later \in Seq(Responses), j \in Nat, rx \in Decoders :
              Arriving(response, later, j, rx)
        BY <3>6 DEF QuietInv
      <4>2. Arriving(response, later, j, rx)'
        BY <3>1, <3>2, <3>3, <4>1, Zenon DEF Arriving
      <4> QED
        BY <4>2 DEF QuietInv
    <3> QED
      BY <3>4, <3>5, <3>6
  <2> QED
    BY <2>1, <2>2, QuietSend, QuietReceive DEF Next
<1>3. TypeOK /\ QuietInv => QuietLineDelivers
  <2> SUFFICES ASSUME TypeOK, QuietInv, faults = 0, ~discarded
               PROVE  IsPrefix(delivered, sent) /\ (line = << >> => delivered = sent)
    BY DEF QuietLineDelivers
  <2>1. CASE Waiting
    BY <2>1 DEF Waiting, TypeOK, IsPrefix
  <2>2. CASE ~Waiting
    <3>1. PICK response \in Responses, later \in Seq(Responses), j \in Nat, rx \in Decoders :
            Arriving(response, later, j, rx)
      BY <2>2 DEF QuietInv
    <3>2. line # << >>
      <4>1. /\ Units(response) \in Seq(Seq(Byte)) /\ LineOf(later) \in Seq(Seq(Byte))
            /\ j \in 0..(Len(Units(response)) - 1)
            /\ line = SubSeq(Units(response), j + 1, Len(Units(response))) \o LineOf(later)
        BY <3>1, UnitsTyped, LineTyped DEF Arriving
      <4> DEFINE u == Units(response)
                 left == SubSeq(u, j + 1, Len(u))
      <4>2. left \in Seq(Seq(Byte)) /\ Len(left) > 0
        <5> HIDE DEF u
        <5> QED
          BY <4>1 DEF u
      <4> HIDE DEF left
      <4>3. line = left \o LineOf(later)
        BY <4>1 DEF left
      <4>4. Len(left \o LineOf(later)) = Len(left) + Len(LineOf(later))
        BY <4>1, <4>2, ConcatProperties
      <4>5. Len(LineOf(later)) \in Nat /\ Len(left) \in Nat
        BY <4>1, <4>2
      <4>6. Len(line) > 0 /\ Len(<< >>) = 0
        BY <4>2, <4>3, <4>4, <4>5
      <4> QED
        BY <4>6
    <3>3. IsPrefix(delivered, sent)
      <4>1. /\ delivered \in Seq(Seq(Byte)) /\ <<response>> \in Seq(Seq(Byte))
            /\ later \in Seq(Seq(Byte)) /\ sent = (delivered \o <<response>>) \o later
        BY <3>1, ResponsesAssumption DEF TypeOK, Arriving
      <4>2. sent = delivered \o (<<response>> \o later)
        BY <4>1, ConcatAssociative, SMTT(30)
      <4> DEFINE more == <<response>> \o later
      <4>3. more \in Seq(Seq(Byte))
        BY <4>1
      <4> HIDE DEF more
      <4>4. sent = delivered \o more
        BY <4>2 DEF more
      <4> QED
        BY <4>1, <4>3, <4>4 DEF IsPrefix
    <3> QED
      BY <3>2, <3>3
  <2> QED
    BY <2>1, <2>2
<1> QED
  BY <1>1, <1>2, <1>3, CodecTypeCorrect, PTL DEF Spec

-----------------------------------------------------------------------------
(***************************************************************************)
(* Ports that carry whole packets.                                         *)
(***************************************************************************)

\* What a report or a datagram can be: an answer, and whatever fills it up.
Carried ==
    {unit \in Seq(Byte) :
        \E i \in DOMAIN sent, padding \in Seq(Byte) :
            unit = TxPacket(sent[i]) \o padding}

WholeInv ==
    PortSelected # "COM" =>
        /\ line \in Seq(Carried)
        /\ ~Escape
        /\ Genuine

\* A report or a datagram is taken as the answer in it, whatever the decoder
\* has been through, and whatever is behind it in the buffer.
LEMMA UnitTaken ==
    ASSUME TwoByteCrc, ResponsesFit, TypeOK, ~Escape,
           NEW unit \in Carried, NEW stale \in Seq(Byte)
    PROVE  \E i \in DOMAIN sent :
               BuildRxFrame(Decoder, unit \o stale) = Complete(sent[i])
<1>1. PICK i \in DOMAIN sent, padding \in Seq(Byte) :
        unit = TxPacket(sent[i]) \o padding
  BY DEF Carried
<1>2. sent[i] \in Responses
  BY DEF TypeOK
<1>3. PICK response \in Responses : response = sent[i]
  BY <1>2
<1> DEFINE packet == TxPacket(response)
<1>4. packet \in Seq(Byte)
  BY <1>3, TxPacketTyped, ResponsesAssumption
<1>5. Decoder \in Decoders /\ ~Decoder.escape /\ ~Decoder.valid
  BY DEF TypeOK, Decoder, Decoders, Contents
<1>6. BuildRxFrame(Decoder, packet) = Complete(response)
  BY <1>5, FrameTaken
<1>7. Complete(response) \in Decoders /\ Complete(response).valid
  <2>1. Complete(response) \in Decoders
    BY <1>4, <1>5, <1>6, BuildTyped, Zenon
  <2> QED
    BY <2>1 DEF Complete
<1> HIDE DEF packet
<1>8. unit = packet \o padding /\ unit \in Seq(Byte)
  BY <1>1, <1>3, <1>4 DEF packet
<1>9. BuildRxFrame(Decoder, unit) = Complete(response)
  <2>1. BuildRxFrame(Decoder, packet \o padding)
            = BuildRxFrame(BuildRxFrame(Decoder, packet), padding)
    BY <1>4, <1>5, BuildConcat
  <2> QED
    BY <1>6, <1>7, <1>8, <2>1, BuildComplete
<1>10. BuildRxFrame(Decoder, unit \o stale) = Complete(response)
  <2>1. BuildRxFrame(Decoder, unit \o stale)
            = BuildRxFrame(BuildRxFrame(Decoder, unit), stale)
    BY <1>5, <1>8, BuildConcat
  <2> QED
    BY <1>7, <1>9, <2>1, BuildComplete
<1> QED
  BY <1>1, <1>3, <1>10

LEMMA WholeReceive ==
    ASSUME TwoByteCrc, ResponsesFit, TypeOK, WholeInv, ReceiveTask
    PROVE  WholeInv'
<1> SUFFICES ASSUME PortSelected' # "COM"
             PROVE  line' \in Seq(Carried') /\ ~Escape' /\ Genuine'
  BY DEF WholeInv
<1>1. PICK n \in 1..Len(line) :
        /\ PortSelected # "COM" => n = 1
        /\ line' = SubSeq(line, n + 1, Len(line))
        /\ LET read == FlattenSeq(SubSeq(line, 1, n))
               rx == BuildRxFrame(Decoder, read \o Stale(read))
           IN  /\ RxData' = rx.data
               /\ Escape' = rx.escape
               /\ delivered' = IF rx.valid
                               THEN Append(delivered, SubSeq(rx.data, 1, Len(rx.data) - 2))
                               ELSE delivered
        /\ UNCHANGED <<PortSelected, sent>>
  BY DEF ReceiveTask
<1>2. /\ PortSelected # "COM" /\ n = 1 /\ sent' = sent /\ Carried' = Carried
      /\ line \in Seq(Carried) /\ ~Escape /\ Genuine /\ 1 \in 1..Len(line)
  BY <1>1 DEF WholeInv, Carried
<1>3. line' \in Seq(Carried) /\ line[1] \in Carried /\ SubSeq(line, 1, 1) = <<line[1]>>
  <2>1. PICK S : S = Carried
    OBVIOUS
  <2>2. line \in Seq(S) /\ Len(line) \in Nat /\ line' = SubSeq(line, 2, Len(line))
    BY <1>1, <1>2, <2>1
  <2>3. line' \in Seq(S)
    BY <2>2
  <2>4. line[1] \in S
    BY <1>2, <2>2
  <2>5. SubSeq(line, 1, 1) = <<line[1]>>
    <3> DEFINE first == SubSeq(line, 1, 1)
    <3>1. first \in Seq(S) /\ Len(first) = 1 /\ first[1] = line[1]
      BY <1>2, <2>2
    <3> HIDE DEF first
    <3>2. first = <<first[1]>>
      BY <3>1
    <3> QED
      BY <3>1, <3>2 DEF first
  <2> QED
    BY <2>1, <2>3, <2>4, <2>5
<1>4. /\ line[1] \in Seq(Byte) /\ buffer \in Seq(Byte) /\ sent \in Seq(Responses)
      /\ delivered \in Seq(Seq(Byte))
  BY <1>3 DEF Carried, TypeOK
<1>5. PICK unit \in Carried : unit = line[1] /\ unit \in Seq(Byte)
  BY <1>3, <1>4
<1>6. FlattenSeq(SubSeq(line, 1, n)) = unit
  BY <1>2, <1>3, <1>5, FlattenOne, Zenon
<1>7. Stale(unit) \in Seq(Byte)
  <2>1. SubSeq(buffer, Len(unit) + 1, Len(buffer)) \in Seq(Byte)
    BY <1>4, <1>5
  <2> QED
    BY <2>1 DEF Stale
<1>8. PICK i \in DOMAIN sent :
        BuildRxFrame(Decoder, unit \o Stale(unit)) = Complete(sent[i])
  BY <1>2, <1>5, <1>7, UnitTaken
<1> DEFINE dec == BuildRxFrame(Decoder, unit \o Stale(unit))
<1>9. /\ Escape' = dec.escape
      /\ delivered' = IF dec.valid
                      THEN Append(delivered, SubSeq(dec.data, 1, Len(dec.data) - 2))
                      ELSE delivered
  BY <1>1, <1>6
<1> HIDE DEF dec
<1>10. dec.valid /\ ~dec.escape /\ dec.data = sent[i] \o Crc(sent[i])
  BY <1>8 DEF dec, Complete
<1>11. SubSeq(dec.data, 1, Len(dec.data) - 2) = sent[i]
  <2>1. PICK response \in Responses : response = sent[i]
    BY <1>4
  <2>2. SubSeq(response \o Crc(response), 1, Len(response \o Crc(response)) - 2) = response
    BY ContentOfFrame
  <2> QED
    BY <1>10, <2>1, <2>2
<1>12. delivered' = Append(delivered, sent[i])
  BY <1>9, <1>10, <1>11
<1>13. Genuine'
  BY <1>2, <1>4, <1>12 DEF Genuine, ToSet
<1> QED
  BY <1>2, <1>3, <1>9, <1>10, <1>13

LEMMA WholeSend ==
    ASSUME TwoByteCrc, TypeOK, WholeInv, DeviceSends
    PROVE  WholeInv'
<1> SUFFICES ASSUME PortSelected' # "COM"
             PROVE  line' \in Seq(Carried') /\ ~Escape' /\ Genuine'
  BY DEF WholeInv
<1>1. PICK response \in Responses :
        /\ line' = line \o OnLine(TxPacket(response))
        /\ sent' = Append(sent, response)
        /\ UNCHANGED <<PortSelected, Escape, delivered>>
  BY DEF DeviceSends, decoder
<1>2. /\ PortSelected \in {"USB", "ETH"} /\ sent \in Seq(Responses)
      /\ line \in Seq(Carried) /\ ~Escape /\ Genuine
  BY <1>1, PortsAssumption DEF WholeInv, TypeOK
<1>3. TxPacket(response) \in Seq(Byte)
  BY TxPacketTyped, ResponsesAssumption
<1> DEFINE last == Len(sent')
<1>4. /\ last \in DOMAIN sent' /\ sent'[last] = response
      /\ \A i \in DOMAIN sent : i \in DOMAIN sent' /\ sent'[i] = sent[i]
  BY <1>1, <1>2
<1> HIDE DEF last
<1>5. Carried \subseteq Carried'
  BY <1>4 DEF Carried
<1>6. \E unit \in Carried' : OnLine(TxPacket(response)) = <<unit>>
  <2> DEFINE packet == TxPacket(response)
             padding == [i \in 1..(ReadSize - Len(packet)) |-> 0]
  <2>1. padding \in Seq(Byte) /\ << >> \in Seq(Byte)
    BY <1>3, PaddingTyped
  <2>2. CASE PortSelected = "USB"
    <3>1. OnLine(packet) = <<packet \o padding>>
      BY <2>2 DEF OnLine
    <3> HIDE DEF packet, padding
    <3>2. packet \o padding \in Seq(Byte)
      BY <1>3, <2>1 DEF packet
    <3>3. packet \o padding \in Carried'
      BY <1>4, <2>1, <3>2 DEF Carried, packet
    <3> QED
      BY <3>1, <3>3 DEF packet
  <2>3. CASE PortSelected = "ETH"
    <3>1. OnLine(packet) = <<packet>>
      BY <2>3 DEF OnLine
    <3> HIDE DEF packet
    <3>2. packet \in Seq(Byte) /\ packet = packet \o << >>
      BY <1>3 DEF packet
    <3>3. packet \in Carried'
      BY <1>4, <2>1, <3>2 DEF Carried, packet
    <3> QED
      BY <3>1, <3>3 DEF packet
  <2> QED
    BY <1>2, <2>2, <2>3
<1>7. line' \in Seq(Carried')
  BY <1>1, <1>2, <1>5, <1>6
<1>8. Genuine'
  BY <1>1, <1>2, <1>4 DEF Genuine, ToSet
<1> QED
  BY <1>1, <1>2, <1>7, <1>8

\* Losses, duplicates, overtaking and reconnections leave what is on the line
\* in units.
LEMMA UnitsStay ==
    ASSUME NEW S, line \in Seq(S), Lose \/ Duplicate \/ Overtake \/ Reconnect
    PROVE  line' \in Seq(S)
<1>1. CASE Lose
  <2>1. PICK i \in DOMAIN line : line' = RemoveAt(line, i)
    BY <1>1 DEF Lose
  <2>2. /\ SubSeq(line, 1, i - 1) \in Seq(S)
        /\ SubSeq(line, i + 1, Len(line)) \in Seq(S)
    BY <2>1
  <2> QED
    BY <2>1, <2>2 DEF RemoveAt
<1>2. CASE Duplicate
  <2>1. PICK i \in DOMAIN line : line' = InsertAt(line, i, line[i])
    BY <1>2 DEF Duplicate
  <2>2. /\ SubSeq(line, 1, i - 1) \in Seq(S)
        /\ SubSeq(line, i, Len(line)) \in Seq(S)
        /\ <<line[i]>> \in Seq(S)
    BY <2>1
  <2> QED
    BY <2>1, <2>2 DEF InsertAt
<1>3. CASE Overtake
  <2>1. PICK i \in 2..Len(line) :
          line' = [line EXCEPT ![i] = line[i - 1], ![i - 1] = line[i]]
    BY <1>3 DEF Overtake
  <2>2. /\ i \in 1..Len(line) /\ i - 1 \in 1..Len(line)
        /\ line[i] \in S /\ line[i - 1] \in S
    BY <2>1
  <2> DEFINE half == [line EXCEPT ![i] = line[i - 1]]
  <2>3. half \in Seq(S) /\ Len(half) = Len(line)
    BY <2>2, ExceptSeq
  <2>4. line' = [half EXCEPT ![i - 1] = line[i]]
    BY <2>1
  <2> HIDE DEF half
  <2> QED
    BY <2>2, <2>3, <2>4, ExceptSeq
<1>4. CASE Reconnect
  BY <1>4 DEF Reconnect
<1> QED
  BY <1>1, <1>2, <1>3, <1>4

LEMMA WholeFault ==
    ASSUME WholeInv, Lose \/ Disturb \/ Duplicate \/ Overtake \/ Reconnect
    PROVE  WholeInv'
<1>1. Fault
  BY DEF Lose, Disturb, Duplicate, Overtake, Reconnect
<1>2. /\ PortSelected' = PortSelected /\ Escape' = Escape
      /\ sent' = sent /\ delivered' = delivered
  BY <1>1 DEF Fault, decoder
<1>3. Carried' = Carried /\ Genuine' = Genuine
  BY <1>2 DEF Carried, Genuine
<1>4. CASE PortSelected # "COM"
  <2>1. Lose \/ Duplicate \/ Overtake \/ Reconnect
    BY <1>4 DEF Disturb
  <2>2. PICK S : S = Carried
    OBVIOUS
  <2>3. line \in Seq(S)
    BY <1>4, <2>2 DEF WholeInv
  <2>4. line' \in Seq(S)
    BY <2>1, <2>3, UnitsStay
  <2> QED
    BY <1>2, <1>3, <1>4, <2>2, <2>4 DEF WholeInv
<1> QED
  BY <1>2, <1>4 DEF WholeInv

\* Reports and datagrams are answers the device sent, whatever is lost, comes
\* twice or too early, or is left in the buffer: there the CRC is not needed.
\* On the serial line it is, once a byte is disturbed or a read drops some.
THEOREM WholePacketsAreGenuine ==
    ASSUME TwoByteCrc, ResponsesFit
    PROVE  Spec => []((PortSelected # "COM" \/ (faults = 0 /\ ~discarded)) => Genuine)
<1>1. Init => WholeInv
  BY DEF Init, WholeInv, Genuine
<1>2. TypeOK /\ WholeInv /\ [Next]_vars => WholeInv'
  <2> SUFFICES ASSUME TypeOK, WholeInv, [Next]_vars PROVE WholeInv'
    OBVIOUS
  <2>1. CASE UNCHANGED vars
    BY <2>1 DEF WholeInv, Carried, Genuine, vars, decoder, history
  <2> QED
    BY <2>1, WholeSend, WholeReceive, WholeFault DEF Next
<1>3. /\ TypeOK /\ WholeInv /\ QuietLineDelivers
      => ((PortSelected # "COM" \/ (faults = 0 /\ ~discarded)) => Genuine)
  <2> SUFFICES ASSUME TypeOK, QuietLineDelivers, faults = 0, ~discarded
               PROVE  Genuine
    BY DEF WholeInv
  <2>1. /\ delivered \in Seq(Seq(Byte)) /\ sent \in Seq(Seq(Byte))
        /\ Len(delivered) <= Len(sent)
        /\ SubSeq(delivered, 1, Len(delivered)) = SubSeq(sent, 1, Len(delivered))
    BY ResponsesAssumption DEF QuietLineDelivers, IsPrefix, TypeOK
  <2>2. ASSUME NEW i \in DOMAIN delivered
        PROVE  i \in DOMAIN sent /\ delivered[i] = sent[i]
    <3>1. i \in 1..Len(delivered) /\ i \in 1..Len(sent)
      BY <2>1
    <3>2. SubSeq(delivered, 1, Len(delivered))[i] = delivered[i]
      BY <2>1, <3>1
    <3>3. SubSeq(sent, 1, Len(delivered))[i] = sent[i]
      BY <2>1, <3>1
    <3> QED
      BY <2>1, <3>1, <3>2, <3>3
  <2> QED
    BY <2>2 DEF Genuine, ToSet
<1> QED
  BY <1>1, <1>2, <1>3, CodecTypeCorrect, QuietLineTaken, PTL DEF Spec
=============================================================================
