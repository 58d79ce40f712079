------------------------------ MODULE FrameCodec ------------------------------
(***************************************************************************)
(* The answers of the device on their way to ReceiveTask (bootloader.cpp): *)
(* frames with SOH, EOT, escaped bytes and a CRC, the ports that cut them  *)
(* into reads, and the receiving automaton BuildRxFrame.                   *)
(*                                                                         *)
(* The line holds what the ports can deliver at the earliest one by one:   *)
(*   COM  bytes; a read returns any number of them                         *)
(*   USB  reports of a fixed length; a read returns one, with its padding  *)
(*   ETH  datagrams; a read returns one, but claims the length of the      *)
(*        buffer, so that what the buffer held before follows it           *)
(***************************************************************************)
EXTENDS Integers, Sequences, FiniteSets, SequencesExt

CONSTANTS
    Ports,      \* the ports looked at: a subset of {"COM", "USB", "ETH"}
    Responses,  \* what the device answers: sequences of bytes
    Crc(_),     \* the two bytes of the CRC of a sequence of bytes
    RxSize,     \* sizeof(RxData)
    ReadSize,   \* the bytes ReceiveTask asks a port for; length of a report
    NoiseBytes, \* what a disturbed byte may turn into
    MaxSends,   \* bound: answers sent
    MaxFaults   \* bound: disturbances of the line

SOH == 1
EOT == 4
DLE == 16
Special == {SOH, EOT, DLE}

Byte == 0..255

ASSUME PortsAssumption == Ports \subseteq {"COM", "USB", "ETH"}
ASSUME ResponsesAssumption == Responses \subseteq Seq(Byte)
ASSUME NoiseAssumption == NoiseBytes \subseteq Byte
ASSUME SizesAssumption == RxSize \in Nat /\ RxSize > 2 /\ ReadSize \in Nat
ASSUME BoundsAssumption == MaxSends \in Nat /\ MaxFaults \in Nat

VARIABLES
    PortSelected,
    line,
    buffer,        \* Buff of ReceiveTask, as the last read left it
    RxData,        \* the RxDataLen bytes of RxData in use
    Escape,
    RxFrameValid,
    sent,          \* the answers the device sent
    delivered,     \* the answers HandleResponse was called with
    discarded,     \* did a read end behind a valid frame and more of the line?
    faults

decoder == <<RxData, Escape, RxFrameValid>>
history == <<sent, delivered, discarded, faults>>
vars == <<PortSelected, line, buffer, decoder, history>>

Init ==
    /\ PortSelected \in Ports
    /\ line = << >>
    /\ buffer = << >>
    /\ RxData = << >>
    /\ Escape = FALSE
    /\ RxFrameValid = FALSE
    /\ sent = << >>
    /\ delivered = << >>
    /\ discarded = FALSE
    /\ faults = 0

-----------------------------------------------------------------------------
(***************************************************************************)
(* Framing, as SendCommand does it and, external, the device too.          *)
(***************************************************************************)

\* Mutant: DLE itself is not escaped.
EscapedPartly(data) ==
    FlattenSeq([i \in DOMAIN data |->
        IF data[i] \in {SOH, EOT} THEN <<DLE, data[i]>> ELSE <<data[i]>>])

\* "Insert DLE in the data field whereever SOH and EOT are present", and DLE.
Escaped(data) ==
    FlattenSeq([i \in DOMAIN data |->
        IF data[i] \in Special THEN <<DLE, data[i]>> ELSE <<data[i]>>])

TxPacket(data) == <<SOH>> \o Escaped(data \o Crc(data)) \o <<EOT>>

\* What the device puts on the line: bytes, or one report or datagram.
OnLine(packet) ==
    CASE PortSelected = "COM" -> [i \in DOMAIN packet |-> <<packet[i]>>]
      [] PortSelected = "USB" ->
             <<packet \o [i \in 1..(ReadSize - Len(packet)) |-> 0]>>
      [] PortSelected = "ETH" -> <<packet>>

DeviceSends ==
    /\ Len(sent) < MaxSends
    /\ \E response \in Responses :
           /\ line' = line \o OnLine(TxPacket(response))
           /\ sent' = Append(sent, response)
    /\ UNCHANGED <<PortSelected, buffer, decoder, delivered, discarded, faults>>

-----------------------------------------------------------------------------
(***************************************************************************)
(* BuildRxFrame.  A decoder is [data, escape, valid].                      *)
(***************************************************************************)

\* Mutant: the buffer counts as full when it overflows.
LimitedLate(rx) ==
    IF Len(rx.data) > RxSize THEN [rx EXCEPT !.data = << >>] ELSE rx

\* if(RxDataLen >= (sizeof(RxData)-2)) RxDataLen = 0
Limited(rx) ==
    IF Len(rx.data) >= RxSize - 2 THEN [rx EXCEPT !.data = << >>] ELSE rx

\* Mutant: the CRC is not compared.
CrcIgnored(data) == Len(data) > 2

\* Two bytes of CRC, low one first, behind at least one other byte.
CrcMatches(data) ==
    /\ Len(data) > 2
    /\ SubSeq(data, Len(data) - 1, Len(data))
           = Crc(SubSeq(data, 1, Len(data) - 2))

\* Mutant: a start of header is simply skipped.
ControlWithoutStart(rx, byte) ==
    CASE byte = SOH -> rx
      [] byte = EOT -> [rx EXCEPT !.valid = CrcMatches(rx.data)]
      [] byte = DLE -> [rx EXCEPT !.escape = TRUE]

\* A control byte that is not escaped.
Control(rx, byte) ==
    CASE byte = SOH -> [rx EXCEPT !.data = << >>]
      [] byte = EOT -> [rx EXCEPT !.valid = CrcMatches(rx.data)]
      [] byte = DLE -> [rx EXCEPT !.escape = TRUE]

Data(rx, byte) == [rx EXCEPT !.data = Append(@, byte), !.escape = FALSE]

Received(rx, byte) ==
    IF byte \in Special /\ ~rx.escape
    THEN Control(Limited(rx), byte)
    ELSE Data(Limited(rx), byte)

\* RxFrameValid == false: what comes behind a frame is not looked at.
Taken(rx, byte) == IF rx.valid THEN rx ELSE Received(rx, byte)

\* while((buffLen > 0) && (RxFrameValid == false))
BuildRxFrame(rx, buff) ==
    LET after[n \in 0..Len(buff)] ==
            IF n = 0 THEN rx ELSE Taken(after[n - 1], buff[n])
    IN  after[Len(buff)]

Decoder == [data |-> RxData, escape |-> Escape, valid |-> RxFrameValid]

-----------------------------------------------------------------------------
(***************************************************************************)
(* ReceiveTask.                                                            *)
(***************************************************************************)

\* ReadUdpPort returns MaxLen: the buffer behind the datagram is read too.
\* Buff is a local array; here it still holds what was read into it before.
Stale(read) ==
    IF PortSelected = "ETH" THEN SubSeq(buffer, Len(read) + 1, Len(buffer))
                            ELSE << >>

\* A frame is complete before the last of the n units of the line is used.
CompleteBefore(n) ==
    \E k \in 1..(n - 1) :
        BuildRxFrame(Decoder, FlattenSeq(SubSeq(line, 1, k))).valid

\* ReadPort, BuildRxFrame, and HandleResponse for a valid frame.
ReceiveTask ==
    \E n \in 1..Len(line) :
        /\ PortSelected = "COM" => n <= ReadSize
        /\ PortSelected # "COM" => n = 1
        /\ line' = SubSeq(line, n + 1, Len(line))
        /\ discarded' = (discarded \/ CompleteBefore(n))
        /\ LET read == FlattenSeq(SubSeq(line, 1, n))
               rx == BuildRxFrame(Decoder, read \o Stale(read))
           IN  /\ buffer' = read \o Stale(read)
               /\ RxData' = rx.data
               /\ Escape' = rx.escape
               /\ delivered' = IF rx.valid
                               THEN Append(delivered, SubSeq(rx.data, 1, Len(rx.data) - 2))
                               ELSE delivered
        /\ RxFrameValid' = FALSE
        /\ UNCHANGED <<PortSelected, sent, faults>>

-----------------------------------------------------------------------------
(***************************************************************************)
(* Faults of the line, external.                                           *)
(***************************************************************************)
Fault ==
    /\ faults < MaxFaults
    /\ faults' = faults + 1
    /\ UNCHANGED <<PortSelected, buffer, decoder, sent, delivered, discarded>>

\* A byte, a report or a datagram is lost.
Lose ==
    /\ Fault
    /\ \E i \in DOMAIN line : line' = RemoveAt(line, i)

\* A byte is changed; USB and UDP check what they carry.
Disturb ==
    /\ Fault
    /\ PortSelected = "COM"
    /\ \E i \in DOMAIN line, byte \in NoiseBytes :
           line' = [line EXCEPT ![i] = <<byte>>]

\* A datagram arrives twice, or before the one sent before it.
Duplicate ==
    /\ Fault
    /\ PortSelected = "ETH"
    /\ \E i \in DOMAIN line : line' = InsertAt(line, i, line[i])

Overtake ==
    /\ Fault
    /\ PortSelected = "ETH"
    /\ \E i \in 2..Len(line) :
           line' = [line EXCEPT ![i] = line[i - 1], ![i - 1] = line[i]]

\* The port is closed and opened again: RxData and Escape stay as they are.
Reconnect ==
    /\ Fault
    /\ line # << >>
    /\ line' = << >>

-----------------------------------------------------------------------------
Next ==
    \/ DeviceSends
    \/ ReceiveTask
    \/ Lose
    \/ Disturb
    \/ Duplicate
    \/ Overtake
    \/ Reconnect

Spec == Init /\ [][Next]_vars

-----------------------------------------------------------------------------
(***************************************************************************)
(* Properties.                                                             *)
(***************************************************************************)

\* Every variable has a value of its type, and no byte is written behind
\* RxData: when one is stored there are two more free (bootloader.cpp:255).
TypeOK ==
    /\ PortSelected \in Ports
    /\ line \in Seq(Seq(Byte))
    /\ buffer \in Seq(Byte)
    /\ RxData \in Seq(Byte)
    /\ Len(RxData) <= RxSize - 2
    /\ Escape \in BOOLEAN
    /\ RxFrameValid = FALSE
    /\ sent \in Seq(Responses)
    /\ delivered \in Seq(Seq(Byte))
    /\ discarded \in BOOLEAN
    /\ faults \in 0..MaxFaults

\* "CRC matches and frame received is valid" (bootloader.cpp:297): whatever
\* was lost or disturbed, what HandleResponse gets is an answer the device
\* sent, and never something put together from pieces.
Genuine == \A i \in DOMAIN delivered : delivered[i] \in ToSet(sent)

\* "indeed a EOT which indicates end of frame" (bootloader.cpp:289): without
\* faults no answer is taken twice or out of order, however reads cut them.
\* No run claims it: a read that goes on behind a frame and ends inside the
\* next one has the first one accepted again, and TLC refutes it.
TakenOnce ==
    faults = 0 =>
        \E kept \in SUBSET DOMAIN sent :
            LET order == SetToSortSeq(kept, <)
            IN  delivered = [i \in DOMAIN order |-> sent[order[i]]]

\* Without faults every answer is taken, once and in order, unless a read
\* goes on behind another answer: no content, cut, padding or stale buffer
\* costs or repeats one.
QuietLineDelivers ==
    (faults = 0 /\ ~discarded) =>
        /\ IsPrefix(delivered, sent)
        /\ line = << >> => delivered = sent

\* Whatever the automaton has been through, bytes lost in the middle of an
\* escape or a connection cut off in a frame included, it accepts an answer
\* that comes twice at the latest the second time: one retry is enough.
Resynchronises ==
    \A response \in Responses :
        LET once == BuildRxFrame(Decoder, TxPacket(response))
        IN  \/ once.valid
            \/ /\ BuildRxFrame(once, TxPacket(response)).valid
               /\ BuildRxFrame(once, TxPacket(response)).data
                      = response \o Crc(response)
=============================================================================
