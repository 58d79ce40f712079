-------------------------- MODULE BootLoaderProofs --------------------------
(***************************************************************************)
(* Theorems about the engine, for every value of its constants: any number *)
(* of tries, any hex files, any client of the engine, any fault of the     *)
(* link, any timing.                                                       *)
(***************************************************************************)
EXTENDS BootLoader, SequenceTheorems, TLAPS

(***************************************************************************)
(* What the records of the model are.  The proofs below cite these facts   *)
(* and leave Packet, Reply and Notice unexpanded.                          *)
(***************************************************************************)
LEMMA CutIsPacket == Cut \in Packet
BY DEF Cut, Packet

LEMMA NoiseIsReply == Noise \in Reply
BY DEF Noise, Reply

LEMMA PacketType ==
    \A c \in Commands, n \in Nat : [cmd |-> c, arg |-> n] \in Packet
BY DEF Packet

LEMMA PacketFields ==
    \A p \in Packet : p.cmd \in Commands \cup {NoCommand} /\ p.arg \in Nat
BY DEF Packet

LEMMA ReplyFields == \A r \in Reply : r.cmd \in Commands \cup {NoCommand}
BY DEF Reply

LEMMA NoticeType ==
    \A c \in Commands, k \in {"response", "failure"} :
        [kind |-> k, cmd |-> c] \in Notice
BY DEF Notice

LEMMA CommandNames ==
    /\ Answered \subseteq Commands
    /\ {"READ_BOOT_INFO", "ERASE_FLASH", "PROGRAM_FLASH", "READ_CRC",
        "JMP_TO_APP"} \subseteq Commands
    /\ "PROGRAM_FLASH" \in Answered
    /\ NoCommand \notin Commands
BY DEF Commands, Answered, NoCommand

\* The device's answer to a packet, and its flash, are well formed.
LEMMA AnswerType ==
    ASSUME NEW p \in Packet, flash \in SUBSET Nat
    PROVE  /\ Flashed(p) \in SUBSET Nat
           /\ \A f \in SUBSET Nat : Answer(p, f) \in Reply
<1>1. p.arg \in Nat /\ p.cmd \in Commands \cup {NoCommand}
  BY PacketFields
<1>2. Flashed(p) \in SUBSET Nat
  BY <1>1 DEF Flashed
<1>3. \A f \in SUBSET Nat : Answer(p, f) \in Reply
  BY <1>1 DEF Answer, Reply
<1> QED
  BY <1>2, <1>3

-----------------------------------------------------------------------------
(***************************************************************************)
(* Type correctness.  TypeOK is inductive together with the fact that the  *)
(* command the GUI thread is about to arm is one of T_COMMANDS, so that    *)
(* Retries[guiCmd] is a number of tries.                                   *)
(***************************************************************************)
GuiCmdOK == gui = "arm" => guiCmd \in Commands

TypeInv == TypeOK /\ GuiCmdOK

LEMMA InitTypeInv == Init => TypeInv
<1> SUFFICES ASSUME Init PROVE TypeInv
  OBVIOUS
<1> USE DEF Init
<1>1. /\ TxState \in {"FIRST_TRY", "RE_TRY"}
      /\ RetryCount \in Nat
      /\ MaxRetry \in Nat
      /\ LastSentCommand \in Commands \cup {NoCommand}
  BY GarbageAssumption
<1>2. Buff \in Packet /\ TxPacket \in Packet /\ RxData \in Reply
  BY CutIsPacket, NoiseIsReply
<1>3. /\ toDevice \in Seq(Packet)
      /\ toHost \in Seq(Reply)
      /\ posted \in Seq(Notice)
  OBVIOUS
<1>4. faults \in 0..MaxFaults /\ Sizes
  BY FaultAssumption, LinkBoundAssumption DEF Sizes
<1> QED
  BY <1>1, <1>2, <1>3, <1>4 DEF TypeInv, TypeOK, GuiCmdOK

\* What is left of the link after a read.
LEMMA ReadPortType ==
    ASSUME TypeInv, NEW n, ReadPort(n)
    PROVE  /\ toHost' \in Seq(Reply)
           /\ Len(toHost') <= LinkBound
           /\ n \in 0..LinkBound
           /\ \A i \in 1..n : toHost[i] \in Reply
<1>1. toHost \in Seq(Reply) /\ Len(toHost) \in Nat /\ Len(toHost) <= LinkBound
  BY DEF TypeInv, TypeOK, Sizes
<1>2. n \in 0..Len(toHost)
  BY DEF ReadPort
<1>3. toHost' = SubSeq(toHost, n + 1, Len(toHost))
  BY DEF ReadPort
<1>4. \A i \in 1..Len(toHost) : toHost[i] \in Reply
  BY <1>1
<1>5. toHost' \in Seq(Reply)
  <2>1. \A i \in (n + 1)..Len(toHost) : toHost[i] \in Reply
    BY <1>1, <1>2, <1>4
  <2> QED
    BY <1>1, <1>2, <1>3, <2>1, SubSeqProperties
<1>6. Len(toHost') <= LinkBound
  <2>1. Len(toHost') = IF n + 1 <= Len(toHost) THEN Len(toHost) - n ELSE 0
    BY <1>1, <1>2, <1>3, <1>4, SubSeqProperties
  <2> QED
    BY <1>1, <1>2, <2>1, LinkBoundAssumption
<1> QED
  BY <1>1, <1>2, <1>4, <1>5, <1>6, LinkBoundAssumption

LEMMA ReceiveFrameType ==
    ASSUME TypeInv, ReceiveFrame
    PROVE  /\ toHost' \in Seq(Reply)
           /\ Len(toHost') <= LinkBound
           /\ RxData' \in Reply
           /\ TxState' = "FIRST_TRY"
           /\ RetryCount' = 0
           /\ UNCHANGED NoResponseFromDevice
<1>1. PICK n \in 1..LinkBound :
        ReadPort(n) /\ \E i \in 1..n : RxData' = toHost[i]
  BY DEF ReceiveFrame
<1> QED
  BY <1>1, ReadPortType DEF ReceiveFrame, StopTxRetries

-----------------------------------------------------------------------------
\* Queueing a notification.
LEMMA PostType ==
    ASSUME posted \in Seq(Notice),
           NEW k \in {"response", "failure"}, NEW c \in Commands, Post(k, c)
    PROVE  posted' \in Seq(Notice)
<1> DEFINE notice == [kind |-> k, cmd |-> c]
<1>1. notice \in Notice
  BY NoticeType
<1>2. posted' = Append(posted, notice)
  BY DEF Post
<1> HIDE DEF notice
<1> QED
  BY <1>1, <1>2

LEMMA HandleNoResponseType ==
    ASSUME posted \in Seq(Notice), HandleNoResponse
    PROVE  posted' \in Seq(Notice)
<1>1. CASE LastSentCommand \in Answered
  BY <1>1, PostType, CommandNames DEF HandleNoResponse
<1>2. CASE LastSentCommand \notin Answered
  BY <1>2 DEF HandleNoResponse
<1> QED
  BY <1>1, <1>2

LEMMA StoreRetryCountType ==
    ASSUME TypeInv, StoreRetryCount, UNCHANGED crashed
    PROVE  TypeInv'
<1>1. RetryCount' \in Nat
  BY DEF StoreRetryCount, TypeInv, TypeOK
<1>2. retryDue' \in BOOLEAN
  <2>1. retryDue' = FALSE
    BY DEF StoreRetryCount
  <2> QED
    BY <2>1
<1>3. /\ TxState' = "RE_TRY"
      /\ worker' = "receive"
      /\ UNCHANGED <<MaxRetry, reg, packetVars, rxVars, hexVars, threadVars,
                     guiVars, portOpen, linkVars, deviceVars, crashed>>
  BY DEF StoreRetryCount
<1> QED
  BY <1>1, <1>2, <1>3
     DEF TypeInv, TypeOK, GuiCmdOK, Sizes, packetVars, rxVars, hexVars,
         threadVars, guiVars, linkVars, deviceVars

LEMMA ClosePortType ==
    ASSUME TypeInv, ClosePort
    PROVE  TypeInv'
<1>1. portOpen' \in BOOLEAN
  BY Zenon DEF ClosePort
<1>2. toHost' \in Seq(Reply) /\ Len(toHost') <= LinkBound
  BY LinkBoundAssumption DEF ClosePort
<1>3. UNCHANGED <<retryVars, packetVars, rxVars, hexVars, threadVars, guiVars,
                  worker, crashed, toDevice, deviceVars>>
  BY DEF ClosePort
<1> QED
  BY <1>1, <1>2, <1>3
     DEF TypeInv, TypeOK, GuiCmdOK, Sizes, retryVars, packetVars, rxVars,
         hexVars, threadVars, guiVars, deviceVars

-----------------------------------------------------------------------------
\* The worker's steps.
LEMMA WorkerTypeInv ==
    ASSUME TypeInv, Worker
    PROVE  TypeInv'
<1> USE CutIsPacket, NoiseIsReply, PacketType, NoticeType, CommandNames,
        ReplyFields, LinkBoundAssumption
    DEF TypeInv, TypeOK, GuiCmdOK, Sizes, retryVars, packetVars, rxVars,
        hexVars, threadVars, guiVars, linkVars, deviceVars
<1>0. crashed' \in BOOLEAN
  BY DEF Worker, ReceiveProgramCrash
<1>1. CASE WorkerExits
  BY <1>0, <1>1 DEF WorkerExits
<1>2. CASE Transmit
  BY <1>0, <1>2 DEF Transmit, WritePort
<1>3. CASE TransmitNothing
  BY <1>0, <1>3 DEF TransmitNothing
<1>4. CASE RetriesExceeded
  BY <1>0, <1>4 DEF RetriesExceeded
<1>5. CASE LoadRetryCount
  BY <1>0, <1>5 DEF LoadRetryCount
<1>6. CASE StoreRetryCount /\ UNCHANGED crashed
  BY <1>6, StoreRetryCountType
<1>7. CASE ReceiveNothing
  <2>1. PICK n \in 0..LinkBound :
          ReadPort(n) /\ RxData' = IF n = 0 THEN RxData ELSE Noise
    BY <1>7 DEF ReceiveNothing
  <2>2. toHost' \in Seq(Reply) /\ Len(toHost') <= LinkBound
    BY <2>1, ReadPortType
  <2>3. RxData' \in Reply
    BY <2>1
  <2>4. posted' \in Seq(Notice)
    <3>1. HandleNoResponse \/ UNCHANGED posted
      BY <1>7, Zenon DEF ReceiveNothing
    <3> QED
      BY <3>1, HandleNoResponseType
  <2>5. NoResponseFromDevice' \in BOOLEAN
    BY <1>7, Zenon DEF ReceiveNothing
  <2>6. /\ worker' = "loop"
        /\ UNCHANGED <<retryVars, packetVars, hexVars, threadVars, guiVars,
                       portOpen, toDevice, deviceVars>>
    BY <1>7 DEF ReceiveNothing
  <2> QED
    BY <1>0, <2>2, <2>3, <2>4, <2>5, <2>6
<1>8. CASE ReceiveResponse
  <2>1. ReceiveFrame
    BY <1>8 DEF ReceiveResponse
  <2>2. posted' \in Seq(Notice)
    <3>1. /\ RxData'.cmd \in Commands
          /\ Post("response", RxData'.cmd)
      BY <1>8 DEF ReceiveResponse
    <3> QED
      BY <3>1, PostType
  <2>3. /\ worker' = "loop"
        /\ UNCHANGED <<MaxRetry, retryDue, reg, packetVars, hexVars,
                       threadVars, guiVars, portOpen, toDevice, deviceVars>>
    BY <1>8 DEF ReceiveResponse
  <2> QED
    BY <1>0, <2>1, <2>2, <2>3, ReceiveFrameType
<1>9. CASE ReceiveProgramNext
  <2>1. ReceiveFrame
    BY <1>9 DEF ReceiveProgramNext
  <2>2. ResetHexFilePtr' \in BOOLEAN
    BY <1>9, Zenon DEF ReceiveProgramNext
  <2>3. /\ Enter("PROGRAM_FLASH", HexPos + 1)
        /\ HexPos' = HexPos + 1
        /\ reg' = MaxRetry
        /\ worker' = "arm"
        /\ UNCHANGED <<MaxRetry, retryDue, posted, HexFile, threadVars,
                       guiVars, portOpen, toDevice, deviceVars>>
    BY <1>9 DEF ReceiveProgramNext
  <2> QED
    BY <1>0, <2>1, <2>2, <2>3, ReceiveFrameType DEF Enter
<1>10. CASE ReceiveProgramDone
  <2>1. ReceiveFrame
    BY <1>10 DEF ReceiveProgramDone
  <2>2. ResetHexFilePtr' \in BOOLEAN
    BY <1>10, Zenon DEF ReceiveProgramDone
  <2>4. posted' \in Seq(Notice)
    BY <1>10, PostType DEF ReceiveProgramDone
  <2>3. /\ EnterNoRecord
        /\ worker' = "loop"
        /\ UNCHANGED <<MaxRetry, retryDue, reg, HexFile, HexPos, threadVars,
                       guiVars, portOpen, toDevice, deviceVars>>
    BY <1>10 DEF ReceiveProgramDone
  <2> QED
    BY <1>0, <2>1, <2>2, <2>3, <2>4, ReceiveFrameType DEF EnterNoRecord
<1>11. CASE ReceiveProgramCrash
  <2>1. ReceiveFrame
    BY <1>11 DEF ReceiveProgramCrash
  <2>2. UNCHANGED <<MaxRetry, retryDue, reg, packetVars, posted, hexVars,
                    threadVars, guiVars, worker, portOpen, toDevice,
                    deviceVars>>
    BY <1>11 DEF ReceiveProgramCrash
  <2> QED
    BY <1>0, <2>1, <2>2, ReceiveFrameType
<1>12. CASE WorkerArms
  BY <1>0, <1>12 DEF WorkerArms, Arm
<1>13. CASE WorkerFrames
  BY <1>0, <1>13 DEF WorkerFrames, Frame
<1> QED
  BY <1>1, <1>2, <1>3, <1>4, <1>5, <1>6, <1>7, <1>8, <1>9, <1>10, <1>11,
     <1>12, <1>13 DEF Worker

\* The GUI thread's calls.
LEMMA GuiTypeInv ==
    ASSUME TypeInv, Client \/ GuiContinues
    PROVE  TypeInv'
<1> USE CutIsPacket, PacketType, CommandNames
    DEF TypeInv, TypeOK, GuiCmdOK, Sizes, retryVars, packetVars, rxVars,
        hexVars, threadVars, guiVars, linkVars, deviceVars
<1>1. ASSUME NEW cmd \in Commands, SendSimple(cmd) PROVE TypeInv'
  BY <1>1 DEF SendSimple, SendCommand, Enter
<1>2. CASE SendProgram
  BY <1>2 DEF SendProgram, SendCommand, Enter, ProgramFrom
<1>3. CASE SendProgramFails
  BY <1>3 DEF SendProgramFails, EnterNoRecord, ProgramFrom
<1>4. CASE SendReadCrc
  BY <1>4 DEF SendReadCrc, SendCommand, Enter, NoFile
<1>5. ASSUME NEW cmd \in Commands, SendCrashes(cmd) PROVE TypeInv'
  BY <1>5 DEF SendCrashes
<1>6. ASSUME NEW cmd \in Commands, Send(cmd) PROVE TypeInv'
  BY <1>1, <1>2, <1>3, <1>4, <1>5, <1>6 DEF Send
<1>7. CASE GuiArms
  BY <1>7, RetriesAssumption DEF GuiArms, Arm
<1>8. CASE GuiFrames
  BY <1>8 DEF GuiFrames, Frame
<1>9. TypeInv /\ ShutdownBegins => TypeInv'
  BY DEF ShutdownBegins
<1>10. TypeInv /\ ShutdownEnds => TypeInv'
  BY DEF ShutdownEnds
<1>11. TypeInv /\ CreateRxTxThread => TypeInv'
  BY DEF CreateRxTxThread
<1>12. ASSUME NEW ok \in BOOLEAN, OpenPort(ok) PROVE TypeInv'
  BY <1>12, LinkBoundAssumption DEF OpenPort
<1>13. CASE ClosePort
  BY <1>13, ClosePortType
<1>14. ASSUME NEW file \in HexFiles, LoadHexFile(file) PROVE TypeInv'
  BY <1>14, HexFilesAssumption DEF LoadHexFile
<1>15. CASE Deliver
  BY <1>15 DEF Deliver, NoFile
<1> QED
  BY <1>6, <1>7, <1>8, <1>9, <1>10, <1>11, <1>12, <1>13, <1>14, <1>15
     DEF Client, GuiContinues

\* The link, the device and time.
LEMMA EnvironmentTypeInv ==
    ASSUME TypeInv, Environment
    PROVE  TypeInv'
<1> USE LinkBoundAssumption, FaultAssumption
    DEF TypeInv, TypeOK, GuiCmdOK, Sizes, Fault, retryVars, packetVars,
        rxVars, hexVars, threadVars, guiVars, linkVars, deviceVars,
        programVars
<1>1. CASE DeviceStep
  <2> DEFINE p == Head(toDevice)
  <2>1. p \in Packet /\ Tail(toDevice) \in Seq(Packet)
        /\ Len(Tail(toDevice)) <= LinkBound
    BY <1>1 DEF DeviceStep
  <2>2. Flashed(p) \in SUBSET Nat /\ Answer(p, Flashed(p)) \in Reply
    BY <2>1, AnswerType
  <2>3. flash' \in SUBSET Nat /\ device' \in {"boot", "app"}
    BY <1>1, <2>2 DEF DeviceStep
  <2>4. \/ toHost' = toHost
        \/ /\ toHost' = Append(toHost, Answer(p, Flashed(p)))
           /\ Len(toHost) < LinkBound
    BY <1>1 DEF DeviceStep
  <2>5. toHost' \in Seq(Reply) /\ Len(toHost') <= LinkBound
    <3> DEFINE answer == Answer(p, Flashed(p))
    <3>1. toHost \in Seq(Reply) /\ Len(toHost) \in Nat
          /\ Len(toHost) <= LinkBound
      OBVIOUS
    <3>2. answer \in Reply
      BY <2>2
    <3>3. toHost' = toHost
          \/ (toHost' = Append(toHost, answer) /\ Len(toHost) < LinkBound)
      BY <2>4
    <3> HIDE DEF answer, TypeInv, TypeOK, Sizes
    <3> QED
      BY <3>1, <3>2, <3>3
  <2> QED
    BY <1>1, <2>1, <2>3, <2>5 DEF DeviceStep
<1>2. CASE LosePacket
  BY <1>2 DEF LosePacket
<1>3. CASE LoseReply
  BY <1>3 DEF LoseReply
<1>4. CASE CorruptReply
  <2>1. toHost # << >> /\ toHost' = <<Noise>> \o Tail(toHost)
    BY <1>4 DEF CorruptReply
  <2>2. Tail(toHost) \in Seq(Reply) /\ Len(Tail(toHost)) = Len(toHost) - 1
    BY <2>1
  <2>3. <<Noise>> \in Seq(Reply) /\ Len(<<Noise>>) = 1
    BY NoiseIsReply
  <2>4. toHost' \in Seq(Reply) /\ Len(toHost') = Len(toHost)
    BY <2>1, <2>2, <2>3, ConcatProperties
  <2> QED
    BY <1>4, <2>4 DEF CorruptReply
<1>5. CASE DeviceReset
  BY <1>5 DEF DeviceReset
<1>6. CASE DelayElapses
  BY <1>6 DEF DelayElapses
<1> QED
  BY <1>1, <1>2, <1>3, <1>4, <1>5, <1>6 DEF Environment

LEMMA NextTypeInv == TypeInv /\ [Next]_vars => TypeInv'
<1> SUFFICES ASSUME TypeInv, [Next]_vars PROVE TypeInv'
  OBVIOUS
<1>1. CASE Next
  BY <1>1, WorkerTypeInv, GuiTypeInv, EnvironmentTypeInv DEF Next
<1>2. CASE UNCHANGED vars
  BY <1>2 DEF vars, TypeInv, TypeOK, GuiCmdOK, Sizes, retryVars, packetVars,
              rxVars, hexVars, threadVars, guiVars, linkVars, deviceVars
<1> QED
  BY <1>1, <1>2

\* Every field of the engine keeps a value of its type, the link never
\* overflows and no notification is ill formed, whatever the client does.
THEOREM TypeCorrect == Spec => []TypeOK
<1>1. TypeInv => TypeOK
  BY DEF TypeInv
<1> QED
  BY <1>1, InitTypeInv, NextTypeInv, PTL DEF Spec

-----------------------------------------------------------------------------
(***************************************************************************)
(* RetryCount-- never wraps.  The invariant is inductive once the types are *)
(* known: the worker tests the count before it transmits, and between the  *)
(* test and the store the only writer is the GUI thread in SendCommand,    *)
(* which writes a number of tries above zero.                              *)
(***************************************************************************)
LEMMA NextNoRetryUnderflow ==
    ASSUME TypeInv, NoRetryUnderflow, [Next]_vars
    PROVE  NoRetryUnderflow'
<1> USE DEF NoRetryUnderflow, retryVars
<1>1. CASE Worker
  <2>1. CASE Transmit
    BY <2>1 DEF Transmit, MayTransmit, TypeInv, TypeOK
  <2>2. CASE LoadRetryCount
    BY <2>2 DEF LoadRetryCount
  <2>3. CASE ReceiveProgramCrash
    BY <2>3 DEF ReceiveProgramCrash, ReceiveFrame
  <2>4. ASSUME worker' \notin {"decrement", "store"}
        PROVE  NoRetryUnderflow'
    BY <2>4
  <2> QED
    BY <1>1, <2>1, <2>2, <2>3, <2>4
       DEF Worker, WorkerExits, TransmitNothing, RetriesExceeded,
           StoreRetryCount, ReceiveNothing, ReceiveResponse,
           ReceiveProgramNext, ReceiveProgramDone, WorkerArms, WorkerFrames
<1>2. CASE GuiArms
  <2>1. RetryCount' > 0
    BY <1>2, RetriesAssumption DEF GuiArms, Arm, TypeInv, GuiCmdOK
  <2> QED
    BY <1>2, <2>1 DEF GuiArms
<1>3. CASE ShutdownEnds \/ CreateRxTxThread
  BY <1>3 DEF ShutdownEnds, CreateRxTxThread
<1>4. ASSUME UNCHANGED <<worker, RetryCount, reg>>
      PROVE  NoRetryUnderflow'
  BY <1>4
<1>5. ASSUME Client, ~CreateRxTxThread
      PROVE  UNCHANGED <<worker, RetryCount, reg>>
  BY <1>5 DEF Client, Send, SendSimple, SendProgram, SendProgramFails,
              SendReadCrc, SendCrashes, SendCommand, ShutdownBegins,
              OpenPort, ClosePort, LoadHexFile, Deliver
<1>6. CASE GuiFrames
  BY <1>4, <1>6 DEF GuiFrames
<1>7. ASSUME Environment
      PROVE  UNCHANGED <<worker, RetryCount, reg>>
  BY <1>7 DEF Environment, DeviceStep, LosePacket, LoseReply, CorruptReply,
              DeviceReset, DelayElapses, programVars
<1>8. CASE UNCHANGED vars
  BY <1>4, <1>8 DEF vars
<1> QED
  BY <1>1, <1>2, <1>3, <1>4, <1>5, <1>6, <1>7, <1>8 DEF Next, GuiContinues

\* The unsynchronised decrement of the tries (bootloader.cpp:355, 372) never
\* takes them from 0 to 65535, whatever the GUI thread does meanwhile.
THEOREM RetriesNeverWrap == Spec => []NoRetryUnderflow
<1>1. Init => NoRetryUnderflow
  BY DEF Init, NoRetryUnderflow
<1>2. TypeInv /\ NoRetryUnderflow /\ [Next]_vars
        => (TypeInv /\ NoRetryUnderflow)'
  BY NextTypeInv, NextNoRetryUnderflow
<1> QED
  BY <1>1, <1>2, InitTypeInv, PTL DEF Spec

-----------------------------------------------------------------------------
(***************************************************************************)
(* The worker owns ResetHexFilePtr.  The flag alone is not inductive: the  *)
(* end of a shutdown and the start of a new worker move the program        *)
(* counter.  They are harmless because ThreadKilled is set by a worker     *)
(* that has left its loop, and because there is no worker without a handle.*)
(***************************************************************************)
KilledIsDone == gui = "sleep" /\ ThreadKilled => worker = "done"

HandleMeansWorker == ~BtlThread => worker = "none"

FlagInv == WorkerOwnsResetFlag /\ KilledIsDone /\ HandleMeansWorker

LEMMA InitFlagInv == Init => FlagInv
BY DEF Init, FlagInv, WorkerOwnsResetFlag, KilledIsDone, HandleMeansWorker

LEMMA WorkerFlagInv ==
    ASSUME FlagInv, Worker
    PROVE  FlagInv'
<1> USE DEF FlagInv, WorkerOwnsResetFlag, KilledIsDone, HandleMeansWorker,
            hexVars, threadVars, guiVars
<1>1. CASE WorkerExits
  BY <1>1 DEF WorkerExits
<1>2. CASE Transmit
  BY <1>2 DEF Transmit
<1>3. CASE TransmitNothing
  BY <1>3 DEF TransmitNothing
<1>4. CASE RetriesExceeded
  BY <1>4 DEF RetriesExceeded
<1>5. CASE LoadRetryCount
  BY <1>5 DEF LoadRetryCount
<1>6. CASE StoreRetryCount
  BY <1>6 DEF StoreRetryCount
<1>7. CASE ReceiveNothing
  BY <1>7 DEF ReceiveNothing
<1>8. CASE ReceiveResponse
  BY <1>8 DEF ReceiveResponse, ReceiveFrame
<1>9. CASE ReceiveProgramNext
  BY <1>9 DEF ReceiveProgramNext, ReceiveFrame
<1>10. CASE ReceiveProgramDone
  BY <1>10 DEF ReceiveProgramDone, ReceiveFrame
<1>11. CASE ReceiveProgramCrash
  BY <1>11 DEF ReceiveProgramCrash, ReceiveFrame
<1>12. CASE WorkerArms
  BY <1>12 DEF WorkerArms
<1>13. CASE WorkerFrames
  BY <1>13 DEF WorkerFrames
<1> QED
  BY <1>1, <1>2, <1>3, <1>4, <1>5, <1>6, <1>7, <1>8, <1>9, <1>10, <1>11,
     <1>12, <1>13 DEF Worker

LEMMA OthersFlagInv ==
    ASSUME FlagInv, Client \/ GuiContinues \/ Environment \/ UNCHANGED vars
    PROVE  FlagInv'
<1> USE DEF FlagInv, WorkerOwnsResetFlag, KilledIsDone, HandleMeansWorker
<1>1. CASE ShutdownBegins
  BY <1>1 DEF ShutdownBegins, hexVars
<1>2. CASE ShutdownEnds
  BY <1>2 DEF ShutdownEnds, hexVars
<1>3. CASE CreateRxTxThread
  BY <1>3 DEF CreateRxTxThread, hexVars, guiVars
<1>4. ASSUME UNCHANGED <<ResetHexFilePtr, ThreadKilled, BtlThread, worker>>,
             gui' = "sleep" => gui = "sleep"
      PROVE  FlagInv'
  BY <1>4
<1>5. ASSUME NEW cmd \in Commands, Send(cmd) PROVE FlagInv'
  BY <1>4, <1>5 DEF Send, SendSimple, SendProgram, SendProgramFails,
                   SendReadCrc, SendCrashes, SendCommand, hexVars, guiVars,
                   threadVars
<1>6. CASE GuiArms \/ GuiFrames
  BY <1>4, <1>6 DEF GuiArms, GuiFrames, hexVars, threadVars
<1>7. ASSUME NEW ok \in BOOLEAN, OpenPort(ok) PROVE FlagInv'
  BY <1>4, <1>7 DEF OpenPort, hexVars, threadVars, guiVars
<1>8. CASE ClosePort
  BY <1>4, <1>8 DEF ClosePort, hexVars, threadVars, guiVars
<1>9. ASSUME NEW file \in HexFiles, LoadHexFile(file) PROVE FlagInv'
  BY <1>4, <1>9 DEF LoadHexFile, threadVars, guiVars
<1>10. CASE Deliver
  BY <1>4, <1>10 DEF Deliver, threadVars, guiVars
<1>11. CASE Environment
  BY <1>4, <1>11 DEF Environment, DeviceStep, LosePacket, LoseReply,
                     CorruptReply, DeviceReset, DelayElapses, programVars,
                     hexVars, threadVars, guiVars
<1>12. CASE UNCHANGED vars
  BY <1>4, <1>12 DEF vars, hexVars, threadVars, guiVars
<1> QED
  BY <1>1, <1>2, <1>3, <1>5, <1>6, <1>7, <1>8, <1>9, <1>10, <1>11, <1>12
     DEF Client, GuiContinues

\* ResetHexFilePtr is left cleared by nothing but a worker terminated inside
\* its own SendCommand (bootloader.cpp:224-230): whatever the GUI thread
\* calls, Program starts with the first packet of the file again.
THEOREM ResetFlagIsOwned == Spec => []WorkerOwnsResetFlag
<1>1. FlagInv /\ [Next]_vars => FlagInv'
  BY WorkerFlagInv, OthersFlagInv DEF Next
<1>2. FlagInv => WorkerOwnsResetFlag
  BY DEF FlagInv
<1> QED
  BY <1>1, <1>2, InitFlagInv, PTL DEF Spec

-----------------------------------------------------------------------------
(***************************************************************************)
(* The file position.  Either thread may move it, but each of its moves    *)
(* looks at it first: it stays within the file.                            *)
(***************************************************************************)
PositionInv ==
    /\ HexFile = NoFile => HexPos = 0
    /\ HexFile # NoFile => HexPos <= HexFile

\* The steps of PacketFile: nothing moves, a packet is taken, the file is
\* read to its end, or another file takes its place.
FileStays == UNCHANGED <<HexFile, HexPos>>

PacketTaken ==
    /\ HexFile # NoFile
    /\ HexFile' = HexFile
    /\ \E from \in {0, HexPos} : from < HexFile /\ HexPos' = from + 1

FileAtEnd == HexFile' \in Nat /\ HexPos' = HexFile'

NoFileLeft == HexFile' = NoFile /\ HexPos' = 0

FileStep == FileStays \/ PacketTaken \/ FileAtEnd \/ NoFileLeft

\* The worker moves the position in one place only.
LEMMA WorkerFileStep ==
    ASSUME TypeInv, Worker
    PROVE  FileStep
<1>1. CASE ReceiveProgramNext
  <2>1. HexFile # NoFile /\ HexPos < HexFile
    BY <1>1 DEF ReceiveProgramNext, NoMoreRecords, TypeInv, TypeOK
  <2>2. HexFile' = HexFile /\ HexPos' = HexPos + 1
    BY <1>1 DEF ReceiveProgramNext
  <2>3. PacketTaken
    BY <2>1, <2>2 DEF PacketTaken
  <2> QED
    BY <2>3 DEF FileStep
<1>2. CASE ~ReceiveProgramNext
  <2>1. FileStays
    BY <1>2 DEF Worker, WorkerExits, Transmit, TransmitNothing,
                RetriesExceeded, LoadRetryCount, StoreRetryCount,
                ReceiveNothing, ReceiveResponse, ReceiveProgramDone,
                ReceiveProgramCrash, WorkerArms, WorkerFrames, hexVars,
                FileStays
  <2> QED
    BY <2>1 DEF FileStep
<1> QED
  BY <1>1, <1>2

\* The GUI thread's PROGRAM_FLASH and READ_CRC.
LEMMA SendFileStep ==
    ASSUME TypeInv, PositionInv, NEW cmd \in Commands, Send(cmd)
    PROVE  FileStep
<1> USE DEF FileStep, FileStays, PacketTaken, FileAtEnd
<1>1. HexFile \in Nat \cup {NoFile} /\ HexPos \in Nat
  BY DEF TypeInv, TypeOK
<1>2. CASE SendProgram
  <2>1. ProgramFrom \in {0, HexPos}
    BY DEF ProgramFrom
  <2>2. /\ HexFile # NoFile
        /\ ProgramFrom < HexFile
        /\ HexFile' = HexFile
        /\ HexPos' = ProgramFrom + 1
    BY <1>1, <1>2, <2>1 DEF SendProgram, SendCommand, NoMoreRecords
  <2> QED
    BY <2>1, <2>2
<1>3. CASE SendProgramFails
  <2>1. CASE HexFile = NoFile
    BY <1>3, <2>1 DEF SendProgramFails
  <2>2. CASE HexFile # NoFile
    <3>1. /\ HexFile' = HexFile
          /\ ProgramFrom >= HexFile
          /\ HexPos' = ProgramFrom
      BY <1>3, <2>2 DEF SendProgramFails, NoMoreRecords
    <3>2. CASE ResetHexFilePtr
      <4>1. HexPos' = 0 /\ HexFile = 0
        BY <1>1, <2>2, <3>1, <3>2 DEF ProgramFrom, NoFile
      <4> QED
        BY <3>1, <4>1
    <3>3. CASE ~ResetHexFilePtr
      BY <3>1, <3>3 DEF ProgramFrom
    <3> QED
      BY <3>2, <3>3
  <2> QED
    BY <2>1, <2>2
<1>4. CASE SendReadCrc
  BY <1>1, <1>4 DEF SendReadCrc, SendCommand
<1>5. CASE SendSimple(cmd)
  BY <1>5 DEF SendSimple, SendCommand
<1>6. CASE SendCrashes(cmd)
  BY <1>6 DEF SendCrashes, hexVars
<1> QED
  BY <1>2, <1>3, <1>4, <1>5, <1>6 DEF Send

\* The rest of the GUI thread, the device and the link.
LEMMA OtherFileStep ==
    ASSUME TypeInv, Client \/ GuiContinues \/ Environment \/ UNCHANGED vars,
           \A cmd \in Commands : ~Send(cmd)
    PROVE  FileStep
<1> USE DEF FileStep, FileStays, FileAtEnd, NoFileLeft
<1>1. ASSUME NEW file \in HexFiles, LoadHexFile(file) PROVE FileStep
  <2>1. HexFile' = file
    BY <1>1 DEF LoadHexFile
  <2>2. HexPos' = IF file = NoFile THEN 0 ELSE file
    BY <1>1 DEF LoadHexFile
  <2>3. file \in Nat \cup {NoFile}
    BY HexFilesAssumption
  <2> QED
    BY <2>1, <2>2, <2>3
<1>2. CASE Deliver
  <2>1. HexFile' = HexFile
    BY <1>2 DEF Deliver
  <2>2. HexPos' = HexPos \/ (HexFile # NoFile /\ HexPos' = HexFile)
    BY <1>2 DEF Deliver
  <2>3. HexFile \in Nat \cup {NoFile}
    BY DEF TypeInv, TypeOK
  <2> QED
    BY <2>1, <2>2, <2>3
<1>3. ASSUME NEW ok \in BOOLEAN, OpenPort(ok) PROVE FileStep
  BY <1>3 DEF OpenPort, hexVars
<1>4. CASE ShutdownBegins \/ CreateRxTxThread \/ ClosePort
  BY <1>4 DEF ShutdownBegins, CreateRxTxThread, ClosePort, hexVars
<1>5. CASE GuiContinues
  BY <1>5 DEF GuiContinues, GuiArms, GuiFrames, ShutdownEnds, hexVars
<1>6. CASE Environment
  BY <1>6 DEF Environment, DeviceStep, LosePacket, LoseReply, CorruptReply,
              DeviceReset, DelayElapses, programVars, hexVars
<1>7. CASE UNCHANGED vars
  BY <1>7 DEF vars, hexVars
<1> QED
  BY <1>1, <1>2, <1>3, <1>4, <1>5, <1>6, <1>7 DEF Client

LEMMA NextFileStep ==
    TypeInv /\ PositionInv /\ [Next]_vars => FileStep /\ PositionInv'
<1> SUFFICES ASSUME TypeInv, PositionInv, [Next]_vars
             PROVE  FileStep /\ PositionInv'
  OBVIOUS
<1>1. FileStep
  BY WorkerFileStep, SendFileStep, OtherFileStep DEF Next
<1>2. PositionInv'
  <2>1. HexFile \in Nat \cup {NoFile} /\ HexPos \in Nat
    BY DEF TypeInv, TypeOK
  <2> QED
    BY <1>1, <2>1 DEF FileStep, FileStays, PacketTaken, FileAtEnd,
                      NoFileLeft, PositionInv, NoFile
<1> QED
  BY <1>1, <1>2

LEMMA StepsMapToPacketFile ==
    TypeInv /\ FileStep => [FileView!FileNext]_(FileView!fileVars)
<1> SUFFICES ASSUME TypeInv, FileStep
             PROVE  FileView!FileNext \/ UNCHANGED FileView!fileVars
  OBVIOUS
<1>1. HexFile \in Nat \cup {NoFile} /\ HexPos \in Nat
  BY DEF TypeInv, TypeOK
<1>2. CASE FileStays
  BY <1>2 DEF FileStays, FileView!fileVars
<1>3. CASE PacketTaken
  BY <1>1, <1>3 DEF PacketTaken, FileView!FileNext, FileView!Take
<1>4. CASE FileAtEnd \/ NoFileLeft
  BY <1>4 DEF FileAtEnd, NoFileLeft, NoFile, FileView!FileNext,
              FileView!Load
<1> QED
  BY <1>2, <1>3, <1>4 DEF FileStep

\* The engine implements PacketFile, as module HexManager does
\* (HexManagerProofs): whatever the two threads call, in whatever order, a
\* packet is taken only while the file has one, from its first on or after
\* the last one taken (bootloader.cpp:464, hex.cpp:202).
THEOREM EngineIsPacketFile == Spec => EngineTakesPackets
<1>1. Init => PositionInv /\ FileView!FileInit
  BY DEF Init, PositionInv, FileView!FileInit
<1>2. Init => TypeInv
  BY InitTypeInv
<1>3. TypeInv /\ [Next]_vars => TypeInv'
  BY NextTypeInv
<1>4. TypeInv /\ PositionInv /\ [Next]_vars
        => PositionInv' /\ [FileView!FileNext]_(FileView!fileVars)
  BY NextFileStep, StepsMapToPacketFile
<1> QED
  BY <1>1, <1>2, <1>3, <1>4, PTL
     DEF Spec, EngineTakesPackets, FileView!FileSpec
=============================================================================
