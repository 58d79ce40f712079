---------------------------- MODULE DialogProofs ----------------------------
(***************************************************************************)
(* Theorems about the dialog, for every value of its constants.  The       *)
(* dialog is one client of the engine among others, so that what           *)
(* BootLoaderProofs shows of the engine under any client holds of it.      *)
(***************************************************************************)
EXTENDS Dialog, BootLoaderProofs

\* A click changes no field of the engine.
LEMMA UserIsSilent == User => UNCHANGED vars
BY DEF User, OnBnClickedButtonErase, OnBnClickedButtonProgram,
       OnBnClickedButtonVerify, OnBnClickedButtonBootVer,
       OnBnClickedButtonEraseProgVerify, OnBnClickedButtonRunapplication,
       OnBnClickedButtonLoadhex, Disconnect, Connect, ClickCommand, Click,
       ClickConnect

\* Every other step of a handler is a call of the engine, or none.
LEMMA GuiIsClient ==
    ASSUME ~crashed, Gui
    PROVE  Client \/ UNCHANGED vars
<1>1. ASSUME NEW cmd \in Commands, CallSend(cmd) PROVE Client
  BY <1>1 DEF CallSend, Client
<1>2. CASE CallShutdown
  BY <1>2 DEF CallShutdown, Client
<1>3. CASE CallCreate
  BY <1>3 DEF CallCreate, Client
<1>4. CASE CallClose
  BY <1>4 DEF CallClose, Client
<1>5. CASE CallOpen
  BY <1>5 DEF CallOpen, Client
<1>6. CASE CallLoad
  BY <1>6 DEF CallLoad, Client
<1>7. CASE OnBootInfo
  BY <1>7 DEF OnBootInfo, TakeNotice, Client
<1>8. CASE OnErased
  BY <1>8 DEF OnErased, TakeNotice, Client
<1>9. CASE OnProgrammed
  BY <1>9 DEF OnProgrammed, TakeNotice, Client
<1>10. CASE OnVerified
  BY <1>10 DEF OnVerified, TakeNotice, Client
<1>11. CASE OnTransmitFailure
  BY <1>11 DEF OnTransmitFailure, TakeNotice, Client
<1> QED
  BY <1>1, <1>2, <1>3, <1>4, <1>5, <1>6, <1>7, <1>8, <1>9, <1>10, <1>11
     DEF Gui

LEMMA DialogStep == [DialogNext]_allVars => [Next]_vars
<1> SUFFICES ASSUME [DialogNext]_allVars PROVE [Next]_vars
  OBVIOUS
<1>1. CASE ~crashed /\ User
  BY <1>1, UserIsSilent
<1>2. CASE ~crashed /\ Gui
  BY <1>2, GuiIsClient DEF Next
<1>3. CASE Worker \/ GuiContinues \/ Environment
  BY <1>3 DEF Next
<1>4. CASE UNCHANGED allVars
  BY <1>4 DEF allVars
<1> QED
  BY <1>1, <1>2, <1>3, <1>4 DEF DialogNext

\* The dialog implements the engine's specification: no handler touches a
\* field of CBootLoader but through the calls BootLoader.tla describes.
THEOREM DialogIsClient == DialogSpec => Spec
<1>1. DialogInit => Init
  BY DEF DialogInit
<1> QED
  BY <1>1, DialogStep, PTL DEF DialogSpec, Spec

\* So the engine's invariants hold under the dialog: the tries never wrap,
\* and the flag that makes Program start with the first packet is cleared
\* only inside the worker's own SendCommand.
THEOREM DialogKeepsEngine ==
    DialogSpec => [](TypeOK /\ NoRetryUnderflow /\ WorkerOwnsResetFlag)
<1>1. Spec => [](TypeOK /\ NoRetryUnderflow /\ WorkerOwnsResetFlag)
  BY TypeCorrect, RetriesNeverWrap, ResetFlagIsOwned, PTL
<1> QED
  BY <1>1, DialogIsClient, PTL

-----------------------------------------------------------------------------
(***************************************************************************)
(* Type correctness of the dialog's own variables.                         *)
(***************************************************************************)
Ops == Commands \cup {"load", "shutdown", "create", "close", "open"}

DialogTypes ==
    /\ ConnectionEstablished \in BOOLEAN
    /\ EraseProgVer \in BOOLEAN
    /\ enabled \subseteq Buttons
    /\ saved \subseteq Buttons
    /\ todo \in Seq(Ops)
    /\ console \in Outcomes
    /\ clicks \in 0..MaxClicks
    /\ connects \in 0..MaxConnects

LEMMA InitDialogTypes == DialogInit => DialogTypes
<1> SUFFICES ASSUME DialogInit PROVE DialogTypes
  OBVIOUS
<1>1. clicks \in 0..MaxClicks /\ connects \in 0..MaxConnects
  BY ClicksAssumption DEF DialogInit
<1>2. todo \in Seq(Ops)
  BY DEF DialogInit
<1>3. /\ ConnectionEstablished \in BOOLEAN /\ EraseProgVer \in BOOLEAN
      /\ enabled \subseteq Buttons /\ saved \subseteq Buttons
      /\ console \in Outcomes
  BY DEF DialogInit, Outcomes
<1> QED
  BY <1>1, <1>2, <1>3 DEF DialogTypes

\* The calls a handler makes are taken off the front of todo.
LEMMA TailOfCalls ==
    ASSUME todo \in Seq(Ops), todo # << >>
    PROVE  Tail(todo) \in Seq(Ops)
BY HeadTailProperties

LEMMA CommandIsCall ==
    /\ Commands \subseteq Ops
    /\ {"READ_BOOT_INFO", "ERASE_FLASH", "PROGRAM_FLASH", "READ_CRC",
        "JMP_TO_APP"} \subseteq Commands
BY DEF Commands, Answered, Ops

LEMMA ClickCommandTypes ==
    ASSUME DialogTypes, NEW button, NEW cmd \in Commands,
           ClickCommand(button, cmd), EraseProgVer' \in BOOLEAN
    PROVE  DialogTypes'
<1>1. /\ clicks' \in 0..MaxClicks /\ connects' \in 0..MaxConnects
      /\ console' \in Outcomes /\ ConnectionEstablished' \in BOOLEAN
  BY ClicksAssumption DEF DialogTypes, ClickCommand, Click
<1>2. todo' \in Seq(Ops) /\ saved' \subseteq Buttons /\ enabled' \subseteq Buttons
  BY CommandIsCall DEF DialogTypes, ClickCommand
<1> QED
  BY <1>1, <1>2 DEF DialogTypes

LEMMA ClickTypes ==
    ASSUME DialogTypes, User
    PROVE  DialogTypes'
<1>0. EraseProgVer \in BOOLEAN
  BY DEF DialogTypes
<1>1. \A button : Click(button) => clicks' \in 0..MaxClicks
  BY ClicksAssumption DEF Click, DialogTypes
<1>2. CASE OnBnClickedButtonErase
  BY <1>0, <1>2, CommandIsCall, ClickCommandTypes
     DEF OnBnClickedButtonErase
<1>3. CASE OnBnClickedButtonProgram
  BY <1>0, <1>3, CommandIsCall, ClickCommandTypes
     DEF OnBnClickedButtonProgram
<1>4. CASE OnBnClickedButtonVerify
  BY <1>0, <1>4, CommandIsCall, ClickCommandTypes
     DEF OnBnClickedButtonVerify
<1>5. CASE OnBnClickedButtonBootVer
  BY <1>0, <1>5, CommandIsCall, ClickCommandTypes
     DEF OnBnClickedButtonBootVer
<1>6. CASE OnBnClickedButtonEraseProgVerify
  BY <1>0, <1>6, CommandIsCall, ClickCommandTypes
     DEF OnBnClickedButtonEraseProgVerify
<1>7. CASE OnBnClickedButtonRunapplication
  BY <1>1, <1>7, CommandIsCall
     DEF OnBnClickedButtonRunapplication, Click, DialogTypes
<1>8. CASE OnBnClickedButtonLoadhex
  BY <1>1, <1>8 DEF OnBnClickedButtonLoadhex, Click, Ops, DialogTypes
<1>9. CASE Disconnect
  <2>1. todo' \in Seq(Ops) /\ enabled' \subseteq Buttons
    BY <1>9 DEF Disconnect, Ops
  <2>2. clicks' \in 0..MaxClicks /\ connects' \in 0..MaxConnects
    BY <1>9, ClicksAssumption DEF Disconnect, ClickConnect, DialogTypes
  <2>3. /\ ConnectionEstablished' \in BOOLEAN /\ EraseProgVer' \in BOOLEAN
        /\ saved' \subseteq Buttons /\ console' \in Outcomes
    BY <1>9 DEF Disconnect, ClickConnect, DialogTypes
  <2> QED
    BY <2>1, <2>2, <2>3 DEF DialogTypes
<1>10. CASE Connect
  BY <1>10, ClicksAssumption DEF Connect, ClickConnect, Ops, DialogTypes
<1> QED
  BY <1>2, <1>3, <1>4, <1>5, <1>6, <1>7, <1>8, <1>9, <1>10 DEF User

LEMMA GuiTypes ==
    ASSUME DialogTypes, Gui
    PROVE  DialogTypes'
<1> USE DEF DialogTypes
<1>1. CASE \E cmd \in Commands : CallSend(cmd)
  BY <1>1, TailOfCalls DEF CallSend, Call, CallDone
<1>2. CASE CallShutdown
  BY <1>2, TailOfCalls DEF CallShutdown, Call, CallDone
<1>3. CASE CallCreate
  BY <1>3, TailOfCalls DEF CallCreate, Call, CallDone
<1>4. CASE CallClose
  BY <1>4, TailOfCalls DEF CallClose, Call, CallDone
<1>5. CASE CallOpen
  <2>1. Tail(todo) \in Seq(Ops)
    BY <1>5, TailOfCalls DEF CallOpen, Call
  <2>3. <<"shutdown", "create", "READ_BOOT_INFO">> \in Seq(Ops)
    BY CommandIsCall DEF Ops
  <2>4. todo' \in Seq(Ops)
    BY <1>5, <2>1, <2>3 DEF CallOpen, CallDone
  <2>2. enabled' \subseteq Buttons /\ saved' \subseteq Buttons
    BY <1>5 DEF CallOpen
  <2> QED
    BY <1>5, <2>4, <2>2 DEF CallOpen
<1>6. CASE CallLoad
  BY <1>6, TailOfCalls DEF CallLoad, Call, CallDone, Buttons
<1>7. CASE OnBootInfo
  BY <1>7 DEF OnBootInfo, TakeNotice, SetButtons, Buttons, Outcomes
<1>8. CASE OnErased
  <2>1. todo' \in Seq(Ops)
    BY <1>8, CommandIsCall DEF OnErased
  <2> QED
    BY <1>8, <2>1 DEF OnErased, TakeNotice, SetButtons, Outcomes
<1>9. CASE OnProgrammed
  <2>1. todo' \in Seq(Ops)
    BY <1>9, CommandIsCall DEF OnProgrammed
  <2> QED
    BY <1>9, <2>1 DEF OnProgrammed, TakeNotice, SetButtons, Buttons, Outcomes
<1>10. CASE OnVerified
  BY <1>10 DEF OnVerified, TakeNotice, SetButtons, Buttons, Outcomes
<1>11. CASE OnTransmitFailure
  BY <1>11 DEF OnTransmitFailure, TakeNotice, SetButtons, Outcomes
<1> QED
  BY <1>1, <1>2, <1>3, <1>4, <1>5, <1>6, <1>7, <1>8, <1>9, <1>10, <1>11
     DEF Gui

\* The dialog only ever plans calls the engine has, and enables buttons that
\* exist, under every interleaving with the worker and the link.
THEOREM DialogTypeCorrect == DialogSpec => []DialogTypeOK
<1>1. DialogTypes /\ [DialogNext]_allVars => DialogTypes'
  BY ClickTypes, GuiTypes DEF DialogNext, allVars, dialogVars, DialogTypes
<1>2. TypeOK /\ DialogTypes => DialogTypeOK
  BY DEF DialogTypes, DialogTypeOK, Ops
<1> QED
  BY <1>1, <1>2, InitDialogTypes, DialogKeepsEngine, PTL DEF DialogSpec
-----------------------------------------------------------------------------
(***************************************************************************)
(* LoadHexFile, SendCommand and VerifyFlash use HexFilePtr unchecked.  The *)
(* dialog keeps them from a NULL one: until a file has been loaded nothing *)
(* about it is clicked, planned, sent, answered or notified.               *)
(***************************************************************************)

\* The commands that read the hex file, and the buttons that lead to them.
FileCommands == {"PROGRAM_FLASH", "READ_CRC"}
FileButtons == {"Program", "Verify", "EraseProgVerify"}

FreePacket == {p \in Packet : p.cmd \notin FileCommands}
FreeReply == {r \in Reply : r.cmd \notin FileCommands}
FreeNotice == {n \in Notice : n.kind = "response" => n.cmd \notin FileCommands}

\* Nothing in the engine or on the link is about the file.
EngineFree ==
    /\ Buff \in FreePacket
    /\ TxPacket \in FreePacket
    /\ RxData \in FreeReply
    /\ toDevice \in Seq(FreePacket)
    /\ toHost \in Seq(FreeReply)
    /\ posted \in Seq(FreeNotice)
    /\ ResetHexFilePtr = TRUE

\* Nothing at the dialog is.
DialogFree ==
    /\ enabled \cap FileButtons = {}
    /\ saved \cap FileButtons = {}
    /\ EraseProgVer = FALSE
    /\ todo \in Seq(Ops \ FileCommands)

NullInv == ~crashed /\ (HexFile = NoFile => EngineFree /\ DialogFree)

LEMMA FreeFacts ==
    /\ Cut \in FreePacket
    /\ Noise \in FreeReply
    /\ \A c \in Commands \ FileCommands : [cmd |-> c, arg |-> 0] \in FreePacket
    /\ \A c \in Commands : [kind |-> "failure", cmd |-> c] \in FreeNotice
    /\ \A c \in Commands \ FileCommands :
           [kind |-> "response", cmd |-> c] \in FreeNotice
<1>1. Cut \in FreePacket
  BY DEF Cut, FreePacket, Packet, FileCommands, NoCommand
<1>2. Noise \in FreeReply
  BY DEF Noise, FreeReply, Reply, FileCommands, NoCommand
<1>3. \A c \in Commands \ FileCommands : [cmd |-> c, arg |-> 0] \in FreePacket
  BY DEF FreePacket, Packet
<1>4. \A c \in Commands : [kind |-> "failure", cmd |-> c] \in FreeNotice
  BY DEF FreeNotice, Notice
<1>5. \A c \in Commands \ FileCommands :
          [kind |-> "response", cmd |-> c] \in FreeNotice
  BY DEF FreeNotice, Notice
<1> QED
  BY <1>1, <1>2, <1>3, <1>4, <1>5

\* What is left of a queue of free messages, and what one more makes of it.
LEMMA QueueFacts ==
    ASSUME NEW S, NEW q \in Seq(S)
    PROVE  /\ q # << >> => Tail(q) \in Seq(S) /\ Head(q) \in S
           /\ \A x \in S : Append(q, x) \in Seq(S)
           /\ \A x \in S : q # << >> => <<x>> \o Tail(q) \in Seq(S)
           /\ \A n \in 0..Len(q) : SubSeq(q, n + 1, Len(q)) \in Seq(S)
<1>1. q # << >> => Tail(q) \in Seq(S) /\ Head(q) \in S
  BY HeadTailProperties
<1>2. \A x \in S : Append(q, x) \in Seq(S)
  OBVIOUS
<1>3. \A x \in S : q # << >> => <<x>> \o Tail(q) \in Seq(S)
  BY <1>1
<1>4. ASSUME NEW n \in 0..Len(q)
      PROVE  SubSeq(q, n + 1, Len(q)) \in Seq(S)
  <2>1. \A i \in (n + 1)..Len(q) : q[i] \in S
    OBVIOUS
  <2> QED
    BY <2>1, SubSeqProperties
<1> QED
  BY <1>1, <1>2, <1>3, <1>4

-----------------------------------------------------------------------------
(***************************************************************************)
(* The steps of the engine.                                                *)
(***************************************************************************)

LEMMA ReadFree ==
    ASSUME EngineFree, NEW n, ReadPort(n)
    PROVE  /\ toHost' \in Seq(FreeReply)
           /\ \A i \in 1..n : toHost[i] \in FreeReply
<1>1. n \in 0..Len(toHost) /\ toHost' = SubSeq(toHost, n + 1, Len(toHost))
  BY DEF ReadPort
<1>2. toHost \in Seq(FreeReply) /\ Len(toHost) \in Nat
  BY DEF EngineFree
<1> QED
  BY <1>1, <1>2, QueueFacts

LEMMA ReceiveFree ==
    ASSUME EngineFree, ReceiveFrame
    PROVE  toHost' \in Seq(FreeReply) /\ RxData' \in FreeReply
<1>1. PICK n \in 1..LinkBound :
        ReadPort(n) /\ \E i \in 1..n : RxData' = toHost[i]
  BY DEF ReceiveFrame
<1> QED
  BY <1>1, ReadFree

LEMMA WorkerFree ==
    ASSUME EngineFree, Worker
    PROVE  EngineFree' /\ UNCHANGED <<HexFile, crashed>>
<1> USE FreeFacts DEF EngineFree, packetVars, rxVars, hexVars, linkVars
<1>0. ASSUME ReceiveFrame PROVE RxData'.cmd \notin FileCommands
  BY <1>0, ReceiveFree DEF FreeReply
<1>1. CASE WorkerExits /\ UNCHANGED crashed
  BY <1>1 DEF WorkerExits
<1>2. CASE Transmit /\ UNCHANGED crashed
  <2>1. toDevice' \in Seq(FreePacket)
    BY <1>2, QueueFacts DEF Transmit, WritePort
  <2> QED
    BY <1>2, <2>1 DEF Transmit
<1>3. CASE TransmitNothing /\ UNCHANGED crashed
  BY <1>3 DEF TransmitNothing
<1>4. CASE RetriesExceeded /\ UNCHANGED crashed
  BY <1>4 DEF RetriesExceeded
<1>5. CASE LoadRetryCount /\ UNCHANGED crashed
  BY <1>5 DEF LoadRetryCount
<1>6. CASE StoreRetryCount /\ UNCHANGED crashed
  BY <1>6 DEF StoreRetryCount
<1>7. CASE ReceiveNothing /\ UNCHANGED crashed
  <2>1. PICK n \in 0..LinkBound :
          ReadPort(n) /\ RxData' = IF n = 0 THEN RxData ELSE Noise
    BY <1>7 DEF ReceiveNothing
  <2>2. toHost' \in Seq(FreeReply) /\ RxData' \in FreeReply
    BY <2>1, ReadFree
  <2>3. posted' \in Seq(FreeNotice)
    <3>1. HandleNoResponse \/ UNCHANGED posted
      BY <1>7, Zenon DEF ReceiveNothing
    <3>2. \A c \in Answered : Post("failure", c) => posted' \in Seq(FreeNotice)
      BY CommandNames, QueueFacts DEF Post
    <3> QED
      BY <3>1, <3>2 DEF HandleNoResponse
  <2>4. UNCHANGED <<packetVars, hexVars, toDevice>>
    BY <1>7 DEF ReceiveNothing
  <2> QED
    BY <1>7, <2>2, <2>3, <2>4
<1>8. CASE ReceiveResponse /\ UNCHANGED crashed
  <2>1. /\ ReceiveFrame
        /\ Post("response", RxData'.cmd)
        /\ RxData'.cmd \in Commands
        /\ UNCHANGED <<packetVars, hexVars, toDevice>>
    BY <1>8, CommandNames DEF ReceiveResponse
  <2>2. posted' \in Seq(FreeNotice)
    BY <1>0, <2>1, QueueFacts DEF Post
  <2> QED
    BY <1>8, <2>1, <2>2, ReceiveFree
<1>9. ~ReceiveProgramNext /\ ~ReceiveProgramDone /\ ~ReceiveProgramCrash
  BY <1>0 DEF ReceiveProgramNext, ReceiveProgramDone, ReceiveProgramCrash,
         FileCommands
<1>10. CASE WorkerArms /\ UNCHANGED crashed
  BY <1>10 DEF WorkerArms
<1>11. CASE WorkerFrames /\ UNCHANGED crashed
  BY <1>11 DEF WorkerFrames, Frame
<1> QED
  BY <1>1, <1>2, <1>3, <1>4, <1>5, <1>6, <1>7, <1>8, <1>9, <1>10, <1>11
     DEF Worker

LEMMA GuiContinuesFree ==
    ASSUME EngineFree, GuiContinues
    PROVE  EngineFree' /\ UNCHANGED <<HexFile, crashed>>
<1> USE FreeFacts DEF EngineFree, packetVars, rxVars, hexVars, linkVars
<1>1. CASE GuiArms
  BY <1>1 DEF GuiArms
<1>2. CASE GuiFrames
  BY <1>2 DEF GuiFrames, Frame
<1>3. CASE ShutdownEnds
  BY <1>3 DEF ShutdownEnds
<1> QED
  BY <1>1, <1>2, <1>3 DEF GuiContinues

\* The device answers a command with the same command.
LEMMA AnswerFree ==
    ASSUME NEW p \in FreePacket, flash \in SUBSET Nat
    PROVE  Answer(p, Flashed(p)) \in FreeReply
<1>1. Answer(p, Flashed(p)) \in Reply
  BY AnswerType DEF FreePacket
<1>2. Answer(p, Flashed(p)).cmd = p.cmd
  BY DEF Answer
<1> QED
  BY <1>1, <1>2 DEF FreePacket, FreeReply

LEMMA EnvironmentFree ==
    ASSUME EngineFree, flash \in SUBSET Nat, Environment
    PROVE  EngineFree' /\ UNCHANGED <<HexFile, crashed>>
<1> USE FreeFacts DEF EngineFree, packetVars, rxVars, hexVars, linkVars,
        programVars
<1>1. CASE DeviceStep
  <2>1. toDevice' \in Seq(FreePacket) /\ Head(toDevice) \in FreePacket
    BY <1>1, QueueFacts DEF DeviceStep
  <2>2. toHost' \in Seq(FreeReply)
    BY <1>1, <2>1, AnswerFree, QueueFacts DEF DeviceStep
  <2> QED
    BY <1>1, <2>1, <2>2 DEF DeviceStep
<1>2. CASE LosePacket
  BY <1>2, QueueFacts DEF LosePacket
<1>3. CASE LoseReply
  BY <1>3, QueueFacts DEF LoseReply
<1>4. CASE CorruptReply
  BY <1>4, QueueFacts DEF CorruptReply
<1>5. CASE DeviceReset
  BY <1>5 DEF DeviceReset
<1>6. CASE DelayElapses
  BY <1>6 DEF DelayElapses
<1> QED
  BY <1>1, <1>2, <1>3, <1>4, <1>5, <1>6 DEF Environment

\* With a file loaded none of these steps crashes, or closes the file.
LEMMA EngineKeepsFile ==
    ASSUME HexFile # NoFile, Worker \/ GuiContinues \/ Environment
    PROVE  UNCHANGED <<HexFile, crashed>>
<1> USE DEF hexVars
<1>1. CASE Worker
  BY <1>1 DEF Worker, WorkerExits, Transmit, TransmitNothing,
         RetriesExceeded, LoadRetryCount, StoreRetryCount, ReceiveNothing,
         ReceiveResponse, ReceiveProgramNext, ReceiveProgramDone, WorkerArms,
         WorkerFrames, ReceiveProgramCrash
<1>2. CASE GuiContinues
  BY <1>2 DEF GuiContinues, GuiArms, GuiFrames, ShutdownEnds
<1>3. CASE Environment
  BY <1>3 DEF Environment, DeviceStep, LosePacket, LoseReply, CorruptReply,
         DeviceReset, DelayElapses, programVars
<1> QED
  BY <1>1, <1>2, <1>3

-----------------------------------------------------------------------------
(***************************************************************************)
(* The steps of the dialog.                                                *)
(***************************************************************************)

\* A click on a button that is enabled without a file.
LEMMA UserFree ==
    ASSUME DialogFree, User
    PROVE  DialogFree'
<1> USE DEF DialogFree, FileButtons
<1>0. {"READ_BOOT_INFO", "ERASE_FLASH", "JMP_TO_APP", "load", "shutdown",
       "close", "open"} \subseteq Ops \ FileCommands
  BY CommandIsCall DEF Ops, FileCommands
<1>1. /\ ~OnBnClickedButtonProgram
      /\ ~OnBnClickedButtonVerify
      /\ ~OnBnClickedButtonEraseProgVerify
  BY DEF OnBnClickedButtonProgram, OnBnClickedButtonVerify,
         OnBnClickedButtonEraseProgVerify, ClickCommand, Click
<1>2. CASE OnBnClickedButtonErase
  BY <1>0, <1>2 DEF OnBnClickedButtonErase, ClickCommand
<1>3. CASE OnBnClickedButtonBootVer
  BY <1>0, <1>3 DEF OnBnClickedButtonBootVer, ClickCommand
<1>4. CASE OnBnClickedButtonRunapplication
  BY <1>0, <1>4 DEF OnBnClickedButtonRunapplication
<1>5. CASE OnBnClickedButtonLoadhex
  BY <1>0, <1>5 DEF OnBnClickedButtonLoadhex
<1>6. CASE Disconnect
  BY <1>0, <1>6 DEF Disconnect
<1>7. CASE Connect
  BY <1>0, <1>7 DEF Connect
<1> QED
  BY <1>1, <1>2, <1>3, <1>4, <1>5, <1>6, <1>7 DEF User

LEMMA SendFree ==
    ASSUME EngineFree, NEW cmd \in Commands \ FileCommands, Send(cmd)
    PROVE  EngineFree' /\ UNCHANGED <<HexFile, crashed>>
<1>1. SendSimple(cmd)
  BY DEF Send, SendCrashes, FileCommands
<1>2. Buff' \in FreePacket /\ TxPacket' \in FreePacket
  BY <1>1, FreeFacts DEF SendSimple, SendCommand, Enter
<1> QED
  BY <1>1, <1>2 DEF SendSimple, SendCommand, EngineFree, rxVars, linkVars

\* The calls that touch the worker and the port only.
LEMMA QuietFree ==
    ASSUME EngineFree,
           \/ UNCHANGED vars
           \/ ShutdownBegins
           \/ CreateRxTxThread
           \/ ClosePort
           \/ \E ok \in BOOLEAN : OpenPort(ok)
    PROVE  EngineFree' /\ UNCHANGED <<HexFile, crashed>>
<1>1. /\ UNCHANGED <<packetVars, rxVars, hexVars, crashed, toDevice>>
      /\ toHost' \in {toHost, << >>}
  BY DEF vars, ShutdownBegins, CreateRxTxThread, ClosePort, OpenPort, linkVars
<1>2. toHost' \in Seq(FreeReply)
  <2>1. toHost \in Seq(FreeReply) /\ << >> \in Seq(FreeReply)
    BY DEF EngineFree
  <2> QED
    BY <1>1, <2>1, Zenon
<1>3. /\ UNCHANGED <<Buff, TxPacket, RxData, posted, ResetHexFilePtr>>
      /\ UNCHANGED <<HexFile, crashed, toDevice>>
  BY <1>1 DEF packetVars, rxVars, hexVars
<1> QED
  BY <1>2, <1>3 DEF EngineFree

\* A notification that is queued without a file.
LEMMA NoticeFree ==
    ASSUME EngineFree, ~crashed, NEW kind, NEW cmd, TakeNotice(kind, cmd)
    PROVE  /\ EngineFree' /\ ~crashed' /\ UNCHANGED HexFile
           /\ kind = "response" => cmd \notin FileCommands
<1>1. /\ Deliver /\ posted # << >>
      /\ Head(posted) = [kind |-> kind, cmd |-> cmd]
  BY DEF TakeNotice, Deliver
<1>2. /\ Head(posted) \in FreeNotice
      /\ Tail(posted) \in Seq(FreeNotice)
  BY <1>1, QueueFacts DEF EngineFree
<1>3. kind = "response" => cmd \notin FileCommands
  BY <1>1, <1>2 DEF FreeNotice
<1>4. Head(posted) # [kind |-> "response", cmd |-> "READ_CRC"]
  BY <1>1, <1>3 DEF FileCommands
<1>5. crashed' = FALSE
  BY <1>1, <1>4, Zenon DEF Deliver
<1>6. EngineFree' /\ UNCHANGED HexFile
  BY <1>1, <1>2 DEF Deliver, EngineFree, packetVars, linkVars
<1> QED
  BY <1>3, <1>5, <1>6

\* A call or a notification without a file.
LEMMA GuiFree ==
    ASSUME NoFile \notin HexFiles, HexFile = NoFile, ~crashed,
           EngineFree, DialogFree, Gui
    PROVE  ~crashed' /\ (HexFile' = NoFile => EngineFree' /\ DialogFree')
<1>0. /\ todo # << >> => /\ Tail(todo) \in Seq(Ops \ FileCommands)
                         /\ Head(todo) \in Ops \ FileCommands
      /\ <<"shutdown", "create", "READ_BOOT_INFO">>
             \in Seq(Ops \ FileCommands)
  BY QueueFacts, CommandIsCall DEF DialogFree, Ops, FileCommands
<1>1. ASSUME NEW cmd \in Commands, CallSend(cmd)
      PROVE  ~crashed' /\ EngineFree' /\ DialogFree'
  <2>1. cmd \in Commands \ FileCommands /\ Send(cmd)
    BY <1>0, <1>1 DEF CallSend, Call
  <2>2. DialogFree'
    BY <1>0, <1>1 DEF CallSend, Call, CallDone, DialogFree
  <2> QED
    BY <2>1, <2>2, SendFree
<1>2. CASE CallShutdown \/ CallCreate \/ CallClose
  <2>1. DialogFree'
    BY <1>0, <1>2 DEF CallShutdown, CallCreate, CallClose, Call, CallDone,
           DialogFree
  <2> QED
    BY <1>2, <2>1, QuietFree DEF CallShutdown, CallCreate, CallClose
<1>3. CASE CallOpen
  <2>1. DialogFree'
    BY <1>0, <1>3 DEF CallOpen, Call, CallDone, DialogFree
  <2>2. \E ok \in BOOLEAN : OpenPort(ok)
    BY <1>3 DEF CallOpen
  <2> QED
    BY <2>1, <2>2, QuietFree
<1>4. CASE CallLoad
  <2>1. CASE UNCHANGED <<vars, enabled>>
    BY <1>0, <1>4, <2>1, QuietFree DEF CallLoad, Call, CallDone, DialogFree
  <2>2. ASSUME NEW file \in HexFiles, LoadHexFile(file)
        PROVE  ~crashed' /\ HexFile' # NoFile
    BY <2>2 DEF LoadHexFile
  <2> QED
    BY <1>4, <2>1, <2>2 DEF CallLoad
<1>5. CASE OnBootInfo
  <2>1. DialogFree'
    BY <1>5 DEF OnBootInfo, TakeNotice, SetButtons, DialogFree, FileButtons
  <2> QED
    BY <1>5, <2>1, NoticeFree DEF OnBootInfo
<1>6. CASE OnErased
  <2>1. DialogFree'
    BY <1>6 DEF OnErased, TakeNotice, SetButtons, DialogFree
  <2> QED
    BY <1>6, <2>1, NoticeFree DEF OnErased
<1>7. ~OnProgrammed /\ ~OnVerified
  BY NoticeFree DEF OnProgrammed, OnVerified, FileCommands
<1>8. CASE OnTransmitFailure
  <2>1. DialogFree'
    BY <1>8 DEF OnTransmitFailure, TakeNotice, SetButtons, DialogFree
  <2> QED
    BY <1>8, <2>1, NoticeFree DEF OnTransmitFailure
<1> QED
  BY <1>1, <1>2, <1>3, <1>4, <1>5, <1>6, <1>7, <1>8 DEF Gui

\* With a file loaded there is always one, and no call crashes.
LEMMA GuiKeepsFile ==
    ASSUME NoFile \notin HexFiles, HexFile # NoFile, ~crashed, Gui
    PROVE  ~crashed' /\ HexFile' # NoFile
<1>1. ASSUME NEW cmd \in Commands, Send(cmd) PROVE UNCHANGED <<HexFile, crashed>>
  BY <1>1 DEF Send, SendSimple, SendProgram, SendProgramFails, SendReadCrc,
         SendCrashes, SendCommand
<1>2. CASE \E cmd \in Commands : CallSend(cmd)
  BY <1>1, <1>2 DEF CallSend
<1>3. CASE CallShutdown \/ CallCreate \/ CallClose \/ CallOpen
  BY <1>3 DEF CallShutdown, CallCreate, CallClose, CallOpen, ShutdownBegins,
         CreateRxTxThread, ClosePort, OpenPort, vars, hexVars
<1>4. CASE CallLoad
  BY <1>4 DEF CallLoad, LoadHexFile, vars, hexVars
<1>5. CASE Deliver
  BY <1>5 DEF Deliver
<1> QED
  BY <1>2, <1>3, <1>4, <1>5
     DEF Gui, OnBootInfo, OnErased, OnProgrammed, OnVerified,
         OnTransmitFailure, TakeNotice

-----------------------------------------------------------------------------
LEMMA InitNull == DialogInit => NullInv
<1> SUFFICES ASSUME DialogInit PROVE NullInv
  OBVIOUS
<1>1. EngineFree /\ ~crashed
  BY FreeFacts DEF DialogInit, Init, EngineFree
<1>2. DialogFree
  BY DEF DialogInit, DialogFree
<1> QED
  BY <1>1, <1>2 DEF NullInv

LEMMA NullStep ==
    ASSUME NoFile \notin HexFiles, TypeOK, NullInv, [DialogNext]_allVars
    PROVE  NullInv'
<1>1. CASE ~crashed /\ User
  <2>1. UNCHANGED vars
    BY <1>1, UserIsSilent
  <2>2. EngineFree => EngineFree'
    BY <2>1, QuietFree
  <2>3. DialogFree => DialogFree'
    BY <1>1, UserFree
  <2> QED
    BY <2>1, <2>2, <2>3 DEF NullInv, vars, hexVars
<1>2. CASE ~crashed /\ Gui
  BY <1>2, GuiFree, GuiKeepsFile DEF NullInv
<1>3. CASE (Worker \/ GuiContinues \/ Environment) /\ UNCHANGED dialogVars
  <2>1. flash \in SUBSET Nat
    BY DEF TypeOK
  <2>2. UNCHANGED <<HexFile, crashed>>
    BY <1>3, <2>1, WorkerFree, GuiContinuesFree, EnvironmentFree,
       EngineKeepsFile DEF NullInv
  <2>3. EngineFree => EngineFree'
    BY <1>3, <2>1, WorkerFree, GuiContinuesFree, EnvironmentFree
  <2>4. DialogFree => DialogFree'
    BY <1>3 DEF DialogFree, dialogVars
  <2> QED
    BY <2>2, <2>3, <2>4 DEF NullInv
<1>4. CASE UNCHANGED allVars
  <2>1. EngineFree => EngineFree'
    BY <1>4, QuietFree DEF allVars
  <2>2. UNCHANGED <<HexFile, crashed>> /\ (DialogFree => DialogFree')
    BY <1>4 DEF allVars, dialogVars, vars, hexVars, DialogFree
  <2> QED
    BY <2>1, <2>2 DEF NullInv
<1> QED
  BY <1>1, <1>2, <1>3, <1>4 DEF DialogNext

\* If every file that is chosen can be opened, no handler, no call of the
\* engine and no step of the worker ever uses a NULL HexFilePtr: not under
\* retries, lost packets, reconnections or terminated workers either.
THEOREM NullFileNeverUsed ==
    ASSUME NoFile \notin HexFiles
    PROVE  DialogSpec => []NoCrash
<1>1. NullInv => NoCrash
  BY DEF NullInv, NoCrash
<1>2. TypeOK /\ NullInv /\ [DialogNext]_allVars => NullInv'
  BY NullStep
<1> QED
  BY <1>1, <1>2, InitNull, DialogKeepsEngine, PTL DEF DialogSpec
=============================================================================
