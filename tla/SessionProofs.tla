---------------------------- MODULE SessionProofs ----------------------------
(***************************************************************************)
(* The engine under the user it was written for: one who connects once and *)
(* works step by step, on a link that loses and disturbs no more than the  *)
(* retries make up for.  Nothing locks the fields the two threads share;   *)
(* what keeps them apart is a protocol, and this module proves that it     *)
(* does: one command at a time, from the click to its outcome.             *)
(***************************************************************************)
EXTENDS DialogProofs

(***************************************************************************)
(* That user and that link.  A command may spend one try on the packet the *)
(* GUI thread has armed and not yet framed, one per fault, and one more:   *)
(* the retries are declared exceeded without a further delay, so that the  *)
(* try that is answered must not be the last.                              *)
(***************************************************************************)
OneConnection ==
    /\ "RunApplication" \notin UserOps
    /\ MaxConnects <= 1
    /\ NoFile \notin HexFiles

StepByStepUser == OneConnection /\ "EraseProgVerify" \notin UserOps

SoundLink ==
    /\ Timely
    /\ FaultKinds \subseteq {"lose", "corrupt"}
    /\ GarbageRetries \subseteq {0}
    /\ \A cmd \in Answered : Retries[cmd] \in (MaxFaults + 3)..65535

-----------------------------------------------------------------------------
(***************************************************************************)
(* The inductive invariant: where a command can be on its way.             *)
(***************************************************************************)

\* At most one packet or reply is on the link.
LinkEmpty == toDevice = << >> /\ toHost = << >>
OnTheWay(packet) == toDevice = <<packet>> /\ toHost = << >>
OnTheWayBack(reply) == toDevice = << >> /\ toHost = <<reply>>

\* What the device answers to TxPacket.
Expected ==
    [cmd |-> TxPacket.cmd,
     data |-> IF TxPacket.cmd = "READ_CRC" THEN flash \cap 1..HexFile ELSE {}]

\* The try under way will be answered, unless a fault happens to it; or not.
LinkGood ==
    \/ OnTheWay(TxPacket)
    \/ /\ OnTheWayBack(Expected)
       /\ TxPacket.cmd = "PROGRAM_FLASH" => TxPacket.arg \in flash
       /\ TxPacket.cmd = "ERASE_FLASH" => flash = {}
LinkBad == LinkEmpty \/ OnTheWay(Cut) \/ OnTheWayBack(Noise)

\* The engine has nothing to send, to wait for or to report.
Calm ==
    /\ RetryCount = 0
    /\ TxState = "FIRST_TRY"
    /\ NoResponseFromDevice = FALSE
    /\ LinkEmpty
    /\ ResetHexFilePtr = TRUE

\* There are a port and a worker.
Running ==
    /\ BtlThread
    /\ portOpen
    /\ connects = 1
    /\ worker \in {"loop", "decrement", "store", "receive", "arm", "frame"}

Polling == Running /\ worker \in {"loop", "receive"}

Always ==
    /\ ExitThread = FALSE
    /\ EraseProgVer \/ enabled # {} => ConnectionEstablished
    /\ device = "app" => ~ConnectionEstablished

\* There are buttons to go back to after cmd.
Restorable(cmd) ==
    IF cmd = "READ_BOOT_INFO" THEN ~EraseProgVer
                              ELSE ConnectionEstablished /\ saved # {}

\* The user is to wait: the buttons are off, or the sequence is on.
HandsOff == enabled = {} \/ EraseProgVer

\* Before the worker is created: not connected, or connecting.
Start ==
    /\ ~BtlThread
    /\ worker = "none"
    /\ gui = "idle"
    /\ Calm
    /\ posted = << >>
    /\ enabled = {}
    /\ ~ConnectionEstablished
    /\ \/ todo = << >> /\ (connects = 0 => ~portOpen)
       \/ todo \in {<<"close", "open">>, <<"open">>} /\ connects = 1 /\ ~portOpen
       \/ /\ todo \in {<<"shutdown", "create", "READ_BOOT_INFO">>,
                       <<"create", "READ_BOOT_INFO">>}
          /\ connects = 1 /\ portOpen

\* No command is carried out.  Whoever waits now waits for ever: Program of a
\* file without a record sends nothing and says nothing.
Rest ==
    /\ Polling
    /\ Calm
    /\ gui = "idle"
    /\ posted = << >>
    /\ IF HandsOff THEN todo = << >> /\ HexFile = 0
                   ELSE todo \in {<< >>, <<"load">>}

\* The user waits and SendCommand is about to be called.
Planned ==
    /\ Polling
    /\ Calm
    /\ gui = "idle"
    /\ posted = << >>
    /\ HandsOff
    /\ \E cmd \in Answered : todo = <<cmd>> /\ Restorable(cmd)

\* cmd is in Buff, and the earlier packets of the file are in the flash.
Command(cmd) ==
    /\ Running
    /\ todo = << >>
    /\ posted = << >>
    /\ HandsOff
    /\ cmd \in Answered
    /\ Restorable(cmd)
    /\ NoResponseFromDevice = FALSE
    /\ LastSentCommand = cmd
    /\ Buff.cmd = cmd
    /\ cmd = "PROGRAM_FLASH" => /\ Buff.arg = HexPos
                                /\ HexPos \in 1..HexFile
                                /\ 1..(HexPos - 1) \subseteq flash
    /\ cmd = "READ_CRC" => HexFile # NoFile /\ Buff.arg = HexFile

\* The GUI thread is in SendCommand, before MaxRetry = RetryCount = Retries.
GuiArming ==
    /\ gui = "arm"
    /\ Command(guiCmd)
    /\ Polling
    /\ Calm
    /\ TxPacket = Cut

\* Behind it: the worker may send what there is of the packet, once.
CutNotSent ==
    /\ TxState = "FIRST_TRY"
    /\ RetryCount = MaxRetry
    /\ \/ worker \in {"loop", "receive"} /\ toDevice = << >>
       \/ worker = "decrement"
       \/ worker = "store" /\ reg = RetryCount

CutSent ==
    /\ TxState = "RE_TRY"
    /\ RetryCount = MaxRetry - 1
    /\ worker \in {"loop", "receive"}
    /\ retryDue = FALSE

GuiFraming ==
    /\ gui = "frame"
    /\ Command(guiCmd)
    /\ TxPacket = Cut
    /\ ResetHexFilePtr = TRUE
    /\ MaxRetry = Retries[guiCmd]
    /\ toDevice \in {<< >>, <<Cut>>}
    /\ toHost = << >>
    /\ CutNotSent \/ CutSent

\* The tries that are left when the one being made is counted.
TriesLeft == IF worker \in {"decrement", "store"} THEN RetryCount - 1
                                                  ELSE RetryCount

\* The next try waits until the link has gone quiet.
Pace ==
    /\ worker \in {"loop", "receive", "decrement", "store"}
    /\ worker = "store" => reg = RetryCount
    /\ worker \in {"decrement", "store"} => TxState = "FIRST_TRY" \/ retryDue
    /\ \/ LinkEmpty
       \/ worker \in {"decrement", "store"}
       \/ TxState = "RE_TRY" /\ ~retryDue

\* There are tries for every fault to come, and one to spare.
Budget ==
    /\ RetryCount <= MaxRetry
    /\ \/ LinkGood /\ TriesLeft >= MaxFaults - faults + 1
       \/ LinkBad /\ TriesLeft >= MaxFaults - faults + 2

\* The packet is sent, and sent again until it is answered.
Underway ==
    /\ gui = "idle"
    /\ Command(Buff.cmd)
    /\ TxPacket = Buff
    /\ device = "boot"
    /\ ResetHexFilePtr = TRUE
    /\ MaxRetry = Retries[Buff.cmd]
    /\ Pace
    /\ Budget

\* The worker is in SendCommand(PROGRAM_FLASH).
WorkerSending ==
    /\ gui = "idle"
    /\ Command("PROGRAM_FLASH")
    /\ device = "boot"
    /\ TxState = "FIRST_TRY"
    /\ LinkEmpty
    /\ MaxRetry = Retries["PROGRAM_FLASH"]
    /\ \/ worker = "arm" /\ reg = MaxRetry /\ RetryCount = 0
       \/ worker = "frame" /\ RetryCount = MaxRetry

\* cmd was answered and the GUI thread has not taken notice of it.
Notified(cmd) ==
    /\ posted = <<[kind |-> "response", cmd |-> cmd]>>
    /\ RxData.cmd = cmd
    /\ LastSentCommand = cmd
    /\ Restorable(cmd)
    /\ cmd = "ERASE_FLASH" => flash = {}
    /\ cmd = "PROGRAM_FLASH" => 1..HexFile \subseteq flash
    /\ cmd = "READ_CRC" => /\ HexFile # NoFile
                           /\ RxData.data = flash \cap 1..HexFile

Told ==
    /\ Polling
    /\ Calm
    /\ gui = "idle"
    /\ todo = << >>
    /\ HandsOff
    /\ device = "boot"
    /\ \E cmd \in Answered : Notified(cmd)

\* The device is not in its boot loader: READ_BOOT_INFO is never answered.
Away ==
    /\ BtlThread
    /\ connects = 1
    /\ device = "app"
    /\ gui = "idle"
    /\ todo = << >>
    /\ toHost = << >>
    /\ LastSentCommand \in Answered
    /\ \A i \in DOMAIN posted : posted[i].kind = "failure"
    /\ worker \in {"loop", "decrement", "store", "receive"}
    /\ NoResponseFromDevice => RetryCount = 0 /\ worker = "receive"

SessionInv ==
    /\ Always
    /\ \/ Start
       \/ Rest
       \/ Planned
       \/ GuiArming
       \/ GuiFraming
       \/ Underway
       \/ WorkerSending
       \/ Told
       \/ Away

-----------------------------------------------------------------------------
(***************************************************************************)
(* A link with one reply at most, and who can move.                        *)
(***************************************************************************)
LEMMA OneElement ==
    ASSUME NEW x
    PROVE  /\ Len(<<x>>) = 1 /\ <<x>>[1] = x /\ <<x>> # << >>
           /\ Head(<<x>>) = x /\ Tail(<<x>>) = << >>
           /\ Append(<< >>, x) = <<x>>
           /\ \A y : <<y>> \o Tail(<<x>>) = <<y>>
OBVIOUS

LEMMA ReadPortFacts ==
    ASSUME NEW n, ReadPort(n)
    PROVE  /\ toHost = << >> => n = 0 /\ toHost' = << >>
           /\ \A reply : toHost = <<reply>> /\ portOpen
                             => n = 1 /\ toHost' = << >>
<1>1. ASSUME toHost = << >> PROVE n = 0 /\ toHost' = << >>
  BY <1>1 DEF ReadPort
<1>2. ASSUME NEW reply, toHost = <<reply>>, portOpen
      PROVE  n = 1 /\ toHost' = << >>
  BY <1>2, OneElement DEF ReadPort
<1> QED
  BY <1>1, <1>2

\* Bytes that form no valid frame are swallowed.
LEMMA ReceiveNothingFacts ==
    ASSUME ReceiveNothing
    PROVE  /\ toHost = << >> => toHost' = << >>
           /\ \A reply : toHost = <<reply>> /\ portOpen
                             => toHost' = << >> /\ reply.cmd = NoCommand
<1>1. PICK n \in 0..LinkBound : ReadPort(n) /\ \A i \in 1..n : ~ValidAt(i)
  BY DEF ReceiveNothing
<1>2. ASSUME NEW reply, toHost = <<reply>>, portOpen
      PROVE  toHost' = << >> /\ reply.cmd = NoCommand
  <2>1. n = 1 /\ toHost' = << >> /\ ~ValidAt(1)
    BY <1>1, <1>2, ReadPortFacts
  <2> QED
    BY <1>2, <2>1 DEF ValidAt
<1> QED
  BY <1>1, <1>2, ReadPortFacts

\* Without an exceeded retry to report, nothing else happens.
LEMMA QuietReceive ==
    ASSUME ReceiveNothing, NoResponseFromDevice = FALSE
    PROVE  /\ worker = "receive" /\ worker' = "loop"
           /\ UNCHANGED <<posted, NoResponseFromDevice>>
           /\ UNCHANGED <<retryVars, packetVars, hexVars, threadVars, guiVars,
                          portOpen, toDevice, deviceVars>>
<1>1. NoResponseFromDevice' = FALSE
  BY DEF ReceiveNothing
<1>2. IF NoResponseFromDevice THEN HandleNoResponse ELSE UNCHANGED posted
  BY DEF ReceiveNothing
<1>3. UNCHANGED posted
  BY <1>2
<1>4. /\ worker = "receive" /\ worker' = "loop"
      /\ UNCHANGED <<retryVars, packetVars, hexVars, threadVars, guiVars,
                     portOpen, toDevice, deviceVars>>
  BY DEF ReceiveNothing
<1> QED
  BY <1>1, <1>3, <1>4

\* A valid one is taken.
LEMMA ReceiveFrameFacts ==
    ASSUME ReceiveFrame
    PROVE  /\ toHost # << >>
           /\ \A reply : toHost = <<reply>> /\ portOpen
                             => /\ toHost' = << >>
                                /\ RxData' = reply
                                /\ reply.cmd # NoCommand
<1>1. PICK n \in 1..LinkBound :
        ReadPort(n) /\ \E i \in 1..n : FirstFrame(i, n) /\ RxData' = toHost[i]
  BY DEF ReceiveFrame
<1>2. ASSUME NEW reply, toHost = <<reply>>, portOpen
      PROVE  toHost' = << >> /\ RxData' = reply /\ reply.cmd # NoCommand
  <2>1. n = 1 /\ toHost' = << >>
    BY <1>1, <1>2, ReadPortFacts
  <2>2. FirstFrame(1, n) /\ RxData' = toHost[1]
    BY <1>1, <2>1
  <2> QED
    BY <1>2, <2>1, <2>2 DEF FirstFrame, ValidAt
<1>3. toHost # << >>
  BY <1>1, ReadPortFacts
<1> QED
  BY <1>2, <1>3

\* Buttons that are off keep the user out, the sequence keeps a patient one
\* out, and who has connected once does not again.
LEMMA UserWaits ==
    ASSUME OneConnection, DialogTypes, HandsOff, Patient, connects = 1
    PROVE  ~User
<1>1. ~(connects < MaxConnects)
  BY ClicksAssumption DEF OneConnection
<1>2. ~\E button : Click(button)
  <2>1. ASSUME NEW button, Click(button) PROVE FALSE
    <3>1. enabled # {} /\ clicks' = clicks + 1
      BY <2>1 DEF Click
    <3>2. clicks' # clicks
      BY <3>1, ClicksAssumption DEF DialogTypes
    <3> QED
      BY <3>1, <3>2 DEF HandsOff, Patient
  <2> QED
    BY <2>1
<1> QED
  BY <1>1, <1>2 DEF User, OnBnClickedButtonErase, OnBnClickedButtonProgram,
       OnBnClickedButtonVerify, OnBnClickedButtonBootVer,
       OnBnClickedButtonEraseProgVerify, OnBnClickedButtonRunapplication,
       OnBnClickedButtonLoadhex, Disconnect, Connect, ClickCommand,
       ClickConnect

\* No handler goes on without a call to make or a notification to take.
LEMMA GuiWaits ==
    ASSUME todo = << >>, posted = << >>
    PROVE  ~Gui
BY DEF Gui, CallSend, CallShutdown, CallCreate, CallClose, CallOpen, CallLoad,
       Call, OnBootInfo, OnErased, OnProgrammed, OnVerified,
       OnTransmitFailure, TakeNotice, Deliver

\* Then nobody but the engine moves.
LEMMA EngineAlone ==
    ASSUME OneConnection, DialogTypes, PatientNext, gui = "idle",
           todo = << >>, posted = << >>, HandsOff, connects = 1
    PROVE  UNCHANGED dialogVars /\ (Worker \/ Environment)
<1>1. ~User /\ ~Gui
  BY UserWaits, GuiWaits DEF PatientNext
<1>2. ~GuiContinues
  BY DEF GuiContinues, GuiArms, GuiFrames, ShutdownEnds
<1> QED
  BY <1>1, <1>2 DEF PatientNext, DialogNext

LEMMA GuiBusyWaits ==
    ASSUME gui # "idle"
    PROVE  ~Gui /\ ~User
BY DEF Gui, CallSend, CallShutdown, CallCreate, CallClose, CallOpen, CallLoad,
       Call, OnBootInfo, OnErased, OnProgrammed, OnVerified,
       OnTransmitFailure, TakeNotice, Deliver, User, OnBnClickedButtonErase,
       OnBnClickedButtonProgram, OnBnClickedButtonVerify,
       OnBnClickedButtonBootVer, OnBnClickedButtonEraseProgVerify,
       OnBnClickedButtonRunapplication, OnBnClickedButtonLoadhex, Disconnect,
       Connect, ClickCommand, Click, ClickConnect, AtRest

\* While the engine is calm the worker polls, and nothing else happens.
polledVars == <<TxState, RetryCount, MaxRetry, packetVars, RxData, posted,
                NoResponseFromDevice, hexVars, threadVars, guiVars, crashed,
                portOpen, linkVars, deviceVars>>

LEMMA CalmWorker ==
    ASSUME Calm, Polling, Always, Worker
    PROVE  worker' \in {"loop", "receive"} /\ UNCHANGED polledVars
<1> USE DEF polledVars, Calm, Polling, Always, LinkEmpty, retryVars, rxVars,
        linkVars
<1>1. ~ReceiveFrame
  BY ReceiveFrameFacts
<1>2. CASE TransmitNothing /\ UNCHANGED crashed
  BY <1>2 DEF TransmitNothing
<1>3. CASE ReceiveNothing /\ UNCHANGED crashed
  <2>1. toHost' = << >>
    BY <1>3, ReceiveNothingFacts
  <2>2. RxData' = RxData
    BY <1>3, ReadPortFacts DEF ReceiveNothing
  <2> QED
    BY <1>3, <2>1, <2>2 DEF ReceiveNothing
<1> QED
  BY <1>1, <1>2, <1>3
     DEF Worker, WorkerExits, Transmit, MayTransmit, RetriesExceeded,
         LoadRetryCount, StoreRetryCount, ReceiveResponse, ReceiveProgramNext,
         ReceiveProgramDone, ReceiveProgramCrash, WorkerArms, WorkerFrames

LEMMA CalmEnvironment ==
    ASSUME Calm, SoundLink
    PROVE  ~Environment
BY DEF Environment, DeviceStep, LosePacket, LoseReply, CorruptReply,
       DeviceReset, DelayElapses, Fault, Calm, LinkEmpty, SoundLink

LEMMA PollingStays ==
    ASSUME Polling, worker' \in {"loop", "receive"},
           UNCHANGED <<polledVars, dialogVars>>
    PROVE  /\ Rest => Rest'
           /\ Planned => Planned'
           /\ GuiArming => GuiArming'
           /\ Told => Told'
           /\ Always => Always'
<1> USE DEF polledVars, dialogVars, packetVars, hexVars, threadVars, guiVars,
        linkVars, deviceVars, Polling, Running, Calm, LinkEmpty
<1>1. Rest => Rest'
  BY DEF Rest, HandsOff
<1>2. Planned => Planned'
  BY DEF Planned, HandsOff, Restorable
<1>3. GuiArming => GuiArming'
  BY DEF GuiArming, Command, HandsOff, Restorable
<1>4. Told => Told'
  BY DEF Told, HandsOff, Notified, Restorable
<1>5. Always => Always'
  BY DEF Always
<1> QED
  BY <1>1, <1>2, <1>3, <1>4, <1>5

LEMMA AlwaysStays ==
    ASSUME Always,
           UNCHANGED <<ExitThread, device, EraseProgVer, enabled,
                       ConnectionEstablished>>
    PROVE  Always'
BY DEF Always

-----------------------------------------------------------------------------
(***************************************************************************)
(* From the start to the first command.                                    *)
(***************************************************************************)
\* The calls Connect makes, one after the other.
LEMMA ConnectCalls ==
    /\ Head(<<"close", "open">>) = "close"
    /\ Tail(<<"close", "open">>) = <<"open">>
    /\ Head(<<"open">>) = "open" /\ Tail(<<"open">>) = << >>
    /\ Head(<<"shutdown", "create", "READ_BOOT_INFO">>) = "shutdown"
    /\ Tail(<<"shutdown", "create", "READ_BOOT_INFO">>)
           = <<"create", "READ_BOOT_INFO">>
    /\ Head(<<"create", "READ_BOOT_INFO">>) = "create"
    /\ Tail(<<"create", "READ_BOOT_INFO">>) = <<"READ_BOOT_INFO">>
OBVIOUS

LEMMA StartStep ==
    ASSUME OneConnection, SoundLink, Always, Start, PatientNext, DialogTypes
    PROVE  Always' /\ (Start' \/ Planned')
<1> USE DEF Start
<1>1. CASE User
  <2>1. todo = << >> /\ Connect /\ connects = 0 /\ connects' = 1
    BY <1>1, ClicksAssumption
       DEF User, OnBnClickedButtonErase, OnBnClickedButtonProgram,
           OnBnClickedButtonVerify, OnBnClickedButtonBootVer,
           OnBnClickedButtonEraseProgVerify, OnBnClickedButtonRunapplication,
           OnBnClickedButtonLoadhex, Disconnect, Connect, ClickCommand, Click,
           ClickConnect, AtRest, OneConnection, DialogTypes
  <2>2. UNCHANGED vars
    BY <1>1, UserIsSilent
  <2>3. Start'
    BY <2>1, <2>2
       DEF Connect, Calm, LinkEmpty, vars, retryVars, packetVars, rxVars,
           hexVars, threadVars, guiVars, linkVars, deviceVars
  <2>4. Always'
    BY <2>1, <2>2
       DEF Connect, Always, vars, retryVars, packetVars, rxVars, hexVars,
           threadVars, guiVars, linkVars, deviceVars
  <2> QED
    BY <2>3, <2>4
<1>2. CASE ~crashed /\ Gui
  <2>0. /\ todo = <<"close", "open">>
               => Head(todo) = "close" /\ Tail(todo) = <<"open">>
        /\ todo = <<"open">> => Head(todo) = "open" /\ Tail(todo) = << >>
        /\ todo = <<"shutdown", "create", "READ_BOOT_INFO">>
               => /\ Head(todo) = "shutdown"
                  /\ Tail(todo) = <<"create", "READ_BOOT_INFO">>
        /\ todo = <<"create", "READ_BOOT_INFO">>
               => Head(todo) = "create" /\ Tail(todo) = <<"READ_BOOT_INFO">>
    BY ConnectCalls
  <2>a. Head(todo) \in {"close", "open", "shutdown", "create"}
    <3>1. todo # << >>
      BY <1>2, GuiWaits
    <3>2. \/ todo = <<"close", "open">>
          \/ todo = <<"open">>
          \/ todo = <<"shutdown", "create", "READ_BOOT_INFO">>
          \/ todo = <<"create", "READ_BOOT_INFO">>
      BY <3>1
    <3> QED
      BY <2>0, <3>2, Zenon
  <2>1. CallClose \/ CallOpen \/ CallShutdown \/ CallCreate
    BY <1>2, <2>a DEF Gui, CallSend, CallLoad, Call, OnBootInfo, OnErased,
           OnProgrammed, OnVerified, OnTransmitFailure, TakeNotice, Deliver,
           Commands, Answered
  <2>2. CASE CallClose
    <3>1. todo = <<"close", "open">> /\ todo' = <<"open">> /\ UNCHANGED vars
      BY <2>0, <2>a, <2>2 DEF CallClose, Call, CallDone
    <3> QED
      BY <2>2, <3>1 DEF CallClose, Calm, LinkEmpty, Always, vars, retryVars,
             packetVars, rxVars, hexVars, threadVars, guiVars, linkVars,
             deviceVars
  <2>3. CASE CallOpen
    <3>1. todo = <<"open">> /\ Tail(todo) = << >>
      BY <2>0, <2>a, <2>3 DEF CallOpen, Call
    <3>2. Always' /\ Calm' /\ UNCHANGED <<BtlThread, worker, gui, posted, connects>>
      BY <2>3 DEF CallOpen, OpenPort, Calm, LinkEmpty, Always, retryVars,
             packetVars, rxVars, hexVars, threadVars, guiVars, deviceVars
    <3>3. enabled' = {} /\ UNCHANGED ConnectionEstablished
      BY <2>3 DEF CallOpen
    <3>4. \/ portOpen' /\ todo' = <<"shutdown", "create", "READ_BOOT_INFO">>
          \/ ~portOpen' /\ todo' = << >>
      BY <2>3, <3>1 DEF CallOpen, CallDone, OpenPort
    <3>5. connects = 1
      BY <3>1
    <3> QED
      BY <3>2, <3>3, <3>4, <3>5
  <2>4. CASE CallShutdown
    <3>1. /\ todo = <<"shutdown", "create", "READ_BOOT_INFO">>
          /\ todo' = <<"create", "READ_BOOT_INFO">> /\ UNCHANGED vars
      BY <2>0, <2>a, <2>4 DEF CallShutdown, Call, CallDone
    <3> QED
      BY <2>4, <3>1 DEF CallShutdown, Calm, LinkEmpty, Always, vars,
             retryVars, packetVars, rxVars, hexVars, threadVars, guiVars,
             linkVars, deviceVars
  <2>5. CASE CallCreate
    <3>0. /\ todo = <<"create", "READ_BOOT_INFO">>
          /\ todo' = <<"READ_BOOT_INFO">> /\ CreateRxTxThread
      BY <2>0, <2>a, <2>5 DEF CallCreate, Call, CallDone
    <3>1. Always'
      BY <2>5, <3>0 DEF CallCreate, CreateRxTxThread, Always, deviceVars
    <3>a. ~EraseProgVer'
      BY <2>5 DEF CallCreate, Always
    <3>2. Planned'
      BY <2>5, <3>0, <3>a DEF CallCreate, CreateRxTxThread, Planned, HandsOff,
             Polling, Running, Calm, LinkEmpty, Restorable, Answered, retryVars,
             packetVars, rxVars, hexVars, guiVars, linkVars, deviceVars
    <3> QED
      BY <3>1, <3>2
  <2> QED
    BY <2>1, <2>2, <2>3, <2>4, <2>5
<1>3. ~Worker /\ ~GuiContinues
  BY DEF Worker, WorkerExits, Transmit, TransmitNothing, RetriesExceeded,
         LoadRetryCount, StoreRetryCount, ReceiveNothing, ReceiveFrame,
         ReceiveResponse, ReceiveProgramNext, ReceiveProgramDone,
         ReceiveProgramCrash, WorkerArms, WorkerFrames, GuiContinues,
         GuiArms, GuiFrames, ShutdownEnds
<1> QED
  BY <1>1, <1>2, <1>3, CalmEnvironment DEF PatientNext, DialogNext

\* A step of the engine while it is calm.
LEMMA CalmEngine ==
    ASSUME Always, Calm, Polling, SoundLink, gui = "idle",
           Worker \/ GuiContinues \/ Environment, UNCHANGED dialogVars
    PROVE  worker' \in {"loop", "receive"} /\ UNCHANGED <<polledVars, dialogVars>>
<1>1. ~GuiContinues
  BY DEF GuiContinues, GuiArms, GuiFrames, ShutdownEnds
<1> QED
  BY <1>1, CalmWorker, CalmEnvironment

\* A file is chosen, or the file dialog is cancelled.
LEMMA LoadFacts ==
    ASSUME CallLoad, todo = <<"load">>
    PROVE  /\ todo' = << >>
           /\ enabled # {} => enabled' # {}
           /\ UNCHANGED <<TxState, RetryCount, packetVars, RxData, posted,
                          NoResponseFromDevice, ResetHexFilePtr, threadVars,
                          guiVars, worker, portOpen, linkVars, deviceVars,
                          ConnectionEstablished, EraseProgVer, saved, connects>>
<1>1. todo' = << >>
  BY DEF CallLoad, CallDone
<1>2. CASE UNCHANGED <<vars, enabled>>
  BY <1>1, <1>2 DEF CallLoad, vars, retryVars, rxVars, hexVars
<1>3. ASSUME NEW file \in HexFiles, LoadHexFile(file),
             enabled' = IF file = NoFile THEN enabled
                        ELSE enabled \cup {"Program", "EraseProgVerify"}
      PROVE  /\ enabled # {} => enabled' # {}
             /\ UNCHANGED <<TxState, RetryCount, packetVars, RxData, posted,
                            NoResponseFromDevice, ResetHexFilePtr, threadVars,
                            guiVars, worker, portOpen, linkVars, deviceVars>>
  BY <1>3 DEF LoadHexFile, retryVars, rxVars
<1> QED
  BY <1>1, <1>2, <1>3 DEF CallLoad

LEMMA RestStep ==
    ASSUME OneConnection, SoundLink, Always, Rest, PatientNext, DialogTypes
    PROVE  Always' /\ (Rest' \/ Planned')
<1> USE DEF Rest
<1>1. CASE User
  <2>1. UNCHANGED vars
    BY <1>1, UserIsSilent
  <2>2. ~Connect /\ ~Disconnect
    BY ClicksAssumption DEF Connect, Disconnect, ClickConnect,
       OneConnection, DialogTypes, Polling, Running
  <2>3. ASSUME NEW button, NEW cmd \in Answered, ClickCommand(button, cmd),
               EraseProgVer' \in {EraseProgVer, TRUE},
               cmd = "READ_BOOT_INFO" => UNCHANGED EraseProgVer
        PROVE  Always' /\ Planned'
    <3>1. /\ enabled # {} /\ saved' = enabled /\ enabled' = {}
          /\ todo' = <<cmd>> /\ UNCHANGED <<ConnectionEstablished, connects>>
      BY <2>3 DEF ClickCommand, Click
    <3>2. ConnectionEstablished /\ ~HandsOff
      BY <1>1, <3>1, UserWaits DEF Always, Polling, Running, PatientNext
    <3>3. Always'
      BY <2>1, <2>3, <3>1 DEF Always, vars, threadVars, deviceVars
    <3>4. Planned'
      BY <2>1, <2>3, <3>1, <3>2
         DEF Planned, HandsOff, Restorable, Polling, Running, Calm, LinkEmpty,
             vars, retryVars, rxVars, hexVars, threadVars, guiVars, linkVars
    <3> QED
      BY <3>3, <3>4
  <2>4. CASE OnBnClickedButtonLoadhex
    <3>1. /\ ~HandsOff /\ todo' = <<"load">>
          /\ UNCHANGED <<enabled, ConnectionEstablished, EraseProgVer, connects>>
      BY <1>1, <2>4, UserWaits
         DEF OnBnClickedButtonLoadhex, Click, PatientNext, Polling, Running
    <3> QED
      BY <2>1, <3>1
         DEF Always, HandsOff, Polling, Running, Calm, LinkEmpty, vars, retryVars,
             rxVars, hexVars, threadVars, guiVars, linkVars, deviceVars
  <2>5. ~OnBnClickedButtonRunapplication
    BY DEF OnBnClickedButtonRunapplication, Click, OneConnection
  <2>6. CASE OnBnClickedButtonErase \/ OnBnClickedButtonProgram
               \/ OnBnClickedButtonVerify \/ OnBnClickedButtonBootVer
               \/ OnBnClickedButtonEraseProgVerify
    BY <2>3, <2>6 DEF OnBnClickedButtonErase, OnBnClickedButtonProgram,
           OnBnClickedButtonVerify, OnBnClickedButtonBootVer,
           OnBnClickedButtonEraseProgVerify, Answered
  <2> QED
    BY <1>1, <2>2, <2>4, <2>5, <2>6 DEF User
<1>2. CASE ~crashed /\ Gui
  <2>1. todo = <<"load">> /\ Head(todo) = "load"
    BY <1>2, GuiWaits
  <2>2. CallLoad
    BY <1>2, <2>1 DEF Gui, CallSend, CallShutdown, CallCreate, CallClose,
           CallOpen, Call, OnBootInfo, OnErased, OnProgrammed, OnVerified,
           OnTransmitFailure, TakeNotice, Deliver, Commands, Answered
  <2>3. Always' /\ Rest'
    BY <2>1, <2>2, LoadFacts
       DEF Always, HandsOff, Polling, Running, Calm, LinkEmpty, threadVars,
           guiVars, linkVars, deviceVars
  <2> QED
    BY <2>3
<1>3. CASE (Worker \/ GuiContinues \/ Environment) /\ UNCHANGED dialogVars
  BY <1>3, CalmEngine, PollingStays
<1> QED
  BY <1>1, <1>2, <1>3 DEF PatientNext, DialogNext

\* The call is made; Program without a record to send stops right there.
LEMMA PlannedStep ==
    ASSUME OneConnection, SoundLink, Always, Planned, PatientNext,
           TypeOK, DialogTypes, NullInv, ~crashed'
    PROVE  Always' /\ (Planned' \/ GuiArming' \/ Rest')
<1> USE DEF Planned
<1>1. PICK cmd \in Answered : todo = <<cmd>> /\ Restorable(cmd)
  OBVIOUS
<1>2. CASE User
  BY <1>2, UserWaits DEF Polling, Running, PatientNext
<1>3. CASE ~crashed /\ Gui
  <2>1. Head(todo) = cmd /\ Tail(todo) = << >> /\ todo # << >>
    BY <1>1, OneElement
  <2>2. CallSend(cmd)
    BY <1>1, <1>3, <2>1
       DEF Gui, CallSend, CallShutdown, CallCreate, CallClose, CallOpen,
           CallLoad, Call, OnBootInfo, OnErased, OnProgrammed, OnVerified,
           OnTransmitFailure, TakeNotice, Deliver, Commands, Answered
  <2>3. /\ todo' = << >>
        /\ UNCHANGED <<ConnectionEstablished, EraseProgVer, enabled, saved,
                       connects>>
    BY <2>1, <2>2 DEF CallSend, CallDone
  <2>4. Send(cmd)
    BY <2>2 DEF CallSend
  <2>5. ~SendCrashes(cmd)
    BY DEF SendCrashes
  <2>6. ASSUME NEW arg, SendCommand(cmd, arg),
               cmd = "PROGRAM_FLASH" =>
                   arg = 1 /\ HexPos' = 1 /\ HexFile \in Nat /\ HexFile >= 1,
               cmd = "READ_CRC" => arg = HexFile /\ HexFile # NoFile
        PROVE  Always' /\ GuiArming'
    <3>1. /\ TxPacket' = Cut /\ LastSentCommand' = cmd
          /\ Buff'.cmd = cmd /\ Buff'.arg = arg
          /\ guiCmd' = cmd /\ gui' = "arm"
      BY <2>6 DEF SendCommand, Enter
    <3>2. UNCHANGED <<retryVars, rxVars, ResetHexFilePtr, HexFile, threadVars,
                      worker, portOpen, linkVars, deviceVars>>
      BY <2>6 DEF SendCommand
    <3>3. Always'
      BY <2>3, <3>2 DEF Always, threadVars, deviceVars
    <3>4. Polling' /\ Calm'
      BY <2>3, <3>2 DEF Polling, Running, Calm, LinkEmpty, retryVars, rxVars,
             threadVars, linkVars
    <3>5. cmd = "PROGRAM_FLASH" => /\ Buff'.arg = HexPos'
                                   /\ HexPos' \in 1..HexFile'
                                   /\ 1..(HexPos' - 1) \subseteq flash'
      BY <2>6, <3>1, <3>2
    <3>6. cmd = "READ_CRC" => HexFile' # NoFile /\ Buff'.arg = HexFile'
      BY <2>6, <3>1, <3>2
    <3>7. Command(cmd)'
      BY <1>1, <2>3, <3>1, <3>2, <3>4, <3>5, <3>6
         DEF Command, HandsOff, Restorable, Polling, Calm, rxVars
    <3> QED
      BY <3>1, <3>3, <3>4, <3>7 DEF GuiArming
  <2>7. CASE SendSimple(cmd)
    BY <2>6, <2>7 DEF SendSimple
  <2>8. CASE cmd = "PROGRAM_FLASH" /\ SendProgram
    <3>1. ProgramFrom = 0
      BY DEF ProgramFrom, Calm
    <3>2. HexFile \in Nat /\ HexFile >= 1
      BY <2>8, <3>1 DEF SendProgram, NoMoreRecords, TypeOK, NoFile
    <3> QED
      BY <2>6, <2>8, <3>1, <3>2 DEF SendProgram
  <2>9. CASE cmd = "PROGRAM_FLASH" /\ SendProgramFails
    <3>1. HexFile # NoFile
      <4>1. ~(todo \in Seq(Ops \ FileCommands))
        BY <1>1, <2>9 DEF FileCommands
      <4> QED
        BY <4>1 DEF NullInv, DialogFree
    <3>2. HexFile = 0
      BY <2>9, <3>1
         DEF SendProgramFails, NoMoreRecords, ProgramFrom, Calm, TypeOK, NoFile
    <3> QED
      BY <2>3, <2>9, <3>2 DEF SendProgramFails, Always, Rest, HandsOff, Polling,
         Running, Calm, LinkEmpty, retryVars, rxVars, threadVars, guiVars,
         linkVars, deviceVars
  <2>10. CASE cmd = "READ_CRC" /\ SendReadCrc
    BY <2>6, <2>10 DEF SendReadCrc
  <2> QED
    BY <2>4, <2>5, <2>7, <2>8, <2>9, <2>10 DEF Send
<1>4. CASE (Worker \/ GuiContinues \/ Environment) /\ UNCHANGED dialogVars
  BY <1>4, CalmEngine, PollingStays
<1> QED
  BY <1>2, <1>3, <1>4 DEF PatientNext, DialogNext

-----------------------------------------------------------------------------
(***************************************************************************)
(* The GUI thread in SendCommand.                                          *)
(***************************************************************************)

\* What a command is stays the same until it is answered.
commandVars == <<BtlThread, portOpen, posted, NoResponseFromDevice,
                 LastSentCommand, Buff, HexPos, HexFile, ResetHexFilePtr,
                 ExitThread, dialogVars>>

LEMMA CommandStays ==
    ASSUME NEW cmd, Command(cmd), UNCHANGED commandVars,
           worker' \in {"loop", "decrement", "store", "receive", "arm", "frame"},
           cmd = "PROGRAM_FLASH" => flash \subseteq flash'
    PROVE  Command(cmd)'
BY DEF Command, HandsOff, Running, Restorable, commandVars, dialogVars

LEMMA ThreeTries ==
    ASSUME SoundLink, TypeOK, NEW cmd \in Answered
    PROVE  /\ Retries[cmd] \in Nat /\ Retries[cmd] <= 65535
           /\ Retries[cmd] >= MaxFaults + 3
           /\ MaxFaults \in Nat /\ faults \in Nat /\ faults <= MaxFaults
           /\ RetryCount \in Nat /\ MaxRetry \in Nat /\ reg \in Nat
BY FaultAssumption DEF SoundLink, TypeOK

LEMMA GuiArmingStep ==
    ASSUME SoundLink, Always, GuiArming, PatientNext
    PROVE  Always' /\ (GuiArming' \/ GuiFraming')
<1> USE DEF GuiArming
<1>1. ~User /\ ~Gui /\ ~Environment
  BY GuiBusyWaits, CalmEnvironment
<1>2. CASE Worker /\ UNCHANGED dialogVars
  BY <1>2, CalmWorker, PollingStays
<1>3. CASE GuiContinues /\ UNCHANGED dialogVars
  <2>1. GuiArms /\ Arm(Retries[guiCmd]) /\ gui' = "frame"
    BY <1>3 DEF GuiContinues, GuiArms, GuiFrames, ShutdownEnds
  <2>2. UNCHANGED <<TxState, retryDue, reg, packetVars, rxVars, hexVars,
                    threadVars, guiCmd, worker, crashed, portOpen, linkVars,
                    deviceVars, dialogVars>>
    BY <1>3, <2>1 DEF GuiArms
  <2>3. Always'
    BY <2>2, AlwaysStays DEF threadVars, deviceVars, dialogVars
  <2>4. Command(guiCmd)'
    BY <2>2, CommandStays DEF commandVars, packetVars, rxVars, hexVars,
       threadVars, deviceVars, Polling
  <2>5. GuiFraming'
    BY <2>1, <2>2, <2>4 DEF GuiFraming, CutNotSent, Arm, Polling, Calm,
       LinkEmpty, packetVars, hexVars, linkVars
  <2> QED
    BY <2>3, <2>5
<1> QED
  BY <1>1, <1>2, <1>3 DEF PatientNext, DialogNext

\* The worker's steps that send, wait and count.
framingVars == <<commandVars, gui, guiCmd, TxPacket, MaxRetry, flash, device>>

LEMMA GuiFramingStays ==
    ASSUME GuiFraming, UNCHANGED framingVars,
           worker' \in {"loop", "decrement", "store", "receive"},
           toDevice' \in {<< >>, <<Cut>>}, toHost' = << >>,
           CutNotSent' \/ CutSent'
    PROVE  GuiFraming'
<1>1. UNCHANGED <<commandVars, gui, guiCmd, TxPacket, MaxRetry, flash,
                  ResetHexFilePtr>>
  BY DEF framingVars, commandVars
<1>2. Command(guiCmd)'
  BY <1>1, CommandStays DEF GuiFraming
<1> QED
  BY <1>1, <1>2 DEF GuiFraming

LEMMA GuiFramingWorker ==
    ASSUME SoundLink, TypeOK, Always, GuiFraming, Worker, UNCHANGED dialogVars
    PROVE  GuiFraming' /\ UNCHANGED framingVars
<1>0. /\ MaxRetry \in Nat /\ MaxRetry >= 3 /\ MaxRetry <= 65535
      /\ toHost = << >> /\ toDevice \in {<< >>, <<Cut>>}
      /\ worker \in {"loop", "receive", "decrement", "store"}
      /\ NoResponseFromDevice = FALSE
  BY ThreeTries DEF GuiFraming, Command, CutNotSent, CutSent
<1>1. ~ReceiveFrame
  BY <1>0, ReceiveFrameFacts
<1>2. CutNotSent \/ CutSent
  BY DEF GuiFraming
<1>a. UNCHANGED <<packetVars, posted, hexVars, threadVars, guiVars, portOpen,
                  deviceVars, dialogVars, NoResponseFromDevice, MaxRetry>>
        => UNCHANGED framingVars
  BY DEF framingVars, commandVars, packetVars, rxVars, hexVars, threadVars,
         guiVars, deviceVars
<1> USE DEF retryVars, rxVars, linkVars
<1>3. CASE Transmit
  <2>1. /\ worker = "loop" /\ worker' = "decrement" /\ TxState = "FIRST_TRY"
        /\ UNCHANGED framingVars
        /\ UNCHANGED <<toHost, MaxRetry, TxState, RetryCount>>
    <3>1. worker = "loop" /\ worker' = "decrement" /\ MayTransmit
      BY <1>3 DEF Transmit
    <3>2. TxState = "FIRST_TRY"
      BY <1>2, <3>1 DEF MayTransmit, CutSent, CutNotSent
    <3>3. UNCHANGED framingVars
      BY <1>3, <1>a DEF Transmit
    <3> QED
      BY <1>3, <3>1, <3>2, <3>3 DEF Transmit
  <2>2. toDevice = << >> /\ TxPacket = Cut
    BY <1>2, <2>1 DEF CutNotSent, CutSent, GuiFraming
  <2>3. toDevice' \in {<< >>, <<Cut>>}
    BY <1>3, <2>2, OneElement DEF Transmit, WritePort
  <2>4. CutNotSent'
    BY <1>2, <2>1 DEF CutNotSent, CutSent
  <2> QED
    BY <1>0, <2>1, <2>3, <2>4, GuiFramingStays
<1>4. CASE TransmitNothing
  <2>1. /\ worker = "loop" /\ worker' = "receive" /\ UNCHANGED framingVars
        /\ UNCHANGED <<toHost, toDevice, MaxRetry, TxState, RetryCount, retryDue>>
    BY <1>4, <1>a DEF TransmitNothing
  <2>2. CutNotSent' \/ CutSent'
    BY <1>2, <2>1 DEF CutNotSent, CutSent
  <2> QED
    BY <1>0, <2>1, <2>2, GuiFramingStays
<1>5. ~RetriesExceeded
  BY <1>0, <1>2 DEF RetriesExceeded, CutNotSent, CutSent
<1>6. CASE LoadRetryCount
  <2>1. /\ worker = "decrement" /\ worker' = "store" /\ reg' = RetryCount
        /\ UNCHANGED framingVars
        /\ UNCHANGED <<toHost, toDevice, MaxRetry, TxState, RetryCount>>
    BY <1>6, <1>a DEF LoadRetryCount
  <2>2. CutNotSent'
    BY <1>2, <2>1 DEF CutNotSent, CutSent
  <2> QED
    BY <1>0, <2>1, <2>2, GuiFramingStays
<1>7. CASE StoreRetryCount
  <2>1. /\ worker = "store" /\ worker' = "receive"
        /\ RetryCount' = (reg - 1) % 65536 /\ TxState' = "RE_TRY"
        /\ retryDue' = FALSE /\ UNCHANGED framingVars
        /\ UNCHANGED <<toHost, toDevice, MaxRetry>>
    BY <1>7, <1>a DEF StoreRetryCount
  <2>2. reg = MaxRetry
    BY <1>2, <2>1 DEF CutNotSent, CutSent
  <2>3. RetryCount' = MaxRetry' - 1
    BY <1>0, <2>1, <2>2
  <2>4. CutSent'
    BY <2>1, <2>3 DEF CutSent
  <2> QED
    BY <1>0, <2>1, <2>4, GuiFramingStays
<1>8. CASE ReceiveNothing
  <2>1. /\ worker = "receive" /\ worker' = "loop" /\ UNCHANGED framingVars
        /\ UNCHANGED <<toDevice, MaxRetry, TxState, RetryCount, retryDue>>
    <3>0. NoResponseFromDevice = FALSE
      BY <1>0
    <3>1. /\ worker = "receive" /\ worker' = "loop"
          /\ UNCHANGED <<posted, NoResponseFromDevice>>
          /\ UNCHANGED <<retryVars, packetVars, hexVars, threadVars, guiVars,
                         portOpen, toDevice, deviceVars>>
      BY <1>8, <3>0, QuietReceive, Zenon
    <3>2. UNCHANGED framingVars
      BY <1>a, <3>1
    <3> QED
      BY <3>1, <3>2
  <2>2. toHost' = << >>
    BY <1>0, <1>8, ReceiveNothingFacts
  <2>3. CutNotSent' \/ CutSent'
    BY <1>2, <2>1 DEF CutNotSent, CutSent
  <2> QED
    BY <1>0, <2>1, <2>2, <2>3, GuiFramingStays
<1>9. ~WorkerExits /\ ~WorkerArms /\ ~WorkerFrames
  BY <1>0 DEF Always, WorkerExits, WorkerArms, WorkerFrames
<1> QED
  BY <1>1, <1>3, <1>4, <1>5, <1>6, <1>7, <1>8, <1>9
     DEF Worker, ReceiveResponse, ReceiveProgramNext, ReceiveProgramDone,
         ReceiveProgramCrash

LEMMA GuiFramingEnvironment ==
    ASSUME SoundLink, GuiFraming, Environment, UNCHANGED dialogVars
    PROVE  GuiFraming' /\ UNCHANGED framingVars
<1>0. toHost = << >> /\ toDevice \in {<< >>, <<Cut>>} /\ gui = "frame"
  BY DEF GuiFraming
<1>1. ~LoseReply /\ ~CorruptReply /\ ~DeviceReset /\ ~DelayElapses
  BY <1>0 DEF LoseReply, CorruptReply, DeviceReset, DelayElapses, Fault,
     SoundLink
<1>2. DeviceStep \/ LosePacket
  BY <1>1 DEF Environment
<1>3. toDevice # << >> /\ Head(toDevice) = Cut /\ Tail(toDevice) = << >>
  BY <1>0, <1>2, OneElement DEF DeviceStep, LosePacket
<1>4. /\ UNCHANGED programVars
      /\ UNCHANGED <<toHost, flash, device>>
      /\ toDevice' = << >>
  BY <1>2, <1>3 DEF DeviceStep, LosePacket
<1>5. UNCHANGED <<framingVars, worker, reg, TxState, RetryCount, retryDue>>
  BY <1>4 DEF framingVars, commandVars, programVars, retryVars, packetVars,
     rxVars, hexVars, threadVars, guiVars
<1>6. UNCHANGED MaxRetry
  BY <1>5 DEF framingVars
<1>7. CutNotSent' \/ CutSent'
  BY <1>4, <1>5, <1>6 DEF GuiFraming, CutNotSent, CutSent
<1>8. worker' \in {"loop", "decrement", "store", "receive"}
  BY <1>7 DEF CutNotSent, CutSent
<1> QED
  BY <1>0, <1>4, <1>5, <1>7, <1>8, GuiFramingStays

\* The packet is complete.  It goes to a device that listens, or nowhere.
LEMMA GuiFramingGui ==
    ASSUME SoundLink, TypeOK, GuiFraming, GuiContinues, UNCHANGED dialogVars
    PROVE  /\ Underway' \/ Away'
           /\ UNCHANGED <<ExitThread, device, LastSentCommand, BtlThread>>
<1>0. /\ MaxRetry \in Nat /\ MaxRetry >= MaxFaults + 3 /\ MaxRetry <= 65535
      /\ MaxFaults \in Nat /\ faults \in Nat
      /\ worker \in {"loop", "receive", "decrement", "store"}
      /\ gui = "frame" /\ guiCmd \in Answered /\ Buff.cmd = guiCmd
      /\ toHost = << >> /\ toDevice \in {<< >>, <<Cut>>}
      /\ device \in {"boot", "app"}
  BY ThreeTries DEF GuiFraming, Command, CutNotSent, CutSent, TypeOK
<1>1. GuiFrames
  BY <1>0 DEF GuiContinues, GuiArms, ShutdownEnds
<1>2. /\ gui' = "idle" /\ Frame
      /\ UNCHANGED <<retryVars, rxVars, hexVars, threadVars, worker, crashed,
                     portOpen, linkVars, deviceVars>>
  BY <1>1 DEF GuiFrames
<1>3. TxPacket' = Buff /\ UNCHANGED <<LastSentCommand, Buff>>
  BY <1>0, <1>2 DEF Frame, Overlap
<1>4. UNCHANGED <<TxState, RetryCount, MaxRetry, retryDue, reg, worker, flash,
                  device, faults, toDevice, toHost, ExitThread, BtlThread,
                  commandVars, posted, NoResponseFromDevice,
                  LastSentCommand>>
  BY <1>2, <1>3 DEF retryVars, rxVars, hexVars, threadVars, linkVars,
     deviceVars, commandVars
<1>a. guiCmd \in Answered
  BY <1>0
<1>5. PICK cmd \in Answered : cmd = guiCmd
  BY <1>a, Zenon
<1>6. Command(cmd)'
  <2>1. Command(cmd) /\ flash \subseteq flash'
    BY <1>4, <1>5 DEF GuiFraming
  <2>2. worker' \in {"loop", "decrement", "store", "receive", "arm", "frame"}
    BY <1>0, <1>4
  <2>3. UNCHANGED commandVars
    BY <1>4
  <2> QED
    BY <2>1, <2>2, <2>3, CommandStays
<1>7. Buff'.cmd = cmd /\ LastSentCommand' = cmd /\ NoResponseFromDevice' = FALSE
  BY <1>6 DEF Command
<1>8. CASE device = "app"
  <2>1. posted' = << >> /\ todo' = << >> /\ BtlThread' /\ connects' = 1
    BY <1>6 DEF Command, Running
  <2>2. \A i \in DOMAIN posted' : posted'[i].kind = "failure"
    BY <2>1
  <2>3. toHost' = << >> /\ device' = "app" /\ LastSentCommand' \in Answered
    BY <1>0, <1>4, <1>7, <1>8
  <2>4. worker' \in {"loop", "decrement", "store", "receive"}
    BY <1>0, <1>4
  <2>5. gui' = "idle" /\ ~NoResponseFromDevice'
    BY <1>2, <1>7
  <2>6. Away'
    BY <2>1, <2>2, <2>3, <2>4, <2>5 DEF Away
  <2> QED
    BY <1>4, <2>6
<1>9. CASE device = "boot"
  <2>1. Command(Buff.cmd)'
    BY <1>6, <1>7 DEF Command
  <2>2. /\ ResetHexFilePtr' = TRUE /\ MaxRetry' = Retries[Buff'.cmd]
        /\ CutNotSent \/ CutSent
    BY <1>4, <1>5, <1>7 DEF GuiFraming, commandVars
  <2>3. faults <= MaxFaults
    BY DEF TypeOK
  <2>4. LinkBad'
    BY <1>0, <1>4 DEF LinkBad, LinkEmpty, OnTheWay
  <2>5. RetryCount' <= MaxRetry' /\ (worker' = "store" => reg' = RetryCount')
    BY <1>0, <1>4, <2>2 DEF CutNotSent, CutSent
  <2>6. TriesLeft' >= MaxFaults - faults' + 2
    BY <1>0, <1>4, <2>2, <2>3 DEF CutNotSent, CutSent, TriesLeft
  <2>7. /\ \/ LinkEmpty'
           \/ worker' \in {"decrement", "store"}
           \/ TxState' = "RE_TRY" /\ ~retryDue'
        /\ worker' \in {"decrement", "store"} => TxState' = "FIRST_TRY" \/ retryDue'
    BY <1>0, <1>4, <2>2 DEF CutNotSent, CutSent, LinkEmpty
  <2> QED
    BY <1>0, <1>2, <1>3, <1>4, <1>9, <2>1, <2>2, <2>4, <2>5, <2>6, <2>7
       DEF Underway, Pace, Budget
<1> QED
  BY <1>0, <1>4, <1>8, <1>9

LEMMA GuiFramingStep ==
    ASSUME SoundLink, TypeOK, Always, GuiFraming, PatientNext
    PROVE  Always' /\ (GuiFraming' \/ Underway' \/ Away')
<1>1. ~User /\ ~Gui
  BY GuiBusyWaits DEF GuiFraming
<1>2. UNCHANGED dialogVars /\ (Worker \/ GuiContinues \/ Environment)
  BY <1>1 DEF PatientNext, DialogNext
<1>3. /\ GuiFraming' \/ Underway' \/ Away'
      /\ UNCHANGED <<ExitThread, device>>
  BY <1>2, GuiFramingWorker, GuiFramingEnvironment, GuiFramingGui
     DEF framingVars, commandVars
<1> QED
  BY <1>2, <1>3, AlwaysStays DEF dialogVars
-----------------------------------------------------------------------------
(***************************************************************************)
(* The command is on its way.                                              *)
(***************************************************************************)
underwayVars == <<commandVars, gui, TxPacket, MaxRetry, device>>

LEMMA UnderwayStays ==
    ASSUME Underway, UNCHANGED underwayVars, Pace', Budget',
           Buff.cmd = "PROGRAM_FLASH" => flash \subseteq flash'
    PROVE  Underway'
<1>1. UNCHANGED <<commandVars, gui, TxPacket, MaxRetry, device, Buff,
                  ResetHexFilePtr>>
  BY DEF underwayVars, commandVars
<1>2. Buff.cmd \in Answered
  BY DEF Underway, Command
<1>3. PICK cmd \in Answered : cmd = Buff.cmd
  BY <1>2, Zenon
<1>4. Command(cmd)'
  <2>1. Command(cmd)
    BY <1>3 DEF Underway
  <2>2. worker' \in {"loop", "decrement", "store", "receive", "arm", "frame"}
    BY DEF Pace
  <2> QED
    BY <1>1, <1>3, <2>1, <2>2, CommandStays
<1>5. Command(Buff.cmd)'
  BY <1>1, <1>3, <1>4 DEF Command
<1> QED
  BY <1>1, <1>5 DEF Underway

LEMMA UnderwayFacts ==
    ASSUME SoundLink, TypeOK, Underway
    PROVE  /\ MaxFaults \in Nat /\ faults \in Nat /\ faults <= MaxFaults
           /\ RetryCount \in Nat /\ RetryCount >= 1 /\ RetryCount <= 65535
           /\ MaxRetry \in Nat /\ reg \in Nat
           /\ portOpen /\ NoResponseFromDevice = FALSE /\ posted = << >>
           /\ TxPacket = Buff /\ Buff.cmd \in Answered
           /\ TxPacket # Cut /\ TxPacket.cmd # NoCommand
           /\ Expected.cmd = Buff.cmd /\ Noise.cmd = NoCommand
           /\ toDevice \in {<< >>, <<Cut>>, <<TxPacket>>}
           /\ toDevice = << >> \/ toHost = << >>
           /\ toHost \in {<< >>, <<Noise>>, <<Expected>>}
<1>1. Buff.cmd \in Answered /\ Command(Buff.cmd) /\ TxPacket = Buff
  BY DEF Underway, Command
<1>2. /\ MaxFaults \in Nat /\ faults \in Nat /\ faults <= MaxFaults
      /\ RetryCount \in Nat /\ MaxRetry \in Nat /\ reg \in Nat
      /\ Retries[Buff.cmd] <= 65535 /\ Retries[Buff.cmd] \in Nat
  BY <1>1, ThreeTries
<1>3. MaxRetry = Retries[Buff.cmd] /\ RetryCount <= MaxRetry
      /\ TriesLeft >= MaxFaults - faults + 1
  BY <1>2 DEF Underway, Budget, TriesLeft
<1>4. RetryCount >= 1 /\ RetryCount <= 65535
  BY <1>2, <1>3 DEF TriesLeft
<1>5. portOpen /\ NoResponseFromDevice = FALSE /\ posted = << >>
  BY <1>1 DEF Command, Running
<1>6. /\ TxPacket.cmd # NoCommand /\ TxPacket # Cut
      /\ Expected.cmd = Buff.cmd /\ Noise.cmd = NoCommand
  BY <1>1 DEF Answered, NoCommand, Cut, Noise, Expected
<1>7. /\ toDevice \in {<< >>, <<Cut>>, <<TxPacket>>}
      /\ toDevice = << >> \/ toHost = << >>
      /\ toHost \in {<< >>, <<Noise>>, <<Expected>>}
  BY DEF Underway, Budget, LinkGood, LinkBad, LinkEmpty, OnTheWay,
     OnTheWayBack
<1> QED
  BY <1>1, <1>2, <1>4, <1>5, <1>6, <1>7

\* The steps of the worker that send, wait and count.
LEMMA UnderwayTries ==
    ASSUME SoundLink, TypeOK, Underway, UNCHANGED dialogVars,
           Transmit \/ TransmitNothing \/ LoadRetryCount \/ StoreRetryCount
    PROVE  Underway' /\ UNCHANGED <<underwayVars, flash>>
<1>0. Pace /\ Budget
  BY DEF Underway
<1>1. UNCHANGED <<underwayVars, flash, faults, HexFile, toHost>>
  BY DEF Transmit, TransmitNothing, LoadRetryCount, StoreRetryCount,
     underwayVars, commandVars, retryVars, packetVars, rxVars, hexVars,
     threadVars, guiVars, linkVars, deviceVars
<1>2. UNCHANGED <<TxPacket, MaxRetry>> /\ Expected' = Expected
  BY <1>1 DEF underwayVars, Expected
<1>3. CASE Transmit
  <2>1. /\ worker = "loop" /\ worker' = "decrement"
        /\ TxState = "FIRST_TRY" \/ retryDue
        /\ UNCHANGED <<TxState, RetryCount, retryDue>>
    BY <1>3 DEF Transmit, MayTransmit, retryVars
  <2>2. LinkEmpty
    BY <1>0, <2>1 DEF Pace
  <2>3. LinkBad /\ RetryCount >= MaxFaults - faults + 2
    BY <1>0, <2>1, <2>2 DEF Budget, LinkGood, LinkEmpty, OnTheWay,
       OnTheWayBack, TriesLeft
  <2>4. toDevice' = <<TxPacket>>
    BY <1>3, <2>2, OneElement, UnderwayFacts, LinkBoundAssumption
       DEF Transmit, WritePort, LinkEmpty
  <2>5. LinkGood'
    BY <1>1, <1>2, <2>2, <2>4 DEF LinkGood, LinkEmpty, OnTheWay
  <2>6. Pace'
    BY <2>1 DEF Pace
  <2>7. Budget'
    BY <1>0, <1>1, <1>2, <2>1, <2>3, <2>5, UnderwayFacts DEF Budget, TriesLeft
  <2> QED
    BY <1>1, <2>6, <2>7, UnderwayStays
<1>4. CASE TransmitNothing
  <2>1. /\ worker = "loop" /\ worker' = "receive"
        /\ UNCHANGED <<TxState, RetryCount, retryDue, toDevice>>
    BY <1>4 DEF TransmitNothing, retryVars, linkVars
  <2>2. (LinkGood <=> LinkGood') /\ (LinkBad <=> LinkBad')
    BY <1>1, <1>2, <2>1 DEF LinkGood, LinkBad, LinkEmpty, OnTheWay,
       OnTheWayBack
  <2>3. Pace'
    BY <1>0, <1>1, <2>1 DEF Pace, LinkEmpty
  <2>4. Budget'
    BY <1>0, <1>1, <1>2, <2>1, <2>2 DEF Budget, TriesLeft
  <2> QED
    BY <1>1, <2>3, <2>4, UnderwayStays
<1>5. CASE LoadRetryCount
  <2>1. /\ worker = "decrement" /\ worker' = "store" /\ reg' = RetryCount
        /\ UNCHANGED <<TxState, RetryCount, retryDue, toDevice>>
    BY <1>5 DEF LoadRetryCount, linkVars
  <2>2. (LinkGood <=> LinkGood') /\ (LinkBad <=> LinkBad')
    BY <1>1, <1>2, <2>1 DEF LinkGood, LinkBad, LinkEmpty, OnTheWay,
       OnTheWayBack
  <2>3. Pace'
    BY <1>0, <1>1, <2>1 DEF Pace
  <2>4. Budget'
    BY <1>0, <1>1, <1>2, <2>1, <2>2 DEF Budget, TriesLeft
  <2> QED
    BY <1>1, <2>3, <2>4, UnderwayStays
<1>6. CASE StoreRetryCount
  <2>1. /\ worker = "store" /\ worker' = "receive" /\ TxState' = "RE_TRY"
        /\ RetryCount' = (reg - 1) % 65536 /\ retryDue' = FALSE
        /\ UNCHANGED toDevice
    BY <1>6 DEF StoreRetryCount, linkVars
  <2>2. (LinkGood <=> LinkGood') /\ (LinkBad <=> LinkBad')
    BY <1>1, <1>2, <2>1 DEF LinkGood, LinkBad, LinkEmpty, OnTheWay,
       OnTheWayBack
  <2>3. reg = RetryCount
    BY <1>0, <2>1 DEF Pace
  <2>4. RetryCount' = RetryCount - 1
    BY <2>1, <2>3, UnderwayFacts
  <2>5. Pace'
    BY <2>1 DEF Pace
  <2>6. Budget'
    BY <1>0, <1>1, <1>2, <2>1, <2>2, <2>4, UnderwayFacts DEF Budget, TriesLeft
  <2> QED
    BY <1>1, <2>5, <2>6, UnderwayStays
<1> QED
  BY <1>3, <1>4, <1>5, <1>6

\* Noise is skipped and the next try waited for.
LEMMA UnderwayNoise ==
    ASSUME SoundLink, TypeOK, Underway, UNCHANGED dialogVars, ReceiveNothing
    PROVE  Underway' /\ UNCHANGED <<underwayVars, flash>>
<1>0. Pace /\ Budget
  BY DEF Underway
<1>a. NoResponseFromDevice = FALSE /\ portOpen
  BY UnderwayFacts
<1>1. /\ worker = "receive" /\ worker' = "loop"
      /\ UNCHANGED <<posted, NoResponseFromDevice>>
      /\ UNCHANGED <<retryVars, packetVars, hexVars, threadVars, guiVars,
                     portOpen, toDevice, deviceVars>>
  BY <1>a, QuietReceive, Zenon
<1>2. /\ UNCHANGED <<underwayVars, flash, faults, HexFile, toDevice>>
      /\ UNCHANGED <<TxState, RetryCount, retryDue, reg>>
  BY <1>1 DEF underwayVars, commandVars, retryVars, packetVars, hexVars,
     threadVars, guiVars, deviceVars
<1>3. UNCHANGED <<TxPacket, MaxRetry>> /\ Expected' = Expected
  BY <1>2 DEF underwayVars, Expected
<1>4. toHost' = << >> /\ toHost \in {<< >>, <<Noise>>}
  BY <1>a, ReceiveNothingFacts, UnderwayFacts DEF Answered, NoCommand
<1>5. (LinkGood => LinkGood') /\ (LinkBad => LinkBad')
  <2>1. Expected # Noise
    BY UnderwayFacts DEF Answered, NoCommand
  <2> QED
    BY <1>2, <1>3, <1>4, <2>1 DEF LinkGood, LinkBad, LinkEmpty, OnTheWay,
       OnTheWayBack
<1>6. Pace'
  BY <1>0, <1>1, <1>2, <1>4 DEF Pace, LinkEmpty
<1>7. Budget'
  BY <1>0, <1>1, <1>2, <1>3, <1>5 DEF Budget, TriesLeft
<1> QED
  BY <1>2, <1>6, <1>7, UnderwayStays

\* The answer is the one to the command, and what it says of the flash is so.
LEMMA UnderwayAnswered ==
    ASSUME SoundLink, TypeOK, Underway, ReceiveFrame
    PROVE  /\ RxData' = Expected
           /\ toDevice = << >> /\ toHost' = << >>
           /\ TxState' = "FIRST_TRY" /\ RetryCount' = 0
           /\ NoResponseFromDevice' = FALSE
           /\ worker = "receive"
           /\ Buff.cmd = "PROGRAM_FLASH" => Buff.arg \in flash
           /\ Buff.cmd = "ERASE_FLASH" => flash = {}
<1>1. toHost = <<Expected>> /\ RxData' = Expected /\ toHost' = << >>
  BY ReceiveFrameFacts, UnderwayFacts
<1>2. toHost # << >> /\ toHost # <<Noise>>
  BY <1>1, UnderwayFacts, OneElement DEF Answered, NoCommand
<1>3. LinkGood /\ ~OnTheWay(TxPacket)
  BY <1>2 DEF Underway, Budget, LinkBad, LinkEmpty, OnTheWay, OnTheWayBack
<1> QED
  BY <1>1, <1>3, UnderwayFacts
     DEF LinkGood, OnTheWayBack, ReceiveFrame, StopTxRetries

LEMMA UnderwayResponse ==
    ASSUME SoundLink, TypeOK, Always, Underway, UNCHANGED dialogVars,
           ReceiveResponse
    PROVE  Told' /\ UNCHANGED <<ExitThread, device, flash, HexFile,
                                LastSentCommand, BtlThread>>
<1>0. /\ RxData' = Expected
      /\ toDevice = << >> /\ toHost' = << >>
      /\ TxState' = "FIRST_TRY" /\ RetryCount' = 0
      /\ NoResponseFromDevice' = FALSE
      /\ Buff.cmd = "ERASE_FLASH" => flash = {}
  BY UnderwayAnswered DEF ReceiveResponse
<1>1. /\ RxData'.cmd \in Answered \ {"PROGRAM_FLASH"}
      /\ Post("response", RxData'.cmd) /\ worker' = "loop"
      /\ UNCHANGED <<packetVars, hexVars, threadVars, guiVars, portOpen,
                     toDevice, deviceVars>>
  BY DEF ReceiveResponse
<1>2. /\ Buff.cmd \in Answered /\ Command(Buff.cmd) /\ TxPacket = Buff
      /\ gui = "idle" /\ device = "boot" /\ ResetHexFilePtr = TRUE
      /\ Expected.cmd = Buff.cmd /\ posted = << >>
  BY UnderwayFacts DEF Underway
<1>3. PICK cmd \in Answered : cmd = Buff.cmd
  BY <1>2
<1>4. posted' = <<[kind |-> "response", cmd |-> cmd]>>
  BY <1>0, <1>1, <1>2, <1>3, OneElement DEF Post
<1>5. /\ LastSentCommand' = cmd /\ Restorable(cmd)
      /\ cmd = "READ_CRC" => HexFile # NoFile
      /\ Running /\ todo = << >> /\ HandsOff
  BY <1>1, <1>2, <1>3 DEF Command, packetVars
<1>6. cmd = "READ_CRC" => Expected.data = flash \cap 1..HexFile
  BY <1>2, <1>3 DEF Expected
<1>7. cmd # "PROGRAM_FLASH" /\ RxData'.cmd = cmd
  BY <1>0, <1>1, <1>2, <1>3
<1>8. UNCHANGED <<gui, device, flash, HexFile, ResetHexFilePtr, BtlThread,
                  portOpen, toDevice, ExitThread, LastSentCommand, todo,
                  enabled, EraseProgVer, saved, ConnectionEstablished,
                  connects>>
  BY <1>1 DEF packetVars, hexVars, threadVars, guiVars, deviceVars, dialogVars
<1>9. Notified(cmd)'
  BY <1>0, <1>3, <1>4, <1>5, <1>6, <1>7, <1>8 DEF Notified, Restorable
<1>10. Calm' /\ Polling'
  BY <1>0, <1>1, <1>2, <1>5, <1>8 DEF Calm, LinkEmpty, Polling, Running
<1> QED
  BY <1>2, <1>3, <1>5, <1>8, <1>9, <1>10 DEF Told, HandsOff

\* The packet is in the flash: there is a next one, or the file is.
LEMMA UnderwayProgramNext ==
    ASSUME SoundLink, TypeOK, Always, Underway, UNCHANGED dialogVars,
           ReceiveProgramNext
    PROVE  WorkerSending' /\ UNCHANGED <<ExitThread, device, flash, HexFile,
                                         LastSentCommand, BtlThread>>
<1>0. /\ RxData' = Expected
      /\ toDevice = << >> /\ toHost' = << >>
      /\ TxState' = "FIRST_TRY" /\ RetryCount' = 0
      /\ NoResponseFromDevice' = FALSE
      /\ Buff.cmd = "PROGRAM_FLASH" => Buff.arg \in flash
  BY UnderwayAnswered DEF ReceiveProgramNext
<1>1. /\ RxData'.cmd = "PROGRAM_FLASH" /\ ~(HexPos >= HexFile)
      /\ Enter("PROGRAM_FLASH", HexPos + 1)
      /\ HexPos' = HexPos + 1 /\ reg' = MaxRetry /\ worker' = "arm"
      /\ UNCHANGED <<MaxRetry, posted, HexFile, threadVars, guiVars, portOpen,
                     toDevice, deviceVars>>
  BY DEF ReceiveProgramNext, NoMoreRecords
<1>2. Buff.cmd = "PROGRAM_FLASH"
  BY <1>0, <1>1, UnderwayFacts
<1>3. /\ Command("PROGRAM_FLASH") /\ gui = "idle" /\ device = "boot"
      /\ MaxRetry = Retries["PROGRAM_FLASH"]
  BY <1>2 DEF Underway
<1>4. /\ Buff.arg = HexPos /\ HexPos \in 1..HexFile
      /\ 1..(HexPos - 1) \subseteq flash /\ LastSentCommand = "PROGRAM_FLASH"
  BY <1>3 DEF Command
<1>5. HexPos \in Nat /\ HexFile \in Int
  BY DEF TypeOK, NoFile
<1>6. 1..((HexPos + 1) - 1) \subseteq flash /\ HexPos + 1 \in 1..HexFile
  BY <1>0, <1>1, <1>2, <1>4, <1>5
<1>7. /\ Buff'.cmd = "PROGRAM_FLASH" /\ Buff'.arg = HexPos + 1
      /\ LastSentCommand' = "PROGRAM_FLASH"
  BY <1>1 DEF Enter
<1>8. UNCHANGED <<gui, device, flash, HexFile, BtlThread, portOpen, toDevice,
                  ExitThread, LastSentCommand, todo, enabled, EraseProgVer,
                  saved, ConnectionEstablished, connects, posted>>
  BY <1>1, <1>4, <1>7 DEF threadVars, guiVars, deviceVars, dialogVars
<1>9. Command("PROGRAM_FLASH")'
  BY <1>0, <1>1, <1>3, <1>6, <1>7, <1>8
     DEF Command, HandsOff, Running, Restorable
<1> QED
  BY <1>0, <1>1, <1>3, <1>8, <1>9 DEF WorkerSending, LinkEmpty

LEMMA UnderwayProgramDone ==
    ASSUME SoundLink, TypeOK, Always, Underway, UNCHANGED dialogVars,
           ReceiveProgramDone
    PROVE  Told' /\ UNCHANGED <<ExitThread, device, flash, HexFile,
                                LastSentCommand, BtlThread>>
<1>0. /\ RxData' = Expected
      /\ toDevice = << >> /\ toHost' = << >>
      /\ TxState' = "FIRST_TRY" /\ RetryCount' = 0
      /\ NoResponseFromDevice' = FALSE
      /\ Buff.cmd = "PROGRAM_FLASH" => Buff.arg \in flash
  BY UnderwayAnswered DEF ReceiveProgramDone
<1>1. /\ RxData'.cmd = "PROGRAM_FLASH" /\ HexPos >= HexFile
      /\ EnterNoRecord /\ ResetHexFilePtr' = TRUE
      /\ Post("response", "PROGRAM_FLASH") /\ worker' = "loop"
      /\ UNCHANGED <<HexFile, HexPos, threadVars, guiVars, portOpen, toDevice,
                     deviceVars>>
  BY DEF ReceiveProgramDone, NoMoreRecords
<1>2. Buff.cmd = "PROGRAM_FLASH" /\ posted = << >>
  BY <1>0, <1>1, UnderwayFacts
<1>3. Command("PROGRAM_FLASH") /\ gui = "idle" /\ device = "boot"
  BY <1>2 DEF Underway
<1>4. /\ Buff.arg = HexPos /\ HexPos \in 1..HexFile
      /\ 1..(HexPos - 1) \subseteq flash /\ LastSentCommand = "PROGRAM_FLASH"
      /\ Restorable("PROGRAM_FLASH") /\ Running /\ todo = << >> /\ HandsOff
  BY <1>3 DEF Command
<1>5. HexPos \in Nat /\ HexFile \in Int
  BY DEF TypeOK, NoFile
<1>6. 1..HexFile \subseteq flash
  BY <1>0, <1>1, <1>2, <1>4, <1>5
<1>7. posted' = <<[kind |-> "response", cmd |-> "PROGRAM_FLASH"]>>
  BY <1>1, <1>2, OneElement DEF Post
<1>8. UNCHANGED <<gui, device, flash, HexFile, BtlThread, portOpen, toDevice,
                  ExitThread, LastSentCommand, todo, enabled, EraseProgVer,
                  saved, ConnectionEstablished, connects>>
  BY <1>1, <1>4 DEF EnterNoRecord, threadVars, guiVars, deviceVars, dialogVars
<1>9. Notified("PROGRAM_FLASH")'
  BY <1>1, <1>4, <1>6, <1>7, <1>8 DEF Notified, Restorable
<1>10. Calm' /\ Polling'
  BY <1>0, <1>1, <1>4, <1>8 DEF Calm, LinkEmpty, Polling, Running
<1> QED
  BY <1>3, <1>4, <1>8, <1>9, <1>10 DEF Told, HandsOff, Answered

\* The device does what the packet says, and answers.
LEMMA UnderwayDevice ==
    ASSUME SoundLink, TypeOK, Underway, UNCHANGED dialogVars, DeviceStep
    PROVE  /\ Underway' /\ UNCHANGED underwayVars
           /\ \/ UNCHANGED flash
              \/ Buff.cmd = "ERASE_FLASH" /\ flash' = {}
              \/ Buff.cmd = "PROGRAM_FLASH" /\ flash' = flash \cup {Buff.arg}
<1>0. Pace /\ Budget /\ device = "boot" /\ Command(Buff.cmd)
  BY DEF Underway
<1>1. /\ UNCHANGED programVars /\ UNCHANGED faults
      /\ toDevice # << >> /\ toDevice' = Tail(toDevice)
  BY DEF DeviceStep
<1>2. toHost = << >> /\ toDevice \in {<<Cut>>, <<TxPacket>>} /\ toDevice' = << >>
  BY <1>1, UnderwayFacts, OneElement
<1>3. UNCHANGED <<TxState, RetryCount, MaxRetry, retryDue, reg, worker, Buff,
                  TxPacket, HexFile, commandVars, gui>>
  BY <1>1 DEF programVars, commandVars, retryVars, packetVars, rxVars, hexVars,
     threadVars, guiVars
<1>4. Pace'
  BY <1>0, <1>2, <1>3 DEF Pace, LinkEmpty
<1>5. CASE toDevice = <<Cut>>
  <2>1. UNCHANGED <<flash, device, toHost>>
    BY <1>5, OneElement DEF DeviceStep
  <2>2. LinkEmpty'
    BY <1>2, <2>1 DEF LinkEmpty
  <2>3. ~LinkGood
    BY <1>5, UnderwayFacts, OneElement DEF LinkGood, OnTheWay, OnTheWayBack
  <2>4. Budget'
    BY <1>0, <1>1, <1>3, <2>2, <2>3 DEF Budget, TriesLeft, LinkBad
  <2>5. UNCHANGED underwayVars
    BY <1>3, <2>1 DEF underwayVars
  <2> QED
    BY <1>4, <2>1, <2>4, <2>5, UnderwayStays
<1>6. CASE toDevice = <<TxPacket>>
  <2> DEFINE p == TxPacket
  <2>1. /\ Head(toDevice) = p /\ p # Cut /\ p = Buff /\ Buff.cmd \in Answered
        /\ portOpen /\ Len(toHost) < LinkBound
    BY <1>2, <1>6, UnderwayFacts, OneElement, LinkBoundAssumption
  <2>2. /\ flash' = Flashed(p)
        /\ device' = device
        /\ toHost' = Append(toHost, Answer(p, Flashed(p)))
    BY <1>0, <2>1 DEF DeviceStep, Answered
  <2>3. toHost' = <<Answer(p, flash')>>
    BY <1>2, <2>2, OneElement
  <2>4. Buff.cmd = "READ_CRC" => Buff.arg = HexFile
    BY <1>0 DEF Command
  <2>5. Answer(p, flash') = Expected'
    BY <1>3, <2>1, <2>4 DEF Answer, Expected
  <2>6. /\ Buff.cmd = "ERASE_FLASH" => flash' = {}
        /\ Buff.cmd = "PROGRAM_FLASH" => flash' = flash \cup {Buff.arg}
        /\ Buff.cmd \notin {"ERASE_FLASH", "PROGRAM_FLASH"} => flash' = flash
    BY <2>1, <2>2 DEF Flashed
  <2>7. LinkGood'
    BY <1>2, <1>3, <2>1, <2>3, <2>5, <2>6 DEF LinkGood, OnTheWayBack
  <2>8. Budget'
    BY <1>0, <1>1, <1>3, <2>7, UnderwayFacts DEF Budget, TriesLeft
  <2>9. UNCHANGED underwayVars
    BY <1>3, <2>2 DEF underwayVars
  <2>10. Buff.cmd = "PROGRAM_FLASH" => flash \subseteq flash'
    BY <2>6
  <2>11. Underway'
    BY <1>4, <2>8, <2>9, <2>10, UnderwayStays
  <2> QED
    BY <2>6, <2>9, <2>11
<1> QED
  BY <1>2, <1>5, <1>6

\* A fault costs a try, and there is one for it.
LEMMA UnderwayFault ==
    ASSUME SoundLink, TypeOK, Underway, UNCHANGED dialogVars,
           LosePacket \/ LoseReply \/ CorruptReply
    PROVE  Underway' /\ UNCHANGED <<underwayVars, flash>>
<1>0. Pace /\ Budget
  BY DEF Underway
<1>1. /\ UNCHANGED programVars /\ UNCHANGED <<flash, device>>
      /\ faults < MaxFaults /\ faults' = faults + 1
  BY DEF LosePacket, LoseReply, CorruptReply, Fault
<1>2. UNCHANGED <<TxState, RetryCount, MaxRetry, retryDue, reg, worker,
                  TxPacket, HexFile, commandVars, gui>>
  BY <1>1 DEF programVars, commandVars, retryVars, packetVars, rxVars, hexVars,
     threadVars, guiVars
<1>3. /\ toDevice \in {<< >>, <<Cut>>, <<TxPacket>>}
      /\ toDevice = << >> \/ toHost = << >>
      /\ toHost \in {<< >>, <<Noise>>, <<Expected>>}
  BY UnderwayFacts
<1>4. ~LinkEmpty /\ toDevice' = << >> /\ toHost' \in {<< >>, <<Noise>>}
  <2>1. ASSUME LosePacket
        PROVE  ~LinkEmpty /\ toDevice' = << >> /\ toHost' = << >>
    BY <1>3, <2>1, OneElement DEF LosePacket, LinkEmpty
  <2>2. ASSUME LoseReply
        PROVE  ~LinkEmpty /\ toDevice' = << >> /\ toHost' = << >>
    BY <1>3, <2>2, OneElement DEF LoseReply, LinkEmpty
  <2>3. ASSUME CorruptReply
        PROVE  ~LinkEmpty /\ toDevice' = << >> /\ toHost' = <<Noise>>
    BY <1>3, <2>3, OneElement DEF CorruptReply, LinkEmpty
  <2> QED
    BY <2>1, <2>2, <2>3
<1>5. LinkBad'
  BY <1>4 DEF LinkBad, LinkEmpty, OnTheWayBack
<1>6. Pace'
  BY <1>0, <1>2, <1>4 DEF Pace
<1>7. Budget'
  BY <1>0, <1>1, <1>2, <1>5, UnderwayFacts DEF Budget, TriesLeft
<1>8. UNCHANGED underwayVars
  BY <1>1, <1>2 DEF underwayVars
<1> QED
  BY <1>1, <1>6, <1>7, <1>8, UnderwayStays

\* The retry falls due on a quiet link.
LEMMA UnderwayDelay ==
    ASSUME SoundLink, TypeOK, Underway, UNCHANGED dialogVars, DelayElapses
    PROVE  Underway' /\ UNCHANGED <<underwayVars, flash>>
<1>0. Pace /\ Budget
  BY DEF Underway
<1>1. /\ LinkEmpty /\ retryDue' = TRUE
      /\ UNCHANGED <<TxState, RetryCount, MaxRetry, reg, packetVars, rxVars,
                     hexVars, threadVars, guiVars, worker, portOpen, linkVars,
                     deviceVars>>
  BY DEF DelayElapses, SoundLink, LinkEmpty
<1>2. UNCHANGED <<TxState, RetryCount, MaxRetry, reg, worker, toDevice, toHost,
                  TxPacket, HexFile, faults, flash, underwayVars>>
  BY <1>1 DEF underwayVars, commandVars, packetVars, rxVars, hexVars,
     threadVars, guiVars, linkVars, deviceVars
<1>3. Expected' = Expected
  BY <1>2 DEF Expected
<1>4. Pace'
  BY <1>0, <1>1, <1>2 DEF Pace, LinkEmpty
<1>5. Budget'
  BY <1>0, <1>2, <1>3 DEF Budget, TriesLeft, LinkGood, LinkBad, LinkEmpty,
     OnTheWay, OnTheWayBack
<1> QED
  BY <1>2, <1>4, <1>5, UnderwayStays

LEMMA UnderwayWorker ==
    ASSUME SoundLink, TypeOK, Always, Underway, UNCHANGED dialogVars, Worker
    PROVE  /\ Underway' \/ Told' \/ WorkerSending'
           /\ UNCHANGED <<HexFile, LastSentCommand, BtlThread, ExitThread,
                          device, flash>>
<1> DEFINE Stays == UNCHANGED <<HexFile, LastSentCommand, BtlThread, ExitThread,
                                device, flash>>
           Goal == (Underway' \/ Told' \/ WorkerSending') /\ Stays
<1>1. UNCHANGED <<underwayVars, flash>> => Stays
  BY DEF underwayVars, commandVars
<1> HIDE DEF Stays
<1>2. CASE Transmit \/ TransmitNothing \/ LoadRetryCount \/ StoreRetryCount
  <2>1. Underway' /\ UNCHANGED <<underwayVars, flash>>
    BY <1>2, UnderwayTries, Zenon
  <2> QED
    BY <1>1, <2>1 DEF Stays
<1>3. CASE ReceiveNothing
  <2>1. Underway' /\ UNCHANGED <<underwayVars, flash>>
    BY <1>3, UnderwayNoise, Zenon
  <2> QED
    BY <1>1, <2>1 DEF Stays
<1>4. CASE ReceiveResponse
  BY <1>4, UnderwayResponse
<1>5. CASE ReceiveProgramNext
  BY <1>5, UnderwayProgramNext
<1>6. CASE ReceiveProgramDone
  BY <1>6, UnderwayProgramDone
<1>7. ~WorkerExits /\ ~RetriesExceeded /\ ~WorkerArms /\ ~WorkerFrames
  <2>1. ExitThread = FALSE /\ worker \in {"loop", "receive", "decrement", "store"}
    BY DEF Always, Underway, Pace
  <2>2. RetryCount # 0
    BY UnderwayFacts
  <2> QED
    BY <2>1, <2>2 DEF WorkerExits, RetriesExceeded, WorkerArms, WorkerFrames
<1>8. ~ReceiveProgramCrash
  <2>1. ASSUME ReceiveProgramCrash PROVE FALSE
    <3>1. ReceiveFrame /\ RxData'.cmd = "PROGRAM_FLASH" /\ HexFile = NoFile
      BY <2>1 DEF ReceiveProgramCrash
    <3>2. RxData' = Expected
      BY <3>1, UnderwayAnswered, Zenon
    <3>3. Buff.cmd = "PROGRAM_FLASH"
      BY <3>1, <3>2, UnderwayFacts
    <3>4. HexPos \in 1..HexFile
      BY <3>3 DEF Underway, Command
    <3> QED
      BY <3>1, <3>4 DEF NoFile
  <2> QED
    BY <2>1
<1> QED
  BY <1>2, <1>3, <1>4, <1>5, <1>6, <1>7, <1>8 DEF Worker

LEMMA UnderwayEnvironment ==
    ASSUME SoundLink, TypeOK, Underway, UNCHANGED dialogVars, Environment
    PROVE  /\ Underway' /\ UNCHANGED underwayVars
           /\ \/ UNCHANGED flash
              \/ Buff.cmd = "ERASE_FLASH" /\ flash' = {}
              \/ Buff.cmd = "PROGRAM_FLASH" /\ flash' = flash \cup {Buff.arg}
<1>1. ~DeviceReset
  BY DEF DeviceReset, Fault, SoundLink
<1>2. CASE DeviceStep
  BY <1>2, UnderwayDevice, Zenon
<1>3. CASE LosePacket \/ LoseReply \/ CorruptReply
  <2>1. Underway' /\ UNCHANGED <<underwayVars, flash>>
    BY <1>3, UnderwayFault, Zenon
  <2> QED
    BY <2>1
<1>4. CASE DelayElapses
  <2>1. Underway' /\ UNCHANGED <<underwayVars, flash>>
    BY <1>4, UnderwayDelay, Zenon
  <2> QED
    BY <2>1
<1> QED
  BY <1>1, <1>2, <1>3, <1>4 DEF Environment

LEMMA UnderwayStep ==
    ASSUME OneConnection, SoundLink, TypeOK, DialogTypes, Always, Underway,
           PatientNext
    PROVE  /\ Always' /\ (Underway' \/ Told' \/ WorkerSending')
           /\ UNCHANGED <<HexFile, LastSentCommand, BtlThread, dialogVars>>
           /\ \/ UNCHANGED flash
              \/ Buff.cmd = "ERASE_FLASH" /\ flash' = {}
              \/ Buff.cmd = "PROGRAM_FLASH" /\ flash' = flash \cup {Buff.arg}
<1> DEFINE Written ==
             \/ UNCHANGED flash
             \/ Buff.cmd = "ERASE_FLASH" /\ flash' = {}
             \/ Buff.cmd = "PROGRAM_FLASH" /\ flash' = flash \cup {Buff.arg}
<1>a. gui = "idle" /\ todo = << >> /\ posted = << >> /\ HandsOff /\ connects = 1
  BY DEF Underway, Command, Running
<1>0. UNCHANGED dialogVars /\ (Worker \/ Environment)
  BY <1>a, EngineAlone, Zenon
<1>1. /\ Underway' \/ Told' \/ WorkerSending'
      /\ UNCHANGED <<HexFile, LastSentCommand, BtlThread, ExitThread, device>>
      /\ Written
  <2>1. ASSUME Worker
        PROVE  /\ Underway' \/ Told' \/ WorkerSending'
               /\ UNCHANGED <<HexFile, LastSentCommand, BtlThread, ExitThread,
                              device, flash>>
    BY <1>0, <2>1, UnderwayWorker, Zenon
  <2>2. ASSUME Environment
        PROVE  Underway' /\ UNCHANGED underwayVars /\ Written
    BY <1>0, <2>2, UnderwayEnvironment, Zenon
  <2>3. UNCHANGED underwayVars
        => UNCHANGED <<HexFile, LastSentCommand, BtlThread, ExitThread, device>>
    BY DEF underwayVars, commandVars
  <2> HIDE DEF Written
  <2>4. UNCHANGED flash => Written
    BY DEF Written
  <2> QED
    BY <1>0, <2>1, <2>2, <2>3, <2>4
<1>2. Always'
  BY <1>0, <1>1, AlwaysStays DEF dialogVars
<1> QED
  BY <1>0, <1>1, <1>2

-----------------------------------------------------------------------------
(***************************************************************************)
(* The worker sends the next packet of the file.                           *)
(***************************************************************************)
LEMMA WorkerSendingEngine ==
    ASSUME SoundLink, Always, WorkerSending, Worker \/ Environment
    PROVE  (WorkerArms \/ WorkerFrames) /\ UNCHANGED crashed
<1>1. /\ worker \in {"arm", "frame"} /\ TxState = "FIRST_TRY"
      /\ toDevice = << >> /\ toHost = << >>
  BY DEF WorkerSending, LinkEmpty
<1>2. ~Environment
  BY <1>1 DEF Environment, DeviceStep, LosePacket, LoseReply, CorruptReply,
       DeviceReset, DelayElapses, Fault, SoundLink
<1> QED
  BY <1>1, <1>2
     DEF Worker, WorkerExits, Transmit, TransmitNothing, RetriesExceeded,
         LoadRetryCount, StoreRetryCount, ReceiveNothing, ReceiveFrame,
         ReceiveResponse, ReceiveProgramNext, ReceiveProgramDone,
         ReceiveProgramCrash

LEMMA WorkerSendingStep ==
    ASSUME OneConnection, SoundLink, TypeOK, DialogTypes, Always,
           WorkerSending, PatientNext
    PROVE  /\ Always' /\ (WorkerSending' \/ Underway')
           /\ UNCHANGED <<HexFile, LastSentCommand, BtlThread, flash, dialogVars>>
<1>1. /\ gui = "idle" /\ device = "boot" /\ TxState = "FIRST_TRY"
      /\ toDevice = << >> /\ toHost = << >>
      /\ MaxRetry = Retries["PROGRAM_FLASH"]
      /\ Command("PROGRAM_FLASH")
  BY DEF WorkerSending, LinkEmpty
<1>2. /\ todo = << >> /\ posted = << >> /\ HandsOff /\ connects = 1
      /\ Buff.cmd = "PROGRAM_FLASH" /\ "PROGRAM_FLASH" \in Answered
  BY <1>1 DEF Command, Running
<1>3. UNCHANGED dialogVars /\ (Worker \/ Environment)
  BY <1>1, <1>2, EngineAlone
<1>4. WorkerArms \/ WorkerFrames
  BY <1>3, WorkerSendingEngine
<1>5. CASE WorkerArms
  <2>1. /\ worker = "arm" /\ worker' = "frame"
        /\ RetryCount' = reg /\ MaxRetry' = reg
        /\ UNCHANGED <<TxState, packetVars, rxVars, hexVars, threadVars,
                       guiVars, portOpen, linkVars, deviceVars>>
    BY <1>5 DEF WorkerArms, Arm
  <2>2. reg = MaxRetry
    BY <2>1 DEF WorkerSending
  <2>3. UNCHANGED <<TxState, MaxRetry, toDevice, toHost, gui, device, flash,
                    HexFile, LastSentCommand, BtlThread, ExitThread, commandVars>>
    BY <1>3, <2>1, <2>2 DEF commandVars, packetVars, rxVars, hexVars,
       threadVars, guiVars, linkVars, deviceVars
  <2>4. Command("PROGRAM_FLASH")'
    BY <1>1, <2>1, <2>3, CommandStays
  <2>5. WorkerSending'
    BY <1>1, <2>1, <2>2, <2>3, <2>4 DEF WorkerSending, LinkEmpty
  <2> QED
    BY <1>3, <2>3, <2>5, AlwaysStays DEF dialogVars
<1>6. CASE WorkerFrames
  <2>1. /\ worker = "frame" /\ worker' = "loop" /\ TxPacket' = Buff
        /\ ResetHexFilePtr' = TRUE
        /\ UNCHANGED <<LastSentCommand, Buff, retryVars, rxVars, HexFile,
                       HexPos, threadVars, guiVars, portOpen, linkVars,
                       deviceVars>>
    BY <1>1, <1>6 DEF WorkerFrames, Frame, Overlap
  <2>2. UNCHANGED <<TxState, RetryCount, MaxRetry, toDevice, toHost, gui,
                    device, flash, faults, HexFile, LastSentCommand, BtlThread,
                    ExitThread, Buff, HexPos, portOpen, posted,
                    NoResponseFromDevice, dialogVars>>
    BY <1>3, <2>1 DEF retryVars, rxVars, threadVars, guiVars, linkVars,
       deviceVars
  <2>3. Command("PROGRAM_FLASH")'
    BY <1>1, <2>1, <2>2 DEF Command, HandsOff, Running, Restorable, dialogVars
  <2>4. RetryCount = Retries["PROGRAM_FLASH"]
    BY <1>1, <2>1 DEF WorkerSending
  <2>5. /\ MaxFaults \in Nat /\ faults \in Nat
        /\ Retries["PROGRAM_FLASH"] \in Nat
        /\ Retries["PROGRAM_FLASH"] >= MaxFaults + 3
    BY <1>2, ThreeTries
  <2>6. LinkEmpty'
    BY <1>1, <2>2 DEF LinkEmpty
  <2>7. Budget'
    BY <1>1, <2>1, <2>2, <2>4, <2>5, <2>6 DEF Budget, TriesLeft, LinkBad
  <2>8. Pace'
    BY <2>1, <2>6 DEF Pace
  <2>9. Buff' = Buff
    BY <2>2
  <2>10. Command(Buff.cmd)'
    BY <1>2, <2>3, <2>9
  <2>11. Underway'
    BY <1>1, <1>2, <2>1, <2>2, <2>7, <2>8, <2>10 DEF Underway
  <2> QED
    BY <1>3, <2>2, <2>11, AlwaysStays DEF dialogVars
<1> QED
  BY <1>4, <1>5, <1>6

-----------------------------------------------------------------------------
(***************************************************************************)
(* The GUI thread takes notice of the answer.                              *)
(***************************************************************************)
LEMMA NextCall ==
    ASSUME NEW call
    PROVE  <<call>> \o << >> = <<call>>
OBVIOUS

LEMMA ToldGui ==
    ASSUME Always, Told, Gui
    PROVE  /\ Always' /\ (Rest' \/ Planned')
           /\ UNCHANGED <<HexFile, LastSentCommand, BtlThread, flash>>
<1>1. /\ Polling /\ Calm /\ gui = "idle" /\ todo = << >> /\ device = "boot"
      /\ ExitThread = FALSE
  BY DEF Told, Always
<1>2. PICK cmd \in Answered : Notified(cmd)
  BY DEF Told
<1>3. posted = <<[kind |-> "response", cmd |-> cmd]>>
  BY <1>2 DEF Notified
<1>4. /\ Head(posted) = [kind |-> "response", cmd |-> cmd]
      /\ Tail(posted) = << >>
  BY <1>3, OneElement
<1>5. ~OnTransmitFailure
  <2>1. Head(posted).kind = "response"
    BY <1>4
  <2>2. \A c : Head(posted) # [kind |-> "failure", cmd |-> c]
    BY <2>1
  <2> QED
    BY <2>2, Zenon DEF OnTransmitFailure, TakeNotice
<1>6. OnBootInfo \/ OnErased \/ OnProgrammed \/ OnVerified
  <2>1. \A op : ~Call(op)
    BY <1>1 DEF Call
  <2>2. /\ \A c : ~CallSend(c)
        /\ ~CallShutdown /\ ~CallCreate /\ ~CallClose /\ ~CallOpen /\ ~CallLoad
    BY <2>1, Zenon DEF CallSend, CallShutdown, CallCreate, CallClose, CallOpen,
       CallLoad
  <2> QED
    BY <1>5, <2>2, Zenon DEF Gui
<1>7. Deliver /\ UNCHANGED <<saved, clicks, connects>>
  BY <1>6 DEF OnBootInfo, OnErased, OnProgrammed, OnVerified, TakeNotice
<1>8. /\ \/ todo' = << >> /\ enabled' # {} /\ ~EraseProgVer'
         \/ /\ EraseProgVer'
            /\ \E next \in {"PROGRAM_FLASH", "READ_CRC"} :
                  todo' = <<next>> /\ Restorable(next)'
      /\ EraseProgVer' \/ enabled' # {} => ConnectionEstablished'
  <2>0. ASSUME NEW c, TakeNotice("response", c), c # "READ_BOOT_INFO"
        PROVE  ConnectionEstablished /\ saved # {}
    <3>1. c = cmd
      <4>1. Head(posted) = [kind |-> "response", cmd |-> c]
        BY <2>0 DEF TakeNotice
      <4>2. Head(posted).cmd = c
        BY <4>1
      <4> QED
        BY <1>4, <4>2
    <3> QED
      BY <1>2, <2>0, <3>1 DEF Notified, Restorable
  <2>1. CASE OnBootInfo
    <3>1. cmd = "READ_BOOT_INFO"
      <4>1. Head(posted) = [kind |-> "response", cmd |-> "READ_BOOT_INFO"]
        BY <2>1 DEF OnBootInfo, TakeNotice
      <4>2. Head(posted).cmd = "READ_BOOT_INFO"
        BY <4>1
      <4> QED
        BY <1>4, <4>2
    <3>2. ~EraseProgVer
      BY <1>2, <3>1 DEF Notified, Restorable
    <3> QED
      BY <1>1, <2>1, <3>2 DEF OnBootInfo, SetButtons
  <2>2. CASE OnErased
    <3>1. ConnectionEstablished /\ saved # {}
      BY <2>0, <2>2 DEF OnErased
    <3>2. todo' = IF EraseProgVer THEN <<"PROGRAM_FLASH">> ELSE << >>
      BY <1>1, <2>2, NextCall DEF OnErased
    <3>3. UNCHANGED <<ConnectionEstablished, EraseProgVer, saved>>
      BY <1>7, <2>2 DEF OnErased
    <3>4. enabled' # {}
      BY <2>2, <3>1 DEF OnErased, SetButtons
    <3> QED
      BY <1>1, <2>2, <3>1, <3>2, <3>3, <3>4 DEF Restorable, OnErased
  <2>3. CASE OnProgrammed
    <3>1. ConnectionEstablished /\ saved # {}
      BY <2>0, <2>3 DEF OnProgrammed
    <3>2. todo' = IF EraseProgVer THEN <<"READ_CRC">> ELSE << >>
      BY <1>1, <2>3, NextCall DEF OnProgrammed
    <3>3. UNCHANGED <<ConnectionEstablished, EraseProgVer, saved>>
      BY <1>7, <2>3 DEF OnProgrammed
    <3>4. enabled' # {}
      BY <2>3, <3>1 DEF OnProgrammed, SetButtons
    <3> QED
      BY <1>1, <2>3, <3>1, <3>2, <3>3, <3>4 DEF Restorable, OnProgrammed
  <2>4. CASE OnVerified
    BY <1>1, <2>0, <2>4 DEF OnVerified, SetButtons
  <2> QED
    BY <1>6, <2>1, <2>2, <2>3, <2>4
<1>9. /\ posted' = << >>
      /\ UNCHANGED <<retryVars, packetVars, RxData, NoResponseFromDevice,
                     ResetHexFilePtr, HexFile, threadVars, guiVars, worker,
                     portOpen, linkVars, deviceVars>>
  BY <1>4, <1>7 DEF Deliver
<1>10. UNCHANGED <<TxState, RetryCount, LastSentCommand, NoResponseFromDevice,
                   ResetHexFilePtr, HexFile, ExitThread, BtlThread, gui,
                   worker, portOpen, toDevice, toHost, flash, device, connects>>
  BY <1>7, <1>9 DEF retryVars, packetVars, threadVars, guiVars, linkVars,
     deviceVars
<1>11. Always'
  BY <1>1, <1>8, <1>10 DEF Always
<1>12. Polling' /\ Calm' /\ gui' = "idle"
  BY <1>1, <1>10 DEF Polling, Running, Calm, LinkEmpty
<1>13. Rest' \/ Planned'
  BY <1>8, <1>9, <1>12 DEF Rest, Planned, HandsOff, Answered
<1> QED
  BY <1>10, <1>11, <1>13

LEMMA ToldStep ==
    ASSUME OneConnection, SoundLink, DialogTypes, Always, Told, PatientNext
    PROVE  /\ Always' /\ (Told' \/ Rest' \/ Planned')
           /\ UNCHANGED <<HexFile, LastSentCommand, BtlThread, flash>>
<1>1. Polling /\ Calm /\ gui = "idle" /\ HandsOff /\ connects = 1
  BY DEF Told, Polling, Running
<1>2. ~User
  BY <1>1, UserWaits DEF PatientNext
<1>3. CASE Gui
  BY <1>3, ToldGui
<1>4. CASE (Worker \/ GuiContinues \/ Environment) /\ UNCHANGED dialogVars
  <2>1. /\ worker' \in {"loop", "receive"}
        /\ UNCHANGED <<polledVars, dialogVars>>
    BY <1>1, <1>4, CalmEngine, Zenon
  <2>2. Told' /\ Always'
    BY <1>1, <2>1, PollingStays, Zenon
  <2> QED
    BY <2>1, <2>2 DEF polledVars, packetVars, hexVars, threadVars, deviceVars
<1> QED
  BY <1>2, <1>3, <1>4 DEF PatientNext, DialogNext

-----------------------------------------------------------------------------
(***************************************************************************)
(* READ_BOOT_INFO to a device that runs its application.                   *)
(***************************************************************************)
OnlyFailures(notices) ==
    \A i \in DOMAIN notices : notices[i].kind = "failure"

LEMMA FailuresStay ==
    ASSUME NEW S, NEW notices \in Seq(S), OnlyFailures(notices)
    PROVE  /\ \A c : OnlyFailures(Append(notices, [kind |-> "failure", cmd |-> c]))
           /\ notices # << >> => /\ Head(notices).kind = "failure"
                                /\ OnlyFailures(Tail(notices))
<1>1. ASSUME NEW c
      PROVE  OnlyFailures(Append(notices, [kind |-> "failure", cmd |-> c]))
  BY DEF OnlyFailures
<1>2. ASSUME notices # << >>
      PROVE  Head(notices).kind = "failure" /\ OnlyFailures(Tail(notices))
  BY <1>2 DEF OnlyFailures
<1> QED
  BY <1>1, <1>2

awayVars == <<BtlThread, HexFile, LastSentCommand, ExitThread, device, flash,
              gui, connects, todo, enabled, EraseProgVer, ConnectionEstablished>>

LEMMA AwayStays ==
    ASSUME Always, Away, UNCHANGED awayVars, toHost' = << >>,
           OnlyFailures(posted'),
           worker' \in {"loop", "decrement", "store", "receive"},
           NoResponseFromDevice' => RetryCount' = 0 /\ worker' = "receive"
    PROVE  Always' /\ Away'
BY DEF Always, Away, awayVars, OnlyFailures

\* Only the link changes in the environment's steps.
LEMMA AwayEnvironment ==
    ASSUME SoundLink, Always, Away, Environment, UNCHANGED dialogVars
    PROVE  Always' /\ Away' /\ UNCHANGED awayVars
<1>1. device = "app" /\ toHost = << >>
  BY DEF Away
<1>2. ~LoseReply /\ ~CorruptReply /\ ~DeviceReset
  BY <1>1 DEF LoseReply, CorruptReply, DeviceReset, Fault, SoundLink
<1>3. DeviceStep \/ LosePacket \/ DelayElapses
  BY <1>2 DEF Environment
<1>4. /\ toHost' = << >>
      /\ UNCHANGED <<RetryCount, packetVars, rxVars, hexVars, threadVars,
                     guiVars, worker, flash, device>>
  BY <1>1, <1>3 DEF DeviceStep, LosePacket, DelayElapses, programVars, retryVars,
     linkVars, deviceVars
<1>5. UNCHANGED <<awayVars, worker, RetryCount, NoResponseFromDevice, posted>>
  BY <1>4 DEF awayVars, packetVars, rxVars, hexVars, threadVars, guiVars,
     dialogVars
<1> QED
  BY <1>4, <1>5, AwayStays DEF Away, OnlyFailures

\* What the worker posts is a failure.
LEMMA AwayWorker ==
    ASSUME TypeOK, Always, Away, Worker, UNCHANGED dialogVars
    PROVE  Always' /\ Away' /\ UNCHANGED awayVars
<1>1. /\ ExitThread = FALSE /\ toHost = << >> /\ OnlyFailures(posted)
      /\ posted \in Seq(Notice) /\ LastSentCommand \in Answered
      /\ worker \in {"loop", "decrement", "store", "receive"}
      /\ NoResponseFromDevice => RetryCount = 0 /\ worker = "receive"
  BY DEF Always, Away, OnlyFailures, TypeOK
<1>2. ~ReceiveFrame
  BY <1>1, ReceiveFrameFacts
<1>3. CASE ReceiveNothing
  <2>1. toHost' = << >>
    BY <1>1, <1>3, ReceiveNothingFacts
  <2>2. /\ NoResponseFromDevice' = FALSE /\ worker' = "loop"
        /\ UNCHANGED <<retryVars, packetVars, hexVars, threadVars, guiVars,
                       deviceVars>>
        /\ IF NoResponseFromDevice THEN HandleNoResponse ELSE UNCHANGED posted
    BY <1>3 DEF ReceiveNothing
  <2>3. \/ posted' = posted
        \/ posted' = Append(posted, [kind |-> "failure", cmd |-> LastSentCommand])
    BY <2>2 DEF HandleNoResponse, Post
  <2>4. OnlyFailures(posted')
    BY <1>1, <2>3, FailuresStay
  <2>5. UNCHANGED awayVars
    BY <2>2 DEF awayVars, packetVars, hexVars, threadVars, guiVars, deviceVars,
       dialogVars
  <2> QED
    BY <2>1, <2>2, <2>4, <2>5, AwayStays
<1>4. CASE Transmit \/ TransmitNothing \/ RetriesExceeded \/ LoadRetryCount
             \/ StoreRetryCount
  <2>1. /\ UNCHANGED <<packetVars, posted, hexVars, threadVars, guiVars, toHost,
                       deviceVars>>
        /\ worker' \in {"loop", "decrement", "store", "receive"}
    BY <1>4 DEF Transmit, TransmitNothing, RetriesExceeded, LoadRetryCount,
       StoreRetryCount, rxVars, linkVars
  <2>2. NoResponseFromDevice' => RetryCount' = 0 /\ worker' = "receive"
    <3>1. worker # "receive"
      BY <1>4 DEF Transmit, TransmitNothing, RetriesExceeded, LoadRetryCount,
         StoreRetryCount
    <3>2. CASE RetriesExceeded
      BY <3>2 DEF RetriesExceeded
    <3>3. CASE ~RetriesExceeded
      <4>1. NoResponseFromDevice' = NoResponseFromDevice
        BY <1>4, <3>3 DEF Transmit, TransmitNothing, LoadRetryCount,
           StoreRetryCount, rxVars
      <4> QED
        BY <1>1, <3>1, <4>1
    <3> QED
      BY <3>2, <3>3
  <2>3. UNCHANGED awayVars
    BY <2>1 DEF awayVars, packetVars, hexVars, threadVars, guiVars, deviceVars,
       dialogVars
  <2>4. toHost' = << >> /\ OnlyFailures(posted')
    BY <1>1, <2>1
  <2> QED
    BY <2>1, <2>2, <2>3, <2>4, AwayStays
<1> QED
  BY <1>1, <1>2, <1>3, <1>4
     DEF Worker, WorkerExits, ReceiveResponse, ReceiveProgramNext,
         ReceiveProgramDone, ReceiveProgramCrash, WorkerArms, WorkerFrames

\* The GUI thread prints them, and there is no connection to restore.
LEMMA AwayGui ==
    ASSUME TypeOK, DialogTypes, Always, Away, Gui
    PROVE  Always' /\ Away' /\ UNCHANGED awayVars /\ OnTransmitFailure
<1>1. /\ todo = << >> /\ device = "app" /\ ~ConnectionEstablished
      /\ enabled = {} /\ ~EraseProgVer /\ toHost = << >>
      /\ posted \in Seq(Notice) /\ OnlyFailures(posted)
      /\ worker \in {"loop", "decrement", "store", "receive"}
      /\ NoResponseFromDevice => RetryCount = 0 /\ worker = "receive"
  BY DEF Always, Away, OnlyFailures, TypeOK
<1>2. OnTransmitFailure
  <2>1. \A op : ~Call(op)
    BY <1>1 DEF Call
  <2>2. /\ \A c : ~CallSend(c)
        /\ ~CallShutdown /\ ~CallCreate /\ ~CallClose /\ ~CallOpen /\ ~CallLoad
    BY <2>1, Zenon DEF CallSend, CallShutdown, CallCreate, CallClose, CallOpen,
       CallLoad
  <2>3. ASSUME NEW c, TakeNotice("response", c) PROVE FALSE
    <3>1. posted # << >> /\ Head(posted) = [kind |-> "response", cmd |-> c]
      BY <2>3 DEF TakeNotice, Deliver
    <3>2. Head(posted).kind = "response"
      BY <3>1
    <3>3. Head(posted).kind = "failure"
      BY <1>1, <3>1, FailuresStay
    <3> QED
      BY <3>2, <3>3
  <2>4. ~OnBootInfo /\ ~OnErased /\ ~OnProgrammed /\ ~OnVerified
    BY <2>3, Zenon DEF OnBootInfo, OnErased, OnProgrammed, OnVerified
  <2> QED
    BY <2>2, <2>4, Zenon DEF Gui
<1>3. /\ Deliver /\ enabled' = {} /\ EraseProgVer' = FALSE
      /\ UNCHANGED <<ConnectionEstablished, todo, connects>>
  BY <1>1, <1>2 DEF OnTransmitFailure, TakeNotice, SetButtons
<1>a. EraseProgVer' = EraseProgVer
  BY <1>1, <1>3 DEF DialogTypes
<1>4. /\ posted # << >> /\ posted' = Tail(posted)
      /\ UNCHANGED <<retryVars, packetVars, NoResponseFromDevice, HexFile,
                     threadVars, guiVars, worker, linkVars, deviceVars>>
  BY <1>3 DEF Deliver
<1>5. OnlyFailures(posted')
  BY <1>1, <1>4, FailuresStay
<1>6. UNCHANGED <<awayVars, worker, RetryCount, NoResponseFromDevice, toHost>>
  BY <1>1, <1>3, <1>4, <1>a DEF awayVars, retryVars, packetVars, threadVars,
     guiVars, linkVars, deviceVars
<1> QED
  BY <1>1, <1>2, <1>5, <1>6, AwayStays

LEMMA AwayStep ==
    ASSUME OneConnection, SoundLink, TypeOK, DialogTypes, Always, Away,
           PatientNext
    PROVE  Always' /\ Away' /\ UNCHANGED awayVars
<1>1. gui = "idle" /\ HandsOff /\ connects = 1
  BY DEF Always, Away, HandsOff
<1>2. ~User
  BY <1>1, UserWaits DEF PatientNext
<1>3. ~GuiContinues
  BY <1>1 DEF GuiContinues, GuiArms, GuiFrames, ShutdownEnds
<1> QED
  BY <1>2, <1>3, AwayGui, AwayWorker, AwayEnvironment DEF PatientNext, DialogNext

-----------------------------------------------------------------------------
(***************************************************************************)
(* The invariant.                                                          *)
(***************************************************************************)
LEMMA InitSession ==
    ASSUME SoundLink, DialogInit
    PROVE  SessionInv
<1>1. /\ TxState = "FIRST_TRY" /\ RetryCount = 0 /\ toDevice = << >>
      /\ toHost = << >> /\ NoResponseFromDevice = FALSE
      /\ ResetHexFilePtr = TRUE
  BY DEF DialogInit, Init, SoundLink
<1>2. Calm
  BY <1>1 DEF Calm, LinkEmpty
<1>3. /\ Always /\ BtlThread = FALSE /\ worker = "none" /\ gui = "idle"
      /\ posted = << >> /\ enabled = {} /\ ~ConnectionEstablished
      /\ todo = << >> /\ ~portOpen
  BY DEF DialogInit, Init, Always
<1> QED
  BY <1>2, <1>3 DEF SessionInv, Start

LEMMA SessionStep ==
    ASSUME OneConnection, SoundLink, TypeOK, DialogTypes, SessionInv,
           NullInv, ~crashed', PatientNext
    PROVE  SessionInv'
<1>0. Always
  BY DEF SessionInv
<1>1. CASE Start
  BY <1>0, <1>1, StartStep DEF SessionInv
<1>2. CASE Rest
  BY <1>0, <1>2, RestStep DEF SessionInv
<1>3. CASE Planned
  BY <1>0, <1>3, PlannedStep DEF SessionInv
<1>4. CASE GuiArming
  BY <1>0, <1>4, GuiArmingStep DEF SessionInv
<1>5. CASE GuiFraming
  BY <1>0, <1>5, GuiFramingStep DEF SessionInv
<1>6. CASE Underway
  BY <1>0, <1>6, UnderwayStep DEF SessionInv
<1>7. CASE WorkerSending
  BY <1>0, <1>7, WorkerSendingStep DEF SessionInv
<1>8. CASE Told
  BY <1>0, <1>8, ToldStep DEF SessionInv
<1>9. CASE Away
  BY <1>0, <1>9, AwayStep DEF SessionInv
<1> QED
  BY <1>1, <1>2, <1>3, <1>4, <1>5, <1>6, <1>7, <1>8, <1>9 DEF SessionInv

LEMMA SessionStutters ==
    ASSUME SessionInv, UNCHANGED allVars
    PROVE  SessionInv'
<1> USE DEF allVars, vars, retryVars, packetVars, rxVars, hexVars, threadVars,
        guiVars, linkVars, deviceVars, dialogVars
<1>1. /\ Always => Always'
      /\ Calm => Calm'
      /\ Polling => Polling'
      /\ HandsOff <=> HandsOff'
      /\ \A cmd : Restorable(cmd) => Restorable(cmd)'
  BY DEF Always, Calm, LinkEmpty, Polling, Running, Restorable, HandsOff
<1>2. \A cmd : Command(cmd) => Command(cmd)'
  BY <1>1 DEF Command, Running
<1>3. Start => Start'
  BY <1>1 DEF Start
<1>4. /\ Rest => Rest'
      /\ Planned => Planned'
  BY <1>1 DEF Rest, Planned
<1>5. GuiArming => GuiArming'
  BY <1>1 DEF GuiArming, Command, Running
<1>6. GuiFraming => GuiFraming'
  BY <1>1 DEF GuiFraming, Command, Running, CutNotSent, CutSent
<1>7. Underway => Underway'
  <2>1. Pace => Pace'
    BY DEF Pace, LinkEmpty
  <2>2. Budget => Budget'
    BY DEF Budget, TriesLeft, LinkGood, LinkBad, LinkEmpty, OnTheWay,
       OnTheWayBack, Expected
  <2>3. Command(Buff.cmd) => Command(Buff.cmd)'
    BY <1>1 DEF Command, Running
  <2> QED
    BY <2>1, <2>2, <2>3 DEF Underway
<1>8. WorkerSending => WorkerSending'
  BY <1>2 DEF WorkerSending, LinkEmpty
<1>9. Told => Told'
  BY <1>1 DEF Told, Notified
<1>10. Away => Away'
  BY DEF Away
<1> QED
  BY <1>1, <1>3, <1>4, <1>5, <1>6, <1>7, <1>8, <1>9, <1>10 DEF SessionInv

\* What every theorem below stands on.
Sound == TypeOK /\ DialogTypes /\ NullInv /\ SessionInv

LEMMA PatientIsDialog ==
    PatientSpec => DialogSpec
<1>1. [PatientNext]_allVars => [DialogNext]_allVars
  BY DEF PatientNext
<1> QED
  BY <1>1, PTL DEF PatientSpec, DialogSpec

LEMMA SoundAlways ==
    ASSUME OneConnection, SoundLink
    PROVE  PatientSpec => []Sound
<1>1. DialogTypes /\ [PatientNext]_allVars => DialogTypes'
  BY ClickTypes, GuiTypes
     DEF PatientNext, DialogNext, allVars, dialogVars, DialogTypes
<1>2. TypeOK /\ NullInv /\ [PatientNext]_allVars => NullInv'
  BY NullStep DEF OneConnection, PatientNext
<1>3. TypeOK /\ DialogTypes /\ SessionInv /\ NullInv /\ NullInv'
        /\ [PatientNext]_allVars
        => SessionInv'
  <2>1. NullInv' => ~crashed'
    BY DEF NullInv
  <2> QED
    BY <2>1, SessionStep, SessionStutters
<1>4. DialogInit => SessionInv
  BY InitSession
<1>5. TypeOK /\ DialogTypes /\ NullInv /\ SessionInv <=> Sound
  BY DEF Sound
<1> QED
  BY <1>1, <1>2, <1>3, <1>4, <1>5, InitDialogTypes, InitNull, DialogKeepsEngine,
     PatientIsDialog, PTL DEF PatientSpec

\* Who has no use for Erase-Program-Verify is patient.
THEOREM StepByStepIsPatient ==
    ASSUME StepByStepUser
    PROVE  DialogSpec => PatientSpec /\ [](~EraseProgVer)
<1>1. DialogInit => ~EraseProgVer
  BY DEF DialogInit
<1>2. ~EraseProgVer /\ [DialogNext]_allVars => ~EraseProgVer'
  <2> SUFFICES ASSUME ~EraseProgVer, [DialogNext]_allVars
               PROVE  ~EraseProgVer'
    OBVIOUS
  <2>1. CASE UNCHANGED dialogVars
    BY <2>1 DEF dialogVars
  <2>2. CASE User
    BY <2>2 DEF StepByStepUser, User, OnBnClickedButtonErase,
       OnBnClickedButtonProgram, OnBnClickedButtonVerify,
       OnBnClickedButtonBootVer, OnBnClickedButtonEraseProgVerify,
       OnBnClickedButtonRunapplication, OnBnClickedButtonLoadhex, Disconnect,
       Connect, ClickCommand, Click
  <2>3. CASE Gui
    BY <2>3 DEF Gui, CallSend, CallShutdown, CallCreate, CallClose, CallOpen,
       CallLoad, OnBootInfo, OnErased, OnProgrammed, OnVerified,
       OnTransmitFailure
  <2> QED
    BY <2>1, <2>2, <2>3 DEF DialogNext, allVars
<1>3. ~EraseProgVer /\ [DialogNext]_allVars => [PatientNext]_allVars
  BY DEF PatientNext, Patient
<1> QED
  BY <1>1, <1>2, <1>3, PTL DEF DialogSpec, PatientSpec

-----------------------------------------------------------------------------
(***************************************************************************)
(* What it says.                                                           *)
(***************************************************************************)
\* Nothing is queued but the answer the GUI thread is told of, or failures
\* of a device that is away.
LEMMA QueuedNotices ==
    ASSUME SessionInv
    PROVE  \/ posted = << >>
           \/ Told
           \/ OnlyFailures(posted)
BY DEF SessionInv, Start, Rest, Planned, GuiArming, GuiFraming, Underway,
       WorkerSending, Command, Away, OnlyFailures

LEMMA ToldFacts ==
    ASSUME Told
    PROVE  /\ Calm
           /\ \E cmd \in Answered :
                 /\ Notified(cmd)
                 /\ posted = <<[kind |-> "response", cmd |-> cmd]>>
                 /\ Head(posted) = [kind |-> "response", cmd |-> cmd]
                 /\ Len(posted) = 1
                 /\ \A i \in DOMAIN posted :
                       posted[i] = [kind |-> "response", cmd |-> cmd]
<1>1. PICK cmd \in Answered : Notified(cmd)
  BY DEF Told
<1>2. posted = <<[kind |-> "response", cmd |-> cmd]>>
  BY <1>1 DEF Notified
<1>3. /\ Head(posted) = [kind |-> "response", cmd |-> cmd]
      /\ Len(posted) = 1
      /\ \A i \in DOMAIN posted : posted[i] = [kind |-> "response", cmd |-> cmd]
  BY <1>2
<1> QED
  BY <1>1, <1>2, <1>3 DEF Told

LEMMA NoAnswerQueued ==
    ASSUME TypeOK, OnlyFailures(posted)
    PROVE  /\ \A cmd : ~Queued("response", cmd)
           /\ posted # << >> => Head(posted).kind = "failure"
<1>1. ASSUME NEW cmd, Queued("response", cmd) PROVE FALSE
  <2>1. PICK i \in DOMAIN posted : posted[i] = [kind |-> "response", cmd |-> cmd]
    BY <1>1 DEF Queued
  <2>2. posted[i].kind = "response"
    BY <2>1
  <2> QED
    BY <2>2 DEF OnlyFailures
<1>2. posted \in Seq(Notice)
  BY DEF TypeOK
<1> QED
  BY <1>1, <1>2, FailuresStay

LEMMA AnswerIsTold ==
    ASSUME Sound, posted # << >>, Head(posted).kind = "response"
    PROVE  Told
<1>1. TypeOK /\ SessionInv
  BY DEF Sound
<1>2. ~OnlyFailures(posted)
  BY <1>1, NoAnswerQueued
<1> QED
  BY <1>1, <1>2, QueuedNotices

LEMMA QueuedAnswerIsTold ==
    ASSUME Sound, NEW c, Queued("response", c)
    PROVE  Told
<1>1. TypeOK /\ SessionInv
  BY DEF Sound
<1>2. ~OnlyFailures(posted)
  BY <1>1, NoAnswerQueued
<1>3. posted # << >>
  BY DEF Queued
<1> QED
  BY <1>1, <1>2, <1>3, QueuedNotices

\* "Programming completed" is queued only when the device holds every packet
\* of the file: for a worker that retries, loses replies and starts the next
\* packet on its own, and a GUI thread that wrote the same fields before.
THEOREM CompletionIsTrue ==
    ASSUME OneConnection, SoundLink
    PROVE  PatientSpec => []CompletionMeansWritten
<1>1. Sound => CompletionMeansWritten
  <2> SUFFICES ASSUME Sound, Queued("response", "PROGRAM_FLASH")
               PROVE  1..HexFile \subseteq flash
    BY DEF CompletionMeansWritten
  <2>1. Told
    BY QueuedAnswerIsTold
  <2>2. PICK cmd \in Answered :
          /\ Notified(cmd)
          /\ \A i \in DOMAIN posted :
                posted[i] = [kind |-> "response", cmd |-> cmd]
    BY <2>1, ToldFacts
  <2>3. PICK i \in DOMAIN posted :
          posted[i] = [kind |-> "response", cmd |-> "PROGRAM_FLASH"]
    BY DEF Queued
  <2>4. cmd = "PROGRAM_FLASH"
    BY <2>2, <2>3
  <2> QED
    BY <2>2, <2>4 DEF Notified
<1> QED
  BY <1>1, SoundAlways, PTL

\* When the GUI thread is told of an answer nothing of the command is left:
\* no try, no packet or reply under way, no other notification.
THEOREM AnswersSettle ==
    ASSUME OneConnection, SoundLink
    PROVE  PatientSpec => []AnswerSettles
<1>1. Sound => AnswerSettles
  <2> SUFFICES ASSUME Sound, posted # << >>, Head(posted).kind = "response"
               PROVE  /\ Len(posted) = 1 /\ RetryCount = 0
                      /\ toDevice = << >> /\ toHost = << >>
    BY DEF AnswerSettles
  <2>1. Told
    BY AnswerIsTold
  <2> QED
    BY <2>1, ToldFacts DEF Calm, LinkEmpty
<1> QED
  BY <1>1, SoundAlways, PTL

\* While a button that sends a command is on, the engine has no try left and
\* the worker is not about to send.
THEOREM ButtonsAreGuarded ==
    ASSUME StepByStepUser, SoundLink
    PROVE  DialogSpec => []ButtonsGuardCommand
<1>1. Sound /\ ~EraseProgVer => ButtonsGuardCommand
  <2> SUFFICES ASSUME Sound, ~EraseProgVer, enabled # {}
               PROVE  RetryCount = 0 /\ worker \notin {"arm", "frame"}
    BY DEF ButtonsGuardCommand
  <2>1. Always /\ SessionInv /\ ~HandsOff
    BY DEF Sound, SessionInv, HandsOff
  <2>2. Rest
    BY <2>1 DEF SessionInv, Start, Planned, GuiArming, GuiFraming, Underway,
       WorkerSending, Told, Command, Always, Away
  <2> QED
    BY <2>2 DEF Rest, Calm, Polling
<1>2. OneConnection
  BY DEF StepByStepUser
<1> QED
  BY <1>1, <1>2, SoundAlways, StepByStepIsPatient, PTL

\* A command that was answered is never also reported as unanswered: on this
\* link the answer always comes before the retries are exceeded.
THEOREM AnsweredNotFailed ==
    ASSUME OneConnection, SoundLink
    PROVE  PatientSpec => []AnsweredMeansNoFailure
<1>1. Sound => AnsweredMeansNoFailure
  <2> SUFFICES ASSUME Sound, NEW c \in Answered,
                      Queued("response", c), Queued("failure", c)
               PROVE  FALSE
    BY DEF AnsweredMeansNoFailure
  <2>1. PICK cmd \in Answered :
          \A i \in DOMAIN posted : posted[i] = [kind |-> "response", cmd |-> cmd]
    BY QueuedAnswerIsTold, ToldFacts
  <2>2. PICK i \in DOMAIN posted : posted[i] = [kind |-> "failure", cmd |-> c]
    BY DEF Queued
  <2>3. posted[i].kind = "response" /\ posted[i].kind = "failure"
    BY <2>1, <2>2
  <2> QED
    BY <2>3
<1> QED
  BY <1>1, SoundAlways, PTL

\* The answer the notification points to has not been overwritten.
THEOREM PayloadStaysFresh ==
    ASSUME OneConnection, SoundLink
    PROVE  PatientSpec => []PayloadFresh
<1>1. Sound => PayloadFresh
  <2> SUFFICES ASSUME Sound, posted # << >>, Head(posted).kind = "response"
               PROVE  RxData.cmd = Head(posted).cmd
    BY DEF PayloadFresh
  <2>1. PICK cmd \in Answered :
          Notified(cmd) /\ Head(posted) = [kind |-> "response", cmd |-> cmd]
    BY AnswerIsTold, ToldFacts
  <2> QED
    BY <2>1 DEF Notified
<1> QED
  BY <1>1, SoundAlways, PTL

\* Nothing but the protocol keeps the two threads out of SendCommand at the
\* same time, and it does.
THEOREM SendCommandIsExclusive ==
    ASSUME OneConnection, SoundLink
    PROVE  PatientSpec => []SendCommandExclusive
<1>1. Sound => SendCommandExclusive
  <2> SUFFICES ASSUME Sound, gui \in {"arm", "frame"}
               PROVE  worker \notin {"arm", "frame"}
    BY DEF SendCommandExclusive, Overlap
  <2>1. GuiArming \/ GuiFraming
    BY DEF Sound, SessionInv, Start, Rest, Planned, Underway, WorkerSending,
       Told, Away
  <2> QED
    BY <2>1 DEF GuiArming, GuiFraming, Polling, CutNotSent, CutSent
<1> QED
  BY <1>1, SoundAlways, PTL

-----------------------------------------------------------------------------
(***************************************************************************)
(* What a step does.                                                       *)
(***************************************************************************)
LEMMA LastOfAppended ==
    ASSUME NEW S, NEW notices \in Seq(S), NEW notice
    PROVE  Last(Append(notices, notice)) = notice
BY DEF Last

\* Who puts a failure into the queue.
LEMMA FailureIsPosted ==
    ASSUME TypeOK, [PatientNext]_allVars, Len(posted') > Len(posted),
           Last(posted').kind = "failure"
    PROVE  NoResponseFromDevice
<1>1. posted \in Seq(Notice) /\ posted' # posted
  BY DEF TypeOK
<1>2. ~User /\ ~UNCHANGED allVars
  BY <1>1, UserIsSilent DEF allVars, vars, rxVars
<1>3. ~Deliver
  BY <1>1, HeadTailProperties DEF Deliver
<1>4. ~Gui
  <2>1. ASSUME NEW cmd, Send(cmd) PROVE UNCHANGED posted
    BY <2>1 DEF Send, SendSimple, SendProgram, SendProgramFails, SendReadCrc,
       SendCrashes, SendCommand, rxVars
  <2>2. \A cmd : ~CallSend(cmd)
    BY <1>1, <2>1 DEF CallSend
  <2>3. ~CallShutdown /\ ~CallCreate /\ ~CallClose /\ ~CallOpen /\ ~CallLoad
    BY <1>1 DEF CallShutdown, CallCreate, CallClose, CallOpen, CallLoad,
       ShutdownBegins, CreateRxTxThread, ClosePort, OpenPort, LoadHexFile,
       vars, rxVars
  <2> QED
    BY <1>3, <2>2, <2>3 DEF Gui, OnBootInfo, OnErased, OnProgrammed,
       OnVerified, OnTransmitFailure, TakeNotice
<1>5. ~Environment /\ ~GuiContinues
  BY <1>1 DEF Environment, DeviceStep, LosePacket, LoseReply, CorruptReply,
     DeviceReset, DelayElapses, GuiContinues, GuiArms, GuiFrames, ShutdownEnds,
     programVars, rxVars
<1>6. \A cmd : ~Post("response", cmd)
  <2>1. ASSUME NEW cmd, Post("response", cmd) PROVE FALSE
    <3>1. Last(posted') = [kind |-> "response", cmd |-> cmd]
      BY <1>1, <2>1, LastOfAppended DEF Post
    <3>2. Last(posted').kind = "response"
      BY <3>1
    <3> QED
      BY <3>2
  <2> QED
    BY <2>1
<1>7. ReceiveNothing
  BY <1>1, <1>2, <1>4, <1>5, <1>6 DEF PatientNext, DialogNext, Worker, WorkerExits,
     Transmit, TransmitNothing, RetriesExceeded, LoadRetryCount,
     StoreRetryCount, ReceiveResponse, ReceiveProgramNext, ReceiveProgramDone,
     ReceiveProgramCrash, WorkerArms, WorkerFrames, rxVars
<1> QED
  BY <1>1, <1>7 DEF ReceiveNothing

\* A failure is reported only when no try is left.
THEOREM FailuresAreExhausted ==
    ASSUME OneConnection, SoundLink
    PROVE  PatientSpec => FailureMeansExhausted
<1> DEFINE Reports == Len(posted') > Len(posted) /\ Last(posted').kind = "failure"
<1>1. Sound /\ [PatientNext]_allVars => [Reports => RetryCount = 0]_allVars
  <2> SUFFICES ASSUME Sound, [PatientNext]_allVars, Reports
               PROVE  RetryCount = 0
    OBVIOUS
  <2>1. NoResponseFromDevice
    BY FailureIsPosted DEF Sound
  <2>2. Away
    BY <2>1 DEF Sound, SessionInv, Start, Rest, Planned, GuiArming, GuiFraming,
       Underway, WorkerSending, Told, Command, Calm
  <2> QED
    BY <2>1, <2>2 DEF Away
<1> QED
  BY <1>1, SoundAlways, PTL DEF PatientSpec, FailureMeansExhausted

\* Program on a click always starts, and with the first packet of the file.
THEOREM ProgramsFromFirst ==
    ASSUME OneConnection, SoundLink
    PROVE  PatientSpec => ProgramStartsAtFirst
<1> DEFINE Starts == CallSend("PROGRAM_FLASH") /\ HexFile > 0
                        => gui' = "arm" /\ Buff'.arg = 1
<1>1. Sound => [Starts]_allVars
  <2> SUFFICES ASSUME Sound, CallSend("PROGRAM_FLASH"), HexFile > 0
               PROVE  gui' = "arm" /\ Buff'.arg = 1
    OBVIOUS
  <2>1. todo # << >> /\ Head(todo) = "PROGRAM_FLASH" /\ Send("PROGRAM_FLASH")
    BY DEF CallSend, Call
  <2>2. ResetHexFilePtr = TRUE
    BY <2>1 DEF Sound, SessionInv, Start, Rest, Planned, GuiArming, GuiFraming,
       Underway, WorkerSending, Told, Command, Calm, Away
  <2>3. HexFile # NoFile /\ ProgramFrom = 0 /\ ~NoMoreRecords(ProgramFrom)
    BY <2>2 DEF NoFile, ProgramFrom, NoMoreRecords, Sound, TypeOK
  <2>4. SendProgram
    BY <2>1, <2>2, <2>3 DEF Send, SendSimple, SendProgramFails, SendCrashes
  <2>5. SendCommand("PROGRAM_FLASH", 1)
    BY <2>3, <2>4 DEF SendProgram
  <2> QED
    BY <2>5 DEF SendCommand, Enter
<1> QED
  BY <1>1, SoundAlways, PTL DEF ProgramStartsAtFirst

-----------------------------------------------------------------------------
(***************************************************************************)
(* To the user it is one command after the other.                          *)
(***************************************************************************)
SameSession == UNCHANGED <<Pending, EraseProgVer, console, HexFile, flash>>
SessionMoves == Session!SessionNext \/ SameSession

\* How far the sequence is.
SequenceInv ==
    EraseProgVer =>
        \/ Pending = "ERASE_FLASH"
        \/ Pending = "PROGRAM_FLASH" /\ flash \subseteq 1..HexFile
        \/ Pending = "READ_CRC" /\ flash = 1..HexFile

LEMMA NothingOrBegin ==
    ASSUME Pending = "none", UNCHANGED <<console, HexFile, flash>>,
           Pending' \in {"none"} \cup Answered,
           \/ UNCHANGED EraseProgVer
           \/ Pending' = "ERASE_FLASH" /\ EraseProgVer' = TRUE
    PROVE  SessionMoves
BY DEF SessionMoves, SameSession, Session!SessionNext, Session!Begin, Answered

LEMMA InCommand ==
    ASSUME BtlThread, HandsOff, todo = << >>
    PROVE  /\ Pending = LastSentCommand
           /\ UNCHANGED <<BtlThread, enabled, EraseProgVer, todo,
                          LastSentCommand>>
                  => UNCHANGED Pending
BY DEF Pending, HandsOff

LEMMA PlannedIsPending ==
    Planned => Pending \in Answered /\ todo = <<Pending>>
<1> SUFFICES ASSUME Planned PROVE Pending \in Answered /\ todo = <<Pending>>
  OBVIOUS
<1>1. PICK cmd \in Answered : todo = <<cmd>>
  BY DEF Planned
<1>2. todo # << >> /\ Head(todo) = cmd
  BY <1>1, OneElement
<1>3. Pending = cmd
  BY <1>2 DEF Planned, HandsOff, Polling, Running, Pending
<1> QED
  BY <1>1, <1>3

LEMMA PlannedIsPendingNext ==
    ASSUME Planned'
    PROVE  Pending' \in Answered /\ todo' # << >> /\ Head(todo') = Pending'
<1>1. PICK cmd \in Answered : todo' = <<cmd>>
  BY DEF Planned
<1>2. todo' # << >> /\ Head(todo') = cmd
  BY <1>1, OneElement
<1>3. Pending' = cmd
  BY <1>2 DEF Planned, HandsOff, Polling, Running, Pending
<1> QED
  BY <1>1, <1>2, <1>3

\* Clicks, and the calls that neither send nor load, change nothing the
\* session knows but what is pending, and whether the sequence is on.
LEMMA QuietCalls ==
    ASSUME User \/ CallClose \/ CallOpen \/ CallShutdown \/ CallCreate
    PROVE  /\ UNCHANGED <<console, HexFile, flash>>
           /\ \/ UNCHANGED EraseProgVer
              \/ /\ User /\ enabled # {}
                 /\ EraseProgVer' = TRUE /\ todo' = <<"ERASE_FLASH">>
<1>1. CASE User
  <2>1. UNCHANGED console
    BY <1>1 DEF User, OnBnClickedButtonErase, OnBnClickedButtonProgram,
       OnBnClickedButtonVerify, OnBnClickedButtonBootVer,
       OnBnClickedButtonEraseProgVerify, OnBnClickedButtonRunapplication,
       OnBnClickedButtonLoadhex, Disconnect, Connect, ClickCommand, Click,
       ClickConnect
  <2>2. \/ UNCHANGED EraseProgVer
        \/ enabled # {} /\ EraseProgVer' = TRUE /\ todo' = <<"ERASE_FLASH">>
    BY <1>1 DEF User, OnBnClickedButtonErase, OnBnClickedButtonProgram,
       OnBnClickedButtonVerify, OnBnClickedButtonBootVer,
       OnBnClickedButtonEraseProgVerify, OnBnClickedButtonRunapplication,
       OnBnClickedButtonLoadhex, Disconnect, Connect, ClickCommand, Click
  <2> QED
    BY <1>1, <2>1, <2>2, UserIsSilent DEF vars, hexVars, deviceVars
<1>2. CASE CallClose
  BY <1>2 DEF CallClose, ClosePort, vars, hexVars, deviceVars
<1>3. CASE CallOpen
  BY <1>3 DEF CallOpen, OpenPort, hexVars, deviceVars
<1>4. CASE CallShutdown
  BY <1>4 DEF CallShutdown, ShutdownBegins, vars, hexVars, deviceVars
<1>5. CASE CallCreate
  BY <1>5 DEF CallCreate, CreateRxTxThread, vars, hexVars, deviceVars
<1> QED
  BY <1>1, <1>2, <1>3, <1>4, <1>5

\* Of the GUI thread's calls and notices, those the plan admits.
LEMMA GuiFollowsPlan ==
    ASSUME Gui, posted = << >>
    PROVE  /\ todo # << >>
           /\ \/ \E cmd \in Commands : Head(todo) = cmd /\ CallSend(cmd)
              \/ Head(todo) = "shutdown" /\ CallShutdown
              \/ Head(todo) = "create" /\ CallCreate
              \/ Head(todo) = "close" /\ CallClose
              \/ Head(todo) = "open" /\ CallOpen
              \/ Head(todo) = "load" /\ CallLoad
<1>1. ~OnBootInfo /\ ~OnErased /\ ~OnProgrammed /\ ~OnVerified
      /\ ~OnTransmitFailure
  BY DEF OnBootInfo, OnErased, OnProgrammed, OnVerified, OnTransmitFailure,
     TakeNotice, Deliver
<1> QED
  BY <1>1 DEF Gui, CallSend, CallShutdown, CallCreate, CallClose, CallOpen,
     CallLoad, Call

LEMMA SilentEngine ==
    ASSUME Always, Calm, Polling, SoundLink, gui = "idle",
           Worker \/ GuiContinues \/ Environment, UNCHANGED dialogVars
    PROVE  SessionMoves
<1>1. UNCHANGED <<polledVars, dialogVars>>
  BY CalmEngine, Zenon
<1> QED
  BY <1>1 DEF polledVars, packetVars, hexVars, threadVars, deviceVars,
     dialogVars, SessionMoves, SameSession, Pending

LEMMA StartMoves ==
    ASSUME OneConnection, SoundLink, DialogTypes, Always, Start, PatientNext
    PROVE  SessionMoves
<1>1. Pending = "none"
  BY DEF Start, Pending
<1>2. Pending' \in {"none"} \cup Answered
  <2>1. CASE Start'
    BY <2>1 DEF Start, Pending
  <2>2. CASE Planned'
    BY <2>2, PlannedIsPendingNext
  <2> QED
    BY <2>1, <2>2, StartStep
<1>3. UNCHANGED <<EraseProgVer, console, HexFile, flash>>
  <2>1. ~Worker /\ ~GuiContinues
    BY DEF Start, Worker, WorkerExits, Transmit, TransmitNothing,
       RetriesExceeded, LoadRetryCount, StoreRetryCount, ReceiveNothing,
       ReceiveFrame, ReceiveResponse, ReceiveProgramNext, ReceiveProgramDone,
       ReceiveProgramCrash, WorkerArms, WorkerFrames, GuiContinues, GuiArms,
       GuiFrames, ShutdownEnds
  <2>2. ~Environment
    BY CalmEnvironment DEF Start
  <2>3. CASE Gui
    <3>1. Head(todo) \in {"close", "open", "shutdown", "create"}
      <4>1. todo # << >>
        BY <2>3, GuiFollowsPlan DEF Start
      <4>2. \/ todo = <<"close", "open">>
            \/ todo = <<"open">>
            \/ todo = <<"shutdown", "create", "READ_BOOT_INFO">>
            \/ todo = <<"create", "READ_BOOT_INFO">>
        BY <4>1 DEF Start
      <4> QED
        BY <4>2, ConnectCalls, Zenon
    <3>2. CallClose \/ CallOpen \/ CallShutdown \/ CallCreate
      BY <2>3, <3>1, GuiFollowsPlan DEF Start, Commands, Answered
    <3> QED
      BY <3>2, QuietCalls DEF Start
  <2>4. CASE User
    BY <2>4, QuietCalls DEF Start
  <2> QED
    BY <2>1, <2>2, <2>3, <2>4 DEF PatientNext, DialogNext
<1> QED
  BY <1>1, <1>2, <1>3, NothingOrBegin

LEMMA RestMoves ==
    ASSUME OneConnection, SoundLink, DialogTypes, Always, Rest, PatientNext
    PROVE  SessionMoves
<1>1. /\ Polling /\ Calm /\ gui = "idle" /\ posted = << >> /\ connects = 1
      /\ todo = << >> \/ (todo = <<"load">> /\ ~HandsOff)
  BY DEF Rest, Polling, Running
<1>2. CASE (Worker \/ GuiContinues \/ Environment) /\ UNCHANGED dialogVars
  BY <1>1, <1>2, SilentEngine
<1>3. CASE User
  <2>1. Pending = "none"
    BY <1>1, <1>3, UserWaits DEF Pending, HandsOff, PatientNext
  <2>2. CASE Planned'
    <3>1. Pending' \in Answered /\ todo' # << >> /\ Head(todo') = Pending'
      BY <2>2, PlannedIsPendingNext
    <3>2. todo' = <<"ERASE_FLASH">> => Pending' = "ERASE_FLASH"
      BY <3>1, OneElement
    <3> QED
      BY <1>3, <2>1, <3>1, <3>2, QuietCalls, NothingOrBegin
  <2>3. CASE Rest'
    <3>1. todo' # << >>
      BY <1>3 DEF User, OnBnClickedButtonErase, OnBnClickedButtonProgram,
         OnBnClickedButtonVerify, OnBnClickedButtonBootVer,
         OnBnClickedButtonEraseProgVerify, OnBnClickedButtonRunapplication,
         OnBnClickedButtonLoadhex, Disconnect, Connect, ClickCommand
    <3>2. Pending' = "none" /\ ~EraseProgVer'
      BY <2>3, <3>1 DEF Rest, HandsOff, Pending
    <3> QED
      BY <1>3, <2>1, <3>2, QuietCalls, NothingOrBegin
  <2> QED
    BY <2>2, <2>3, RestStep
<1>4. CASE Gui
  <2>1. todo = <<"load">> /\ ~HandsOff /\ Head(todo) = "load"
    BY <1>1, <1>4, GuiFollowsPlan, OneElement
  <2>2. CallLoad
    BY <1>1, <1>4, <2>1, GuiFollowsPlan DEF Commands, Answered
  <2>3. Pending = "none" /\ Pending' = "none"
    BY <2>1, <2>2, LoadFacts DEF Pending, HandsOff
  <2>4. UNCHANGED <<EraseProgVer, console, flash>> /\ (HexFile' \in HexFiles \/ HexFile' = HexFile)
    BY <2>2 DEF CallLoad, LoadHexFile, vars, hexVars, deviceVars
  <2> QED
    BY <2>3, <2>4 DEF SessionMoves, SameSession, Session!SessionNext, Session!Load
<1> QED
  BY <1>2, <1>3, <1>4 DEF PatientNext, DialogNext

LEMMA PlannedMoves ==
    ASSUME OneConnection, SoundLink, TypeOK, DialogTypes, Always, Planned,
           PatientNext, ~crashed'
    PROVE  SessionMoves
<1>1. /\ Polling /\ Calm /\ gui = "idle" /\ posted = << >> /\ HandsOff
      /\ connects = 1 /\ BtlThread
      /\ Pending \in Answered /\ todo = <<Pending>>
  BY PlannedIsPending DEF Planned, Polling, Running
<1>2. CASE (Worker \/ GuiContinues \/ Environment) /\ UNCHANGED dialogVars
  BY <1>1, <1>2, SilentEngine
<1>3. ~User
  BY <1>1, UserWaits DEF PatientNext
<1>4. CASE Gui
  <2>1. PICK cmd \in Answered : cmd = Pending
    BY <1>1
  <2>2. Head(todo) = cmd /\ Tail(todo) = << >>
    BY <1>1, <2>1, OneElement
  <2>3. CallSend(cmd)
    BY <1>1, <1>4, <2>2, GuiFollowsPlan DEF Commands, Answered
  <2>4. /\ todo' = << >> /\ Send(cmd)
        /\ UNCHANGED <<enabled, EraseProgVer, console>>
    BY <2>2, <2>3 DEF CallSend, CallDone
  <2>5. LastSentCommand' = cmd /\ UNCHANGED <<BtlThread, HexFile, flash>>
    <3>1. ~SendCrashes(cmd)
      BY DEF SendCrashes
    <3> QED
      BY <2>4, <3>1 DEF Send, SendSimple, SendProgram, SendProgramFails,
         SendReadCrc, SendCommand, Enter, EnterNoRecord, threadVars, deviceVars
  <2>6. Pending' = cmd
    BY <1>1, <2>4, <2>5 DEF Pending, HandsOff
  <2> QED
    BY <2>1, <2>4, <2>5, <2>6 DEF SessionMoves, SameSession
<1> QED
  BY <1>2, <1>3, <1>4 DEF PatientNext, DialogNext

\* The GUI thread is in SendCommand.
LEMMA GuiSendingMoves ==
    ASSUME SoundLink, TypeOK, Always, GuiArming \/ GuiFraming, PatientNext
    PROVE  SessionMoves
<1>1. /\ BtlThread /\ HandsOff /\ todo = << >> /\ gui \in {"arm", "frame"}
  BY DEF GuiArming, GuiFraming, Command, Running
<1>2. UNCHANGED dialogVars /\ (Worker \/ GuiContinues \/ Environment)
  BY <1>1, GuiBusyWaits DEF PatientNext, DialogNext
<1>3. UNCHANGED <<BtlThread, LastSentCommand, HexFile, flash>>
  <2>1. CASE GuiContinues
    BY <1>1, <2>1 DEF GuiContinues, GuiArms, GuiFrames, ShutdownEnds, Frame,
       packetVars, hexVars, threadVars, deviceVars
  <2>2. CASE GuiArming /\ ~GuiContinues
    <3>1. Worker /\ Calm /\ Polling
      BY <1>2, <2>2, CalmEnvironment DEF GuiArming
    <3> QED
      BY <3>1, CalmWorker DEF polledVars, packetVars, hexVars, threadVars,
         deviceVars
  <2>3. CASE GuiFraming /\ Worker
    <3>1. UNCHANGED framingVars
      BY <1>2, <2>3, GuiFramingWorker
    <3> QED
      BY <3>1 DEF framingVars, commandVars
  <2>4. CASE GuiFraming /\ Environment
    <3>1. UNCHANGED framingVars
      BY <1>2, <2>4, GuiFramingEnvironment
    <3> QED
      BY <3>1 DEF framingVars, commandVars
  <2> QED
    BY <1>2, <2>1, <2>2, <2>3, <2>4
<1> QED
  BY <1>1, <1>2, <1>3, InCommand DEF SessionMoves, SameSession, dialogVars

LEMMA UnderwayMoves ==
    ASSUME OneConnection, SoundLink, TypeOK, DialogTypes, Always, Underway,
           PatientNext
    PROVE  SessionMoves
<1>1. PICK cmd \in Answered : cmd = Buff.cmd
  BY UnderwayFacts
<1>2. /\ BtlThread /\ HandsOff /\ todo = << >> /\ LastSentCommand = cmd
      /\ cmd = "PROGRAM_FLASH" => /\ Buff.arg \in 1..HexFile
                                  /\ 1..(Buff.arg - 1) \subseteq flash
  BY <1>1 DEF Underway, Command, Running
<1>3. Pending = cmd
  BY <1>2, InCommand
<1>4. /\ UNCHANGED <<HexFile, LastSentCommand, BtlThread, dialogVars>>
      /\ \/ UNCHANGED flash
         \/ cmd = "ERASE_FLASH" /\ flash' = {}
         \/ cmd = "PROGRAM_FLASH" /\ flash' = flash \cup {Buff.arg}
  BY <1>1, UnderwayStep
<1>5. UNCHANGED <<Pending, EraseProgVer, console, HexFile>>
  BY <1>2, <1>4, InCommand DEF dialogVars
<1>6. CASE UNCHANGED flash
  BY <1>5, <1>6 DEF SessionMoves, SameSession
<1>7. CASE cmd = "ERASE_FLASH" /\ flash' = {}
  BY <1>3, <1>5, <1>7
     DEF SessionMoves, Session!SessionNext, Session!Erase
<1>8. CASE cmd = "PROGRAM_FLASH" /\ flash' = flash \cup {Buff.arg}
  BY <1>2, <1>3, <1>5, <1>8
     DEF SessionMoves, Session!SessionNext, Session!Program
<1> QED
  BY <1>4, <1>6, <1>7, <1>8

LEMMA WorkerSendingMoves ==
    ASSUME OneConnection, SoundLink, TypeOK, DialogTypes, Always,
           WorkerSending, PatientNext
    PROVE  SessionMoves
<1>1. BtlThread /\ HandsOff /\ todo = << >>
  BY DEF WorkerSending, Command, Running
<1>2. UNCHANGED <<HexFile, LastSentCommand, BtlThread, flash, dialogVars>>
  BY WorkerSendingStep
<1> QED
  BY <1>1, <1>2, InCommand DEF SessionMoves, SameSession, dialogVars

\* What is printed is true of the flash, and the buttons are back or the
\* sequence goes on.
LEMMA ToldMoves ==
    ASSUME OneConnection, SoundLink, DialogTypes, Always, Told, PatientNext,
           SequenceInv
    PROVE  SessionMoves
<1>1. /\ Polling /\ Calm /\ gui = "idle" /\ BtlThread /\ HandsOff
      /\ todo = << >> /\ connects = 1
  BY DEF Told, Polling, Running
<1>2. ~User
  BY <1>1, UserWaits DEF PatientNext
<1>3. CASE (Worker \/ GuiContinues \/ Environment) /\ UNCHANGED dialogVars
  BY <1>1, <1>3, SilentEngine
<1>4. CASE Gui
  <2>1. PICK cmd \in Answered :
          /\ Notified(cmd)
          /\ Head(posted) = [kind |-> "response", cmd |-> cmd]
    BY ToldFacts
  <2>2. /\ LastSentCommand = cmd /\ Restorable(cmd)
        /\ cmd = "ERASE_FLASH" => flash = {}
        /\ cmd = "PROGRAM_FLASH" => 1..HexFile \subseteq flash
        /\ cmd = "READ_CRC" => RxData.data = flash \cap 1..HexFile
    BY <2>1 DEF Notified
  <2>3. Pending = cmd
    BY <1>1, <2>2, InCommand
  <2>4. UNCHANGED <<HexFile, flash, BtlThread>>
    BY <1>4, ToldGui
  <2>5. ASSUME NEW kind, NEW c, TakeNotice(kind, c)
        PROVE  kind = "response" /\ c = cmd
    <3>1. Head(posted) = [kind |-> kind, cmd |-> c]
      BY <2>5 DEF TakeNotice
    <3>2. Head(posted).kind = kind /\ Head(posted).cmd = c
      BY <3>1
    <3> QED
      BY <2>1, <3>2
  <2>6. ASSUME console' \in Session!Truth(cmd),
               IF EraseProgVer THEN Session!GoOn
                               ELSE Pending' = "none" /\ UNCHANGED EraseProgVer
        PROVE  SessionMoves
    <3>1. cmd # "none"
      BY DEF Answered
    <3> QED
      BY <2>3, <2>4, <2>6, <3>1
         DEF SessionMoves, Session!SessionNext, Session!Succeed
  <2>a. ASSUME NEW next \in Answered, EraseProgVer, UNCHANGED EraseProgVer,
               todo' = <<next>>
        PROVE  Pending' = next
    <3>1. todo' # << >> /\ Head(todo') = next
      BY <2>a, OneElement
    <3> QED
      BY <1>1, <2>4, <2>a, <3>1 DEF Pending
  <2>b. enabled' # {} /\ ~EraseProgVer' => Pending' = "none"
    BY DEF Pending
  <2>7. CASE OnBootInfo
    <3>1. cmd = "READ_BOOT_INFO"
      BY <2>5, <2>7 DEF OnBootInfo
    <3>2. console' = "connected" /\ enabled' # {} /\ UNCHANGED EraseProgVer
      BY <2>7 DEF OnBootInfo, SetButtons
    <3>3. ~EraseProgVer
      BY <2>3, <3>1 DEF SequenceInv
    <3> QED
      BY <2>6, <2>b, <3>1, <3>2, <3>3 DEF Session!Truth
  <2>8. CASE OnErased
    <3>1. cmd = "ERASE_FLASH"
      BY <2>5, <2>8 DEF OnErased
    <3>2. console' = "erased" /\ enabled' # {} /\ UNCHANGED EraseProgVer
      BY <2>2, <2>8, <3>1 DEF OnErased, SetButtons, Restorable
    <3>3. console' \in Session!Truth(cmd)
      BY <2>2, <3>1, <3>2 DEF Session!Truth
    <3>4. EraseProgVer => todo' = <<"PROGRAM_FLASH">>
      BY <1>1, <2>8, NextCall DEF OnErased
    <3>5. EraseProgVer => Session!GoOn
      BY <2>3, <2>a, <3>1, <3>2, <3>4 DEF Session!GoOn, Answered
    <3> QED
      BY <2>6, <2>b, <3>2, <3>3, <3>5
  <2>9. CASE OnProgrammed
    <3>1. cmd = "PROGRAM_FLASH"
      BY <2>5, <2>9 DEF OnProgrammed
    <3>2. console' = "programmed" /\ enabled' # {} /\ UNCHANGED EraseProgVer
      BY <2>2, <2>9, <3>1 DEF OnProgrammed, SetButtons, Restorable
    <3>3. console' \in Session!Truth(cmd)
      BY <2>2, <3>1, <3>2 DEF Session!Truth, Session!Whole
    <3>4. EraseProgVer => todo' = <<"READ_CRC">>
      BY <1>1, <2>9, NextCall DEF OnProgrammed
    <3>5. EraseProgVer => Session!GoOn
      BY <2>3, <2>a, <3>1, <3>2, <3>4 DEF Session!GoOn, Answered
    <3> QED
      BY <2>6, <2>b, <3>2, <3>3, <3>5
  <2>10. CASE OnVerified
    <3>1. cmd = "READ_CRC"
      BY <2>5, <2>10 DEF OnVerified
    <3>2. /\ console' = IF RxData.data = 1..HexFile THEN "verified"
                                                    ELSE "verification failed"
          /\ enabled' # {} /\ EraseProgVer' = FALSE
      BY <2>2, <2>10, <3>1 DEF OnVerified, SetButtons, Restorable
    <3>3. RxData.data = 1..HexFile <=> Session!Whole
      BY <2>2, <3>1 DEF Session!Whole
    <3>4. console' \in Session!Truth(cmd)
      BY <3>1, <3>2, <3>3 DEF Session!Truth
    <3>5. Pending' = "none"
      BY <2>b, <3>2
    <3>6. EraseProgVer => Session!GoOn
      BY <2>3, <3>1, <3>2, <3>5 DEF Session!GoOn
    <3>7. ~EraseProgVer => UNCHANGED EraseProgVer
      BY <3>2 DEF DialogTypes
    <3> QED
      BY <2>6, <3>4, <3>5, <3>6, <3>7
  <2>11. ~OnTransmitFailure
    <3>1. \A c : ~TakeNotice("failure", c)
      BY <2>5
    <3> QED
      BY <3>1, Zenon DEF OnTransmitFailure
  <2>12. OnBootInfo \/ OnErased \/ OnProgrammed \/ OnVerified
    <3>1. \A op : ~Call(op)
      BY <1>1 DEF Call
    <3>2. /\ \A c : ~CallSend(c)
          /\ ~CallShutdown /\ ~CallCreate /\ ~CallClose /\ ~CallOpen /\ ~CallLoad
      BY <3>1, Zenon DEF CallSend, CallShutdown, CallCreate, CallClose, CallOpen,
         CallLoad
    <3> QED
      BY <1>4, <2>11, <3>2, Zenon DEF Gui
  <2> QED
    BY <2>7, <2>8, <2>9, <2>10, <2>12
<1> QED
  BY <1>2, <1>3, <1>4 DEF PatientNext, DialogNext

\* Without a connection a failure ends in the disabled buttons it started in.
LEMMA AwayMoves ==
    ASSUME OneConnection, SoundLink, TypeOK, DialogTypes, Always, Away,
           PatientNext
    PROVE  SessionMoves
<1>1. BtlThread /\ enabled = {} /\ todo = << >> /\ LastSentCommand \in Answered
      /\ gui = "idle" /\ connects = 1 /\ HandsOff /\ ~EraseProgVer
  BY DEF Always, Away, HandsOff
<1>2. UNCHANGED <<BtlThread, HexFile, LastSentCommand, flash, enabled,
                  EraseProgVer, todo>>
  BY AwayStep DEF awayVars
<1>3. Pending \in Answered /\ UNCHANGED <<Pending, EraseProgVer, HexFile, flash>>
  BY <1>1, <1>2, InCommand
<1>4. CASE UNCHANGED dialogVars
  BY <1>3, <1>4 DEF dialogVars, SessionMoves, SameSession
<1>5. CASE Gui
  <2>1. console' = "no response"
    BY <1>5, AwayGui DEF OnTransmitFailure
  <2>2. Pending # "none"
    BY <1>3 DEF Answered
  <2> QED
    BY <1>1, <1>3, <2>1, <2>2 DEF SessionMoves, Session!SessionNext, Session!Fail
<1>6. ~User
  BY <1>1, UserWaits DEF PatientNext
<1> QED
  BY <1>4, <1>5, <1>6 DEF PatientNext, DialogNext

LEMMA SoundMoves ==
    ASSUME OneConnection, SoundLink, Sound, SequenceInv, ~crashed',
           [PatientNext]_allVars
    PROVE  SessionMoves
<1>0. TypeOK /\ DialogTypes /\ SessionInv /\ Always
  BY DEF Sound, SessionInv
<1>1. CASE UNCHANGED allVars
  BY <1>1 DEF allVars, vars, packetVars, hexVars, threadVars, deviceVars,
     dialogVars, SessionMoves, SameSession, Pending
<1>2. CASE PatientNext
  BY <1>0, <1>2, StartMoves, RestMoves, PlannedMoves, GuiSendingMoves,
     UnderwayMoves, WorkerSendingMoves, ToldMoves, AwayMoves DEF SessionInv
<1> QED
  BY <1>1, <1>2

\* One command after the other: what the sequence rests on needs no more.
LEMMA SequenceMoves ==
    ASSUME SequenceInv, SessionMoves
    PROVE  /\ SequenceInv'
           /\ EraseProgVer /\ ~EraseProgVer' => console' = "verified"
<1>1. CASE SameSession
  BY <1>1 DEF SameSession, SequenceInv
<1>2. CASE Session!Begin \/ Session!Load \/ Session!Fail
  <2>1. ~EraseProgVer
    BY <1>2 DEF Session!Begin, Session!Load, Session!Fail, SequenceInv
  <2>2. \/ EraseProgVer' = EraseProgVer
        \/ Pending' = "ERASE_FLASH" /\ EraseProgVer' = TRUE
    <3>1. CASE Session!Begin
      BY <3>1, Zenon DEF Session!Begin
    <3>2. CASE Session!Load \/ Session!Fail
      BY <3>2, Zenon DEF Session!Load, Session!Fail
    <3> QED
      BY <1>2, <3>1, <3>2
  <2> QED
    BY <2>1, <2>2 DEF SequenceInv
<1>a. CASE Session!Erase
  BY <1>a DEF Session!Erase, SequenceInv
<1>3. CASE Session!Program
  BY <1>3 DEF Session!Program, SequenceInv
<1>4. CASE Session!Succeed
  <2>1. UNCHANGED <<HexFile, flash>> /\ console' \in Session!Truth(Pending)
    BY <1>4 DEF Session!Succeed
  <2>2. CASE ~EraseProgVer
    BY <1>4, <2>2 DEF Session!Succeed, SequenceInv
  <2>3. CASE EraseProgVer
    <3>1. Session!GoOn
      BY <1>4, <2>3 DEF Session!Succeed
    <3>2. /\ Pending = "ERASE_FLASH" => flash = {}
          /\ Pending = "PROGRAM_FLASH" => 1..HexFile \subseteq flash
          /\ Pending = "READ_CRC" /\ 1..HexFile \subseteq flash
                => console' = "verified"
      BY <2>1 DEF Session!Truth, Session!Whole
    <3> QED
      BY <2>1, <2>3, <3>1, <3>2 DEF Session!GoOn, SequenceInv
  <2> QED
    BY <2>2, <2>3
<1> QED
  BY <1>1, <1>2, <1>a, <1>3, <1>4 DEF SessionMoves, Session!SessionNext

LEMMA SequenceAlways ==
    ASSUME OneConnection, SoundLink
    PROVE  PatientSpec => [](Sound /\ SequenceInv)
<1>1. DialogInit => SequenceInv
  BY DEF DialogInit, SequenceInv
<1>2. Sound /\ Sound' /\ SequenceInv /\ [PatientNext]_allVars => SequenceInv'
  <2>1. Sound' => ~crashed'
    BY DEF Sound, NullInv
  <2> QED
    BY <2>1, SoundMoves, SequenceMoves
<1> QED
  BY <1>1, <1>2, SoundAlways, PTL DEF PatientSpec

\* The dialog, the engine and the link together implement FlashSession: every
\* step of theirs is a step of one command at a time, or none.  Packets are
\* programmed in order and only on Program, Erase-Program-Verify is its three
\* commands in their order, and what is printed is true of the flash.
THEOREM SessionIsImplemented ==
    ASSUME OneConnection, SoundLink
    PROVE  PatientSpec => OneCommandAtATime
<1>1. DialogInit => Session!SessionInit
  BY DEF DialogInit, Init, Session!SessionInit, Pending, NoFile
<1>2. Sound /\ Sound' /\ SequenceInv /\ [PatientNext]_allVars
        => [Session!SessionNext]_(Session!sessionVars)
  <2>1. Sound' => ~crashed'
    BY DEF Sound, NullInv
  <2>2. SessionMoves => [Session!SessionNext]_(Session!sessionVars)
    BY DEF SessionMoves, SameSession, Session!sessionVars
  <2> QED
    BY <2>1, <2>2, SoundMoves
<1> QED
  BY <1>1, <1>2, SequenceAlways, PTL
     DEF PatientSpec, OneCommandAtATime, Session!SessionSpec

\* The sequence asks for its verification only when the flash holds the file
\* and nothing else: what an earlier, longer file left is erased, and every
\* packet is written, however many of them were sent again.
THEOREM SequenceWritesTheFile ==
    ASSUME OneConnection, SoundLink
    PROVE  PatientSpec => VerifyAfterProgram
<1> DEFINE Asks == EraseProgVer /\ CallSend("READ_CRC") => flash = 1..HexFile
<1>1. Sound /\ SequenceInv => [Asks]_allVars
  <2> SUFFICES ASSUME Sound, SequenceInv, EraseProgVer, CallSend("READ_CRC")
               PROVE  flash = 1..HexFile
    OBVIOUS
  <2>1. todo # << >> /\ Head(todo) = "READ_CRC"
    BY DEF CallSend, Call
  <2>2. Always /\ SessionInv
    BY DEF Sound, SessionInv
  <2>3. BtlThread
    BY <2>2 DEF Always, SessionInv, Start, Rest, Planned, GuiArming,
       GuiFraming, Underway, WorkerSending, Told, Command, Away, Polling,
       Running
  <2>4. Pending = "READ_CRC"
    BY <2>1, <2>3 DEF Pending
  <2> QED
    BY <2>4 DEF SequenceInv
<1> QED
  BY <1>1, SequenceAlways, PTL DEF VerifyAfterProgram

\* Erase-Program-Verify ends in no other way than verified: no failure, no
\* "Verification failed".
THEOREM SequenceOnlyVerifies ==
    ASSUME OneConnection, SoundLink
    PROVE  PatientSpec => SequenceEndsVerified
<1> DEFINE Ends == EraseProgVer /\ ~EraseProgVer' => console' = "verified"
<1>1. Sound /\ Sound' /\ SequenceInv /\ [PatientNext]_allVars => [Ends]_allVars
  <2>1. Sound' => ~crashed'
    BY DEF Sound, NullInv
  <2> QED
    BY <2>1, SoundMoves, SequenceMoves
<1> QED
  BY <1>1, SequenceAlways, PTL DEF PatientSpec, SequenceEndsVerified

\* The file that is open is one of those the user can choose.
Chosen == HexFile \in HexFiles \cup {NoFile}

LEMMA OpenFileIsChosen ==
    ASSUME OneConnection, SoundLink
    PROVE  PatientSpec => []Chosen
<1>1. DialogInit => Chosen
  BY DEF DialogInit, Init, Chosen
<1>2. Sound /\ Sound' /\ SequenceInv /\ Chosen /\ [PatientNext]_allVars
        => Chosen'
  <2>1. Sound' => ~crashed'
    BY DEF Sound, NullInv
  <2>2. SessionMoves => HexFile' \in HexFiles \cup {HexFile}
    BY DEF SessionMoves, SameSession, Session!SessionNext, Session!Begin,
       Session!Erase, Session!Program, Session!Succeed, Session!Fail,
       Session!Load
  <2> QED
    BY <2>1, <2>2, SoundMoves DEF Chosen
<1> QED
  BY <1>1, <1>2, SequenceAlways, PTL DEF PatientSpec

\* Whoever waits is told: while the buttons are off or the sequence is on,
\* the engine has tries left or a notification is queued.  Every file has a
\* record: of one without, Program sends nothing and leaves the buttons off.
THEOREM OutcomeAlwaysComes ==
    ASSUME OneConnection, SoundLink, 0 \notin HexFiles
    PROVE  PatientSpec => []OutcomeIsComing
<1>1. Sound /\ Chosen => OutcomeIsComing
  <2> SUFFICES ASSUME Sound, Chosen,
                      AtRest, ConnectionEstablished, HandsOff
               PROVE  posted # << >> \/ RetryCount > 0 \/ worker = "arm"
    BY DEF OutcomeIsComing, HandsOff
  <2>1. TypeOK /\ Always /\ HexFile # 0
    BY DEF Sound, SessionInv, Chosen, NoFile
  <2>2. ~Start /\ ~Rest /\ ~Away
    BY <2>1 DEF Start, Rest, Away, Always
  <2>3. ~Planned /\ ~GuiArming /\ ~GuiFraming
    BY OneElement DEF AtRest, Planned, GuiArming, GuiFraming
  <2>4. CASE Underway
    <3>1. faults \in 0..MaxFaults /\ MaxFaults \in Nat /\ RetryCount \in Nat
      BY <2>1, FaultAssumption DEF TypeOK
    <3>2. RetryCount >= TriesLeft /\ TriesLeft \in Int
      BY <3>1 DEF TriesLeft
    <3> QED
      BY <2>4, <3>1, <3>2 DEF Underway, Budget
  <2>5. CASE WorkerSending
    <3>1. Retries["PROGRAM_FLASH"] > 0
      BY FaultAssumption DEF SoundLink, Answered
    <3> QED
      BY <2>5, <3>1 DEF WorkerSending
  <2>6. CASE Told
    BY <2>6 DEF Told, Notified
  <2> QED
    BY <2>2, <2>3, <2>4, <2>5, <2>6 DEF Sound, SessionInv
<1> QED
  BY <1>1, SoundAlways, OpenFileIsChosen, PTL
=============================================================================
