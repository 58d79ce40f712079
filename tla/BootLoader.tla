----------------------------- MODULE BootLoader -----------------------------
(***************************************************************************)
(* The transfer engine of the boot-loader host: class CBootLoader and its  *)
(* worker thread RxTxThread (bootloader.cpp, bootloader.h).                *)
(*                                                                         *)
(* Two threads share every field of the engine and there is no lock:       *)
(*   - the GUI thread calls SendCommand, ShutdownThread, CreateRxTxThread, *)
(*     OpenPort, ClosePort, LoadHexFile and CalculateFlashCRC;             *)
(*   - the worker loops over TransmitTask and ReceiveTask, and itself      *)
(*     calls SendCommand(PROGRAM_FLASH) when a programming packet was      *)
(*     answered.                                                           *)
(* A step is the code between two accesses to the shared fields that the   *)
(* other thread can tell apart: SendCommand takes three steps (enter, arm, *)
(* frame), RetryCount-- takes two (load, store).                           *)
(*                                                                         *)
(* The device and the link are external: they are modelled from what the   *)
(* engine sends, expects and retries.                                      *)
(***************************************************************************)
EXTENDS Integers, Sequences, FiniteSets, SequencesExt

CONSTANTS
    Retries,        \* tries the GUI grants to each command (JMP_TO_APP has 1)
    HexFiles,       \* what LoadHexFile may open: lengths in packets; NoFile
    GarbageRetries, \* what the uninitialised RetryCount may hold at start-up
    LinkBound,      \* packets (replies) under way; a full link drops a write
    FaultKinds,     \* which of "lose", "corrupt", "reset" happen
    MaxFaults,      \* how many of them
    Timely,         \* is TxRetryDelay longer than a round trip?
    ForcedKill      \* may a port call outlast the Sleep(1000) of a shutdown?

\* The commands that are answered, and those that exist (T_COMMANDS).
Answered == {"READ_BOOT_INFO", "ERASE_FLASH", "PROGRAM_FLASH", "READ_CRC"}
Commands == Answered \cup {"JMP_TO_APP"}

NoFile == -1   \* HexFilePtr == NULL: none opened, or the last fopen failed

ASSUME RetriesAssumption == /\ Retries \in [Commands -> Nat \ {0}]
                            /\ Retries["JMP_TO_APP"] = 1
ASSUME HexFilesAssumption == HexFiles \subseteq Nat \cup {NoFile}
ASSUME GarbageAssumption == GarbageRetries \subseteq Nat
ASSUME LinkBoundAssumption == LinkBound \in Nat \ {0}
ASSUME FaultAssumption == /\ FaultKinds \subseteq {"lose", "corrupt", "reset"}
                          /\ MaxFaults \in Nat
ASSUME TimingAssumption == Timely \in BOOLEAN /\ ForcedKill \in BOOLEAN

NoCommand == "NO_COMMAND"   \* a byte that is none of T_COMMANDS

(***************************************************************************)
(* What travels.  arg is the number of the hex packet for PROGRAM_FLASH,   *)
(* the length of the hex file for READ_CRC, 0 otherwise.  data is what the *)
(* flash holds of that file in an answer to READ_CRC, {} otherwise.        *)
(***************************************************************************)
Packet == [cmd : Commands \cup {NoCommand}, arg : Nat]
Reply == [cmd : Commands \cup {NoCommand}, data : SUBSET Nat]
Notice == [kind : {"response", "failure"}, cmd : Commands]

Cut == [cmd |-> NoCommand, arg |-> 0]     \* not a whole frame: no CRC, no EOT
Noise == [cmd |-> NoCommand, data |-> {}] \* bytes that form no valid frame

VARIABLES
    \* fields of CBootLoader, shared by both threads
    TxState,              \* FIRST_TRY or RE_TRY
    RetryCount,           \* tries left
    MaxRetry,             \* tries granted
    LastSentCommand,
    Buff,                 \* the file-scope buffer a command is built in
    TxPacket,             \* the framed packet; Cut while TxPacketLen is short
    RxData,               \* the last bytes received
    NoResponseFromDevice,
    ResetHexFilePtr,
    ExitThread,
    ThreadKilled,
    BtlThread,            \* is the thread handle non-NULL?
    \* CHexManager
    HexFile,              \* length of the open file, NoFile if none
    HexPos,               \* packets of it already read
    \* the two threads
    worker,               \* program counter of RxTxThread
    reg,                  \* its register: a loaded RetryCount, or Retries
    retryDue,             \* NextRetryTimeInMs < GetTickCount()
    gui,                  \* where the GUI thread is inside the engine
    guiCmd,               \* the command its SendCommand is about
    posted,               \* queued QMetaObject::invokeMethod calls
    crashed,              \* a NULL FILE* was used
    \* the port, the link and the device
    portOpen,
    toDevice,
    toHost,
    flash,                \* the hex packets the flash holds
    device,               \* "boot": in the boot loader, "app": elsewhere
    faults

retryVars == <<TxState, RetryCount, MaxRetry, retryDue, reg>>
packetVars == <<LastSentCommand, Buff, TxPacket>>
rxVars == <<RxData, NoResponseFromDevice, posted>>
hexVars == <<ResetHexFilePtr, HexFile, HexPos>>
threadVars == <<ExitThread, ThreadKilled, BtlThread>>
guiVars == <<gui, guiCmd>>
linkVars == <<toDevice, toHost>>
deviceVars == <<flash, device, faults>>

vars == <<retryVars, packetVars, rxVars, hexVars, threadVars, guiVars,
          worker, crashed, portOpen, linkVars, deviceVars>>

(***************************************************************************)
(* The constructor does not initialise RetryCount, MaxRetry, TxPacket and  *)
(* LastSentCommand, and the dialog is an object on main's stack.           *)
(***************************************************************************)
Init ==
    /\ TxState = "FIRST_TRY"
    /\ RetryCount \in GarbageRetries
    /\ MaxRetry \in GarbageRetries
    /\ LastSentCommand \in Commands \cup {NoCommand}
    /\ Buff = Cut
    /\ TxPacket = Cut
    /\ RxData = Noise
    /\ NoResponseFromDevice = FALSE
    /\ ResetHexFilePtr = TRUE
    /\ ExitThread = FALSE
    /\ ThreadKilled = FALSE
    /\ BtlThread = FALSE
    /\ HexFile = NoFile
    /\ HexPos = 0
    /\ worker = "none"
    /\ reg = 0
    /\ retryDue = TRUE
    /\ gui = "idle"
    /\ guiCmd = NoCommand
    /\ posted = << >>
    /\ crashed = FALSE
    /\ portOpen = FALSE
    /\ toDevice = << >>
    /\ toHost = << >>
    /\ flash = {}
    /\ device \in {"boot", "app"}
    /\ faults = 0

-----------------------------------------------------------------------------
(***************************************************************************)
(* The hex file, as SendCommand sees it.                                   *)
(***************************************************************************)

\* Mutant: the last record of the file is forgotten.
NoMoreRecordsEarly(pos) == pos + 1 >= HexFile

\* Mutant: the end of the file is noticed one packet late.
NoMoreRecordsLate(pos) == pos > HexFile

\* GetNextHexRecord returns 0: the end of the file, or not a hex line.
NoMoreRecords(pos) == pos >= HexFile

\* HexPos when SendCommand(PROGRAM_FLASH) starts to read.
ProgramFrom == IF ResetHexFilePtr THEN 0 ELSE HexPos

-----------------------------------------------------------------------------
(***************************************************************************)
(* SendCommand, whichever thread runs it.                                  *)
(***************************************************************************)

\* Both threads are inside SendCommand: they write the same two buffers.
Overlap == worker \in {"arm", "frame"} /\ gui \in {"arm", "frame"}

\* TxPacketLen = 0, LastSentCommand = cmd, then Buff is filled.
Enter(cmd, arg) ==
    /\ TxPacket' = Cut
    /\ LastSentCommand' = cmd
    /\ Buff' = [cmd |-> cmd, arg |-> arg]

\* SendCommand(PROGRAM_FLASH) finds no record: it returns false unframed.
EnterNoRecord ==
    /\ TxPacket' = Cut
    /\ LastSentCommand' = "PROGRAM_FLASH"
    /\ Buff' = Cut

\* MaxRetry = RetryCount = Retries
Arm(retries) ==
    /\ MaxRetry' = retries
    /\ RetryCount' = retries

\* The CRC is appended and Buff is copied, escaped, into TxPacket.
Frame ==
    /\ TxPacket' \in {Buff} \cup (IF Overlap THEN {Cut} ELSE {})
    /\ UNCHANGED <<LastSentCommand, Buff>>

-----------------------------------------------------------------------------
(***************************************************************************)
(* The worker: RxTxThread::run.                                            *)
(***************************************************************************)

\* while(ExitThread == false) fails; ThreadKilled = true.
WorkerExits ==
    /\ worker = "loop"
    /\ ExitThread
    /\ worker' = "done"
    /\ ThreadKilled' = TRUE
    /\ UNCHANGED <<retryVars, packetVars, rxVars, hexVars, ExitThread,
                   BtlThread, guiVars, portOpen, linkVars, deviceVars>>

\* WritePort: a closed port sends nothing, a full link drops the packet.
WritePort(p) ==
    toDevice' = IF portOpen /\ Len(toDevice) < LinkBound
                THEN Append(toDevice, p) ELSE toDevice

\* Mutant: the tries left are not looked at.
MayTransmitUnbounded == TxState = "FIRST_TRY" \/ retryDue

MayTransmit == RetryCount > 0 /\ (TxState = "FIRST_TRY" \/ retryDue)

\* TransmitTask writes the packet; the count is decremented afterwards.
Transmit ==
    /\ worker = "loop"
    /\ ~ExitThread
    /\ MayTransmit
    /\ WritePort(TxPacket)
    /\ worker' = "decrement"
    /\ UNCHANGED <<retryVars, packetVars, rxVars, hexVars, threadVars,
                   guiVars, portOpen, toHost, deviceVars>>

\* TransmitTask has nothing to send, or the retry is not due yet.
TransmitNothing ==
    /\ worker = "loop"
    /\ ~ExitThread
    /\ ~MayTransmit
    /\ TxState = "FIRST_TRY" \/ RetryCount > 0
    /\ worker' = "receive"
    /\ UNCHANGED <<retryVars, packetVars, rxVars, hexVars, threadVars,
                   guiVars, portOpen, linkVars, deviceVars>>

\* Mutant: the last try is given up.
RetriesExceededEarly ==
    /\ worker = "loop"
    /\ ~ExitThread
    /\ TxState = "RE_TRY"
    /\ RetryCount <= 1
    /\ NoResponseFromDevice' = TRUE
    /\ TxState' = "FIRST_TRY"
    /\ worker' = "receive"
    /\ UNCHANGED <<RetryCount, MaxRetry, retryDue, reg, packetVars, RxData,
                   posted, hexVars, threadVars, guiVars, portOpen, linkVars,
                   deviceVars>>

\* TransmitTask, RE_TRY with no try left: declared without a further delay.
RetriesExceeded ==
    /\ worker = "loop"
    /\ ~ExitThread
    /\ TxState = "RE_TRY"
    /\ RetryCount = 0
    /\ NoResponseFromDevice' = TRUE
    /\ TxState' = "FIRST_TRY"
    /\ worker' = "receive"
    /\ UNCHANGED <<RetryCount, MaxRetry, retryDue, reg, packetVars, RxData,
                   posted, hexVars, threadVars, guiVars, portOpen, linkVars,
                   deviceVars>>

\* RetryCount--, first half.
LoadRetryCount ==
    /\ worker = "decrement"
    /\ reg' = RetryCount
    /\ worker' = "store"
    /\ UNCHANGED <<TxState, RetryCount, MaxRetry, retryDue, packetVars,
                   rxVars, hexVars, threadVars, guiVars, portOpen, linkVars,
                   deviceVars>>

\* RetryCount--, second half, on an unsigned short; the retry is scheduled.
StoreRetryCount ==
    /\ worker = "store"
    /\ RetryCount' = (reg - 1) % 65536
    /\ TxState' = "RE_TRY"
    /\ retryDue' = FALSE
    /\ worker' = "receive"
    /\ UNCHANGED <<MaxRetry, reg, packetVars, rxVars, hexVars, threadVars,
                   guiVars, portOpen, linkVars, deviceVars>>

(***************************************************************************)
(* ReceiveTask.  ReadPort returns the first n replies of the link in one   *)
(* chunk; BuildRxFrame stops at the first valid frame of the chunk and the *)
(* rest of the chunk is forgotten.                                         *)
(***************************************************************************)
ReadPort(n) ==
    /\ n \in 0..Len(toHost)
    /\ n = 0 <=> (toHost = << >> \/ ~portOpen)
    /\ toHost' = SubSeq(toHost, n + 1, Len(toHost))

ValidAt(i) == toHost[i].cmd # NoCommand

\* The frame BuildRxFrame finds in a chunk of n replies is the i-th.
FirstFrame(i, n) ==
    /\ i \in 1..n
    /\ ValidAt(i)
    /\ \A j \in 1..(i - 1) : ~ValidAt(j)

Post(kind, cmd) == posted' = Append(posted, [kind |-> kind, cmd |-> cmd])

\* Mutant: READ_BOOT_INFO is missing from the switch.
HandleNoResponseIncomplete ==
    IF LastSentCommand \in Answered \ {"READ_BOOT_INFO"}
    THEN Post("failure", LastSentCommand)
    ELSE UNCHANGED posted

\* HandleNoResponse: nothing is said of a command that is never answered.
HandleNoResponse ==
    IF LastSentCommand \in Answered THEN Post("failure", LastSentCommand)
                                    ELSE UNCHANGED posted

\* ReceiveTask without a valid frame.
ReceiveNothing ==
    /\ worker = "receive"
    /\ \E n \in 0..LinkBound :
          /\ ReadPort(n)
          /\ \A i \in 1..n : ~ValidAt(i)
          /\ RxData' = IF n = 0 THEN RxData ELSE Noise
    /\ IF NoResponseFromDevice THEN HandleNoResponse ELSE UNCHANGED posted
    /\ NoResponseFromDevice' = FALSE
    /\ worker' = "loop"
    /\ UNCHANGED <<retryVars, packetVars, hexVars, threadVars, guiVars,
                   portOpen, toDevice, deviceVars>>

\* Mutant: the tries left are kept.
StopTxRetriesKeepsCount ==
    /\ TxState' = "FIRST_TRY"
    /\ UNCHANGED RetryCount

\* Mutant: the state stays RE_TRY.
StopTxRetriesKeepsState ==
    /\ UNCHANGED TxState
    /\ RetryCount' = 0

\* StopTxRetries
StopTxRetries ==
    /\ TxState' = "FIRST_TRY"
    /\ RetryCount' = 0

\* ReceiveTask with a valid frame: it goes to RxData and the retries stop,
\* whatever command it answers.
ReceiveFrame ==
    /\ worker = "receive"
    /\ \E n \in 1..LinkBound :
          /\ ReadPort(n)
          /\ \E i \in 1..n : FirstFrame(i, n) /\ RxData' = toHost[i]
    /\ StopTxRetries
    /\ UNCHANGED NoResponseFromDevice

\* HandleResponse for READ_BOOT_INFO, ERASE_FLASH, READ_CRC.
ReceiveResponse ==
    /\ ReceiveFrame
    /\ RxData'.cmd \in Answered \ {"PROGRAM_FLASH"}
    /\ Post("response", RxData'.cmd)
    /\ worker' = "loop"
    /\ UNCHANGED <<MaxRetry, retryDue, reg, packetVars, hexVars, threadVars,
                   guiVars, portOpen, toDevice, deviceVars>>

\* HandleResponse for PROGRAM_FLASH: send the next packet of the file.
\* ResetHexFilePtr is false from here to the end of SendCommand.
ReceiveProgramNext ==
    /\ ReceiveFrame
    /\ RxData'.cmd = "PROGRAM_FLASH"
    /\ HexFile # NoFile
    /\ ~NoMoreRecords(HexPos)
    /\ Enter("PROGRAM_FLASH", HexPos + 1)
    /\ HexPos' = HexPos + 1
    /\ ResetHexFilePtr' = FALSE
    /\ reg' = MaxRetry
    /\ worker' = "arm"
    /\ UNCHANGED <<MaxRetry, retryDue, posted, HexFile, threadVars, guiVars,
                   portOpen, toDevice, deviceVars>>

\* Mutant: HandleResponse returns before it restores ResetHexFilePtr.
ReceiveProgramDoneUnrestored ==
    /\ ReceiveFrame
    /\ RxData'.cmd = "PROGRAM_FLASH"
    /\ HexFile # NoFile
    /\ NoMoreRecords(HexPos)
    /\ EnterNoRecord
    /\ ResetHexFilePtr' = FALSE
    /\ Post("response", "PROGRAM_FLASH")
    /\ worker' = "loop"
    /\ UNCHANGED <<MaxRetry, retryDue, reg, HexFile, HexPos, threadVars,
                   guiVars, portOpen, toDevice, deviceVars>>

\* HandleResponse for PROGRAM_FLASH when SendCommand returns false.
ReceiveProgramDone ==
    /\ ReceiveFrame
    /\ RxData'.cmd = "PROGRAM_FLASH"
    /\ HexFile # NoFile
    /\ NoMoreRecords(HexPos)
    /\ EnterNoRecord
    /\ ResetHexFilePtr' = TRUE
    /\ Post("response", "PROGRAM_FLASH")
    /\ worker' = "loop"
    /\ UNCHANGED <<MaxRetry, retryDue, reg, HexFile, HexPos, threadVars,
                   guiVars, portOpen, toDevice, deviceVars>>

\* GetNextHexRecord calls feof(NULL): the last fopen failed.
ReceiveProgramCrash ==
    /\ ReceiveFrame
    /\ RxData'.cmd = "PROGRAM_FLASH"
    /\ HexFile = NoFile
    /\ crashed' = TRUE
    /\ UNCHANGED <<MaxRetry, retryDue, reg, packetVars, posted, hexVars,
                   threadVars, guiVars, worker, portOpen, toDevice,
                   deviceVars>>

\* The worker's SendCommand, with Retries = the MaxRetry it read.
WorkerArms ==
    /\ worker = "arm"
    /\ Arm(reg)
    /\ worker' = "frame"
    /\ UNCHANGED <<TxState, retryDue, reg, packetVars, rxVars, hexVars,
                   threadVars, guiVars, portOpen, linkVars, deviceVars>>

WorkerFrames ==
    /\ worker = "frame"
    /\ Frame
    /\ ResetHexFilePtr' = TRUE
    /\ worker' = "loop"
    /\ UNCHANGED <<retryVars, rxVars, HexFile, HexPos, threadVars, guiVars,
                   portOpen, linkVars, deviceVars>>

Worker ==
    /\ ~crashed
    /\ \/ /\ \/ WorkerExits
             \/ Transmit
             \/ TransmitNothing
             \/ RetriesExceeded
             \/ LoadRetryCount
             \/ StoreRetryCount
             \/ ReceiveNothing
             \/ ReceiveResponse
             \/ ReceiveProgramNext
             \/ ReceiveProgramDone
             \/ WorkerArms
             \/ WorkerFrames
          /\ UNCHANGED crashed
       \/ ReceiveProgramCrash

-----------------------------------------------------------------------------
(***************************************************************************)
(* The GUI thread's calls.                                                 *)
(***************************************************************************)

\* SendCommand up to the point where the tries are armed.
SendCommand(cmd, arg) ==
    /\ gui = "idle"
    /\ Enter(cmd, arg)
    /\ guiCmd' = cmd
    /\ gui' = "arm"
    /\ UNCHANGED <<retryVars, rxVars, ResetHexFilePtr, HexFile, threadVars,
                   worker, portOpen, linkVars, deviceVars>>

SendSimple(cmd) ==
    /\ cmd \in {"READ_BOOT_INFO", "ERASE_FLASH", "JMP_TO_APP"}
    /\ SendCommand(cmd, 0)
    /\ UNCHANGED <<HexPos, crashed>>

SendProgram ==
    /\ HexFile # NoFile
    /\ ~NoMoreRecords(ProgramFrom)
    /\ SendCommand("PROGRAM_FLASH", ProgramFrom + 1)
    /\ HexPos' = ProgramFrom + 1
    /\ UNCHANGED crashed

\* SendCommand(PROGRAM_FLASH) returns false: no file, or no record in it.
SendProgramFails ==
    /\ gui = "idle"
    /\ IF HexFile = NoFile THEN ResetHexFilePtr
                           ELSE NoMoreRecords(ProgramFrom)
    /\ EnterNoRecord
    /\ HexPos' = IF HexFile = NoFile THEN HexPos ELSE ProgramFrom
    /\ UNCHANGED <<retryVars, rxVars, ResetHexFilePtr, HexFile, threadVars,
                   guiVars, worker, crashed, portOpen, linkVars, deviceVars>>

\* READ_CRC: VerifyFlash reads the whole file and leaves it at its end.
SendReadCrc ==
    /\ HexFile # NoFile
    /\ SendCommand("READ_CRC", HexFile)
    /\ HexPos' = HexFile
    /\ UNCHANGED crashed

\* VerifyFlash calls fseek(NULL); or PROGRAM_FLASH calls feof(NULL) because
\* the worker has cleared ResetHexFilePtr.
SendCrashes(cmd) ==
    /\ gui = "idle"
    /\ HexFile = NoFile
    /\ \/ cmd = "READ_CRC"
       \/ cmd = "PROGRAM_FLASH" /\ ~ResetHexFilePtr
    /\ crashed' = TRUE
    /\ UNCHANGED <<retryVars, packetVars, rxVars, hexVars, threadVars,
                   guiVars, worker, portOpen, linkVars, deviceVars>>

Send(cmd) ==
    \/ SendSimple(cmd)
    \/ cmd = "PROGRAM_FLASH" /\ (SendProgram \/ SendProgramFails)
    \/ cmd = "READ_CRC" /\ SendReadCrc
    \/ SendCrashes(cmd)

GuiArms ==
    /\ gui = "arm"
    /\ Arm(Retries[guiCmd])
    /\ gui' = "frame"
    /\ UNCHANGED <<TxState, retryDue, reg, packetVars, rxVars, hexVars,
                   threadVars, guiCmd, worker, crashed, portOpen, linkVars,
                   deviceVars>>

GuiFrames ==
    /\ gui = "frame"
    /\ Frame
    /\ gui' = "idle"
    /\ guiCmd' = NoCommand
    /\ UNCHANGED <<retryVars, rxVars, hexVars, threadVars, worker, crashed,
                   portOpen, linkVars, deviceVars>>

\* ShutdownThread up to its Sleep(1000).
ShutdownBegins ==
    /\ gui = "idle"
    /\ BtlThread
    /\ ExitThread' = TRUE
    /\ ThreadKilled' = FALSE
    /\ gui' = "sleep"
    /\ UNCHANGED <<retryVars, packetVars, rxVars, hexVars, BtlThread, guiCmd,
                   worker, crashed, portOpen, linkVars, deviceVars>>

\* After the sleep: a worker that has not ended is terminated where it is.
ShutdownEnds ==
    /\ gui = "sleep"
    /\ ThreadKilled \/ ForcedKill
    /\ worker' = "none"
    /\ BtlThread' = FALSE
    /\ gui' = "idle"
    /\ UNCHANGED <<retryVars, packetVars, rxVars, hexVars, ExitThread,
                   ThreadKilled, guiCmd, crashed, portOpen, linkVars,
                   deviceVars>>

CreateRxTxThread ==
    /\ gui = "idle"
    /\ ~BtlThread
    /\ ExitThread' = FALSE
    /\ BtlThread' = TRUE
    /\ worker' = "loop"
    /\ UNCHANGED <<retryVars, packetVars, rxVars, hexVars, ThreadKilled,
                   guiVars, crashed, portOpen, linkVars, deviceVars>>

\* OpenPort; whether it succeeded is seen through GetPortOpenStatus.
OpenPort(ok) ==
    /\ gui = "idle"
    /\ ~portOpen
    /\ portOpen' = ok
    /\ toHost' = << >>
    /\ UNCHANGED <<retryVars, packetVars, rxVars, hexVars, threadVars,
                   guiVars, worker, crashed, toDevice, deviceVars>>

ClosePort ==
    /\ gui = "idle"
    /\ portOpen
    /\ portOpen' = FALSE
    /\ toHost' = << >>
    /\ UNCHANGED <<retryVars, packetVars, rxVars, hexVars, threadVars,
                   guiVars, worker, crashed, toDevice, deviceVars>>

\* Mutant: the position is taken from a file that was not opened.
LoadHexFileUnchecked(file) ==
    /\ gui = "idle"
    /\ HexFile' = file
    /\ HexPos' = file
    /\ UNCHANGED <<retryVars, packetVars, rxVars, ResetHexFilePtr, threadVars,
                   guiVars, worker, crashed, portOpen, linkVars, deviceVars>>

\* LoadHexFile counts the lines of the new file and stays at its end; a file
\* that cannot be opened leaves HexFilePtr NULL.
LoadHexFile(file) ==
    /\ gui = "idle"
    /\ HexFile' = file
    /\ HexPos' = IF file = NoFile THEN 0 ELSE file
    /\ UNCHANGED <<retryVars, packetVars, rxVars, ResetHexFilePtr, threadVars,
                   guiVars, worker, crashed, portOpen, linkVars, deviceVars>>

\* The GUI takes the next notification; on a READ_CRC answer it calls
\* CalculateFlashCRC, which moves the shared file pointer to the end.
Deliver ==
    /\ gui = "idle"
    /\ posted # << >>
    /\ posted' = Tail(posted)
    /\ LET reads == Head(posted) = [kind |-> "response", cmd |-> "READ_CRC"]
       IN  /\ crashed' = (reads /\ HexFile = NoFile)
           /\ HexPos' = IF reads /\ HexFile # NoFile THEN HexFile ELSE HexPos
    /\ UNCHANGED <<retryVars, packetVars, RxData, NoResponseFromDevice,
                   ResetHexFilePtr, HexFile, threadVars, guiVars, worker,
                   portOpen, linkVars, deviceVars>>

\* What the GUI thread does between two of its calls.
GuiContinues == ~crashed /\ (GuiArms \/ GuiFrames \/ ShutdownEnds)

\* Any client of the engine.
Client ==
    /\ ~crashed
    /\ \/ \E cmd \in Commands : Send(cmd)
       \/ ShutdownBegins
       \/ CreateRxTxThread
       \/ \E ok \in BOOLEAN : OpenPort(ok)
       \/ ClosePort
       \/ \E file \in HexFiles : LoadHexFile(file)
       \/ Deliver

-----------------------------------------------------------------------------
(***************************************************************************)
(* The link, the device and time: external.                                *)
(***************************************************************************)
programVars == <<retryVars, packetVars, rxVars, hexVars, threadVars, guiVars,
                 worker, crashed, portOpen>>

\* What the device says to packet p when its flash holds f afterwards.
Answer(p, f) ==
    [cmd |-> p.cmd,
     data |-> IF p.cmd = "READ_CRC" THEN f \cap 1..p.arg ELSE {}]

\* The flash after packet p.
Flashed(p) ==
    CASE p.cmd = "ERASE_FLASH" -> {}
      [] p.cmd = "PROGRAM_FLASH" -> flash \cup {p.arg}
      [] OTHER -> flash

\* The device takes a packet; it answers unless it is told to run the
\* application, is running it, or cannot make out the frame.
DeviceStep ==
    /\ toDevice # << >>
    /\ toDevice' = Tail(toDevice)
    /\ LET p == Head(toDevice)
           heard == device = "boot" /\ p # Cut
       IN  /\ flash' = IF heard THEN Flashed(p) ELSE flash
           /\ device' = IF heard /\ p.cmd = "JMP_TO_APP" THEN "app" ELSE device
           /\ toHost' = IF /\ heard
                           /\ p.cmd \in Answered
                           /\ portOpen
                           /\ Len(toHost) < LinkBound
                        THEN Append(toHost, Answer(p, Flashed(p)))
                        ELSE toHost
    /\ UNCHANGED <<programVars, faults>>

Fault(kind) ==
    /\ kind \in FaultKinds
    /\ faults < MaxFaults
    /\ faults' = faults + 1

LosePacket ==
    /\ Fault("lose")
    /\ toDevice # << >>
    /\ toDevice' = Tail(toDevice)
    /\ UNCHANGED <<programVars, toHost, flash, device>>

LoseReply ==
    /\ Fault("lose")
    /\ toHost # << >>
    /\ toHost' = Tail(toHost)
    /\ UNCHANGED <<programVars, toDevice, flash, device>>

CorruptReply ==
    /\ Fault("corrupt")
    /\ toHost # << >>
    /\ toHost' = <<Noise>> \o Tail(toHost)
    /\ UNCHANGED <<programVars, toDevice, flash, device>>

\* The user resets the device into its boot loader.
DeviceReset ==
    /\ Fault("reset")
    /\ device = "app"
    /\ device' = "boot"
    /\ UNCHANGED <<programVars, linkVars, flash>>

\* TxRetryDelay (200 ms to 5 s) has elapsed since the last transmission.  If
\* it is Timely, the link has gone quiet by then, and the few lines of
\* SendCommand the GUI thread may be in are over.
DelayElapses ==
    /\ TxState = "RE_TRY"
    /\ ~retryDue
    /\ Timely => /\ toDevice = << >>
                 /\ toHost = << >>
                 /\ gui \notin {"arm", "frame"}
    /\ retryDue' = TRUE
    /\ UNCHANGED <<TxState, RetryCount, MaxRetry, reg, packetVars, rxVars,
                   hexVars, threadVars, guiVars, worker, crashed, portOpen,
                   linkVars, deviceVars>>

Environment ==
    \/ DeviceStep
    \/ LosePacket
    \/ LoseReply
    \/ CorruptReply
    \/ DeviceReset
    \/ DelayElapses

-----------------------------------------------------------------------------
Next == Worker \/ GuiContinues \/ Client \/ Environment

Spec == Init /\ [][Next]_vars

-----------------------------------------------------------------------------
(***************************************************************************)
(* Properties.                                                             *)
(***************************************************************************)

Sizes == /\ Len(toDevice) <= LinkBound
         /\ Len(toHost) <= LinkBound

\* Every field holds a value of its C++ type, and the counters are the
\* unsigned shorts of bootloader.h.
TypeOK ==
    /\ TxState \in {"FIRST_TRY", "RE_TRY"}
    /\ RetryCount \in Nat
    /\ MaxRetry \in Nat
    /\ LastSentCommand \in Commands \cup {NoCommand}
    /\ Buff \in Packet
    /\ TxPacket \in Packet
    /\ RxData \in Reply
    /\ NoResponseFromDevice \in BOOLEAN
    /\ ResetHexFilePtr \in BOOLEAN
    /\ ExitThread \in BOOLEAN
    /\ ThreadKilled \in BOOLEAN
    /\ BtlThread \in BOOLEAN
    /\ HexFile \in Nat \cup {NoFile}
    /\ HexPos \in Nat
    /\ worker \in {"none", "loop", "decrement", "store", "receive", "arm",
                   "frame", "done"}
    /\ reg \in Nat
    /\ retryDue \in BOOLEAN
    /\ gui \in {"idle", "arm", "frame", "sleep"}
    /\ guiCmd \in Commands \cup {NoCommand}
    /\ posted \in Seq(Notice)
    /\ crashed \in BOOLEAN
    /\ portOpen \in BOOLEAN
    /\ toDevice \in Seq(Packet)
    /\ toHost \in Seq(Reply)
    /\ flash \in SUBSET Nat
    /\ device \in {"boot", "app"}
    /\ faults \in 0..MaxFaults
    /\ Sizes

\* bootloader.cpp:355 and 372 decrement an unsigned short that the GUI may
\* write between the test and the decrement; from 0 it would wrap to 65535
\* tries.  It never does: the count is positive whenever it is loaded.
NoRetryUnderflow ==
    /\ worker = "decrement" => RetryCount > 0
    /\ worker = "store" => reg > 0

\* The worker clears ResetHexFilePtr around its own SendCommand
\* (bootloader.cpp:224-230), and Program relies on the flag to start with the
\* first packet.  Whatever the GUI thread calls meanwhile, shutting the
\* worker down included, the flag is cleared only while the worker is there
\* to set it again, provided no worker is terminated in the middle.
WorkerOwnsResetFlag ==
    ~ForcedKill /\ ~ResetHexFilePtr => worker \in {"arm", "frame"}

-----------------------------------------------------------------------------
(***************************************************************************)
(* The file in the engine is the one module HexManager implements.         *)
(***************************************************************************)
FileView == INSTANCE PacketFile WITH
    packets <- IF HexFile = NoFile THEN 0 ELSE HexFile,
    taken   <- HexPos

\* The engine asks of its file what PacketFile allows and no more: a
\* PROGRAM_FLASH of either thread takes the first packet or the one after the
\* last, VerifyFlash reads to the end, and no call goes beyond it
\* (bootloader.cpp:464, hex.cpp:202), in whatever order the threads make them.
\* A packet is read in one step here.
EngineTakesPackets == FileView!FileSpec
=============================================================================
