------------------------------- MODULE Dialog -------------------------------
(***************************************************************************)
(* The dialog CPIC32UBLDlg (pic32ubldlg.cpp) on top of the engine.         *)
(*                                                                         *)
(* All of it runs in the GUI thread: a click or a queued notification is   *)
(* handled to the end before the next one is taken.  A handler is one      *)
(* action here, and the calls it then makes into the engine, which the     *)
(* worker can interleave with, are listed in todo and made one by one.     *)
(***************************************************************************)
EXTENDS BootLoader

CONSTANTS
    UserOps,     \* the buttons the user works with
    MaxClicks,   \* how often, "Connect" apart
    MaxConnects  \* how often the user clicks "Connect"

\* The buttons EnableAllButtons governs; "Connect" is always enabled.
Buttons == {"Program", "LoadHex", "Erase", "Verify", "RunApplication",
            "EraseProgVerify", "BootVer"}

ASSUME UserOpsAssumption == UserOps \subseteq Buttons
ASSUME ClicksAssumption == MaxClicks \in Nat /\ MaxConnects \in Nat

VARIABLES
    ConnectionEstablished,
    EraseProgVer,
    enabled,    \* the enabled buttons
    saved,      \* the static status word of ButtonStatus
    todo,       \* engine calls the running handler has still to make
    console,    \* the outcome printed last
    clicks,
    connects

dialogVars == <<ConnectionEstablished, EraseProgVer, enabled, saved, todo,
                console, clicks, connects>>
allVars == <<vars, dialogVars>>

Outcomes == {"none", "connected", "erased", "programmed", "verified",
             "verification failed", "no response"}

DialogInit ==
    /\ Init
    /\ ConnectionEstablished = FALSE
    /\ EraseProgVer = FALSE
    /\ enabled = {}
    /\ saved = {}
    /\ todo = << >>
    /\ console = "none"
    /\ clicks = 0
    /\ connects = 0

-----------------------------------------------------------------------------
(***************************************************************************)
(* Clicks.                                                                 *)
(***************************************************************************)

\* The GUI thread is back in its event loop.
AtRest == gui = "idle" /\ todo = << >>

Click(button) ==
    /\ AtRest
    /\ button \in UserOps \cap enabled
    /\ clicks < MaxClicks
    /\ clicks' = clicks + 1
    /\ UNCHANGED <<vars, console, connects>>

\* Mutant: the buttons stay enabled while the command runs.
ClickCommandUnguarded(button, cmd) ==
    /\ Click(button)
    /\ saved' = enabled
    /\ todo' = <<cmd>>
    /\ UNCHANGED <<ConnectionEstablished, enabled>>

\* Mutant: the buttons are disabled before they are saved.
ClickCommandSavesLate(button, cmd) ==
    /\ Click(button)
    /\ saved' = {}
    /\ enabled' = {}
    /\ todo' = <<cmd>>
    /\ UNCHANGED ConnectionEstablished

\* SaveButtonStatus, EnableAllButtons(false), then SendCommand.
ClickCommand(button, cmd) ==
    /\ Click(button)
    /\ saved' = enabled
    /\ enabled' = {}
    /\ todo' = <<cmd>>
    /\ UNCHANGED ConnectionEstablished

OnBnClickedButtonErase ==
    ClickCommand("Erase", "ERASE_FLASH") /\ UNCHANGED EraseProgVer

OnBnClickedButtonProgram ==
    ClickCommand("Program", "PROGRAM_FLASH") /\ UNCHANGED EraseProgVer

OnBnClickedButtonVerify ==
    ClickCommand("Verify", "READ_CRC") /\ UNCHANGED EraseProgVer

OnBnClickedButtonBootVer ==
    ClickCommand("BootVer", "READ_BOOT_INFO") /\ UNCHANGED EraseProgVer

OnBnClickedButtonEraseProgVerify ==
    ClickCommand("EraseProgVerify", "ERASE_FLASH") /\ EraseProgVer' = TRUE

\* Run Application leaves the buttons as they are.
OnBnClickedButtonRunapplication ==
    /\ Click("RunApplication")
    /\ todo' = <<"JMP_TO_APP">>
    /\ UNCHANGED <<ConnectionEstablished, EraseProgVer, enabled, saved>>

\* Load Hex saves the buttons and opens a modal file dialog.
OnBnClickedButtonLoadhex ==
    /\ Click("LoadHex")
    /\ saved' = enabled
    /\ todo' = <<"load">>
    /\ UNCHANGED <<ConnectionEstablished, EraseProgVer, enabled>>

ClickConnect ==
    /\ AtRest
    /\ connects < MaxConnects
    /\ connects' = connects + 1
    /\ UNCHANGED <<vars, console, clicks>>

\* Connect while connected: disconnect.
Disconnect ==
    /\ ClickConnect
    /\ ConnectionEstablished
    /\ ConnectionEstablished' = FALSE
    /\ enabled' = {}
    /\ todo' = <<"shutdown", "close">>
    /\ UNCHANGED <<EraseProgVer, saved>>

\* Connect while not connected: the port is closed if it was open, opened
\* afresh, and the rest depends on whether it opened.
Connect ==
    /\ ClickConnect
    /\ ~ConnectionEstablished
    /\ todo' = <<"close", "open">>
    /\ UNCHANGED <<ConnectionEstablished, EraseProgVer, enabled, saved>>

-----------------------------------------------------------------------------
(***************************************************************************)
(* The engine calls of a handler.                                          *)
(***************************************************************************)

\* The next call of the handler is op.
Call(op) ==
    /\ gui = "idle"
    /\ todo # << >>
    /\ Head(todo) = op

CallDone == todo' = Tail(todo)

CallSend(cmd) ==
    /\ Call(cmd)
    /\ Send(cmd)
    /\ CallDone
    /\ UNCHANGED <<ConnectionEstablished, EraseProgVer, enabled, saved,
                   console, clicks, connects>>

CallShutdown ==
    /\ Call("shutdown")
    /\ IF BtlThread THEN ShutdownBegins ELSE UNCHANGED vars
    /\ CallDone
    /\ UNCHANGED <<ConnectionEstablished, EraseProgVer, enabled, saved,
                   console, clicks, connects>>

\* CreateRxTxThread returns at once if there is a thread.
CallCreate ==
    /\ Call("create")
    /\ IF BtlThread THEN UNCHANGED vars ELSE CreateRxTxThread
    /\ CallDone
    /\ UNCHANGED <<ConnectionEstablished, EraseProgVer, enabled, saved,
                   console, clicks, connects>>

\* if(GetPortOpenStatus(PortSelected)) ClosePort(PortSelected)
CallClose ==
    /\ Call("close")
    /\ IF portOpen THEN ClosePort ELSE UNCHANGED vars
    /\ CallDone
    /\ UNCHANGED <<ConnectionEstablished, EraseProgVer, enabled, saved,
                   console, clicks, connects>>

\* The port opened: shut down the old worker, start one, ask for the boot
\* loader's version; the buttons are saved and disabled.
CallOpen ==
    /\ Call("open")
    /\ \/ /\ OpenPort(TRUE)
          /\ saved' = enabled
          /\ enabled' = {}
          /\ todo' = <<"shutdown", "create", "READ_BOOT_INFO">>
       \/ /\ OpenPort(FALSE)
          /\ CallDone
          /\ UNCHANGED <<enabled, saved>>
    /\ UNCHANGED <<ConnectionEstablished, EraseProgVer, console, clicks, connects>>

\* The file dialog closes: cancelled, or a file was chosen and opened, or it
\* could not be opened.
CallLoad ==
    /\ Call("load")
    /\ \/ \E file \in HexFiles :
             /\ LoadHexFile(file)
             /\ enabled' = IF file = NoFile THEN enabled
                           ELSE enabled \cup {"Program", "EraseProgVerify"}
       \/ UNCHANGED <<vars, enabled>>
    /\ CallDone
    /\ UNCHANGED <<ConnectionEstablished, EraseProgVer, saved, console,
                   clicks, connects>>

-----------------------------------------------------------------------------
(***************************************************************************)
(* Notifications.  The modal file dialog of Load Hex has an event loop of  *)
(* its own: they are delivered inside it as well.                          *)
(***************************************************************************)
TakeNotice(kind, cmd) ==
    /\ todo \in {<< >>, <<"load">>}
    /\ Deliver
    /\ Head(posted) = [kind |-> kind, cmd |-> cmd]
    /\ UNCHANGED <<saved, clicks, connects>>

\* Mutant: EnableAllButtons also takes the "Connect" button.
SetButtonsWithConnect(connected, set) ==
    enabled' = IF connected THEN set \cup {"Connect"} ELSE {}

\* Buttons set at the end of a handler: none if there is no connection.
SetButtons(connected, set) == enabled' = IF connected THEN set ELSE {}

\* Mutant: "Verify" is enabled before a file is loaded.
OnBootInfoEager ==
    /\ TakeNotice("response", "READ_BOOT_INFO")
    /\ ConnectionEstablished' = TRUE
    /\ SetButtons(TRUE, enabled \cup {"LoadHex", "Erase", "BootVer", "Verify"})
    /\ console' = "connected"
    /\ UNCHANGED <<EraseProgVer, todo>>

\* READ_BOOT_INFO: connected; three buttons are enabled.
OnBootInfo ==
    /\ TakeNotice("response", "READ_BOOT_INFO")
    /\ ConnectionEstablished' = TRUE
    /\ SetButtons(TRUE, enabled \cup {"LoadHex", "Erase", "BootVer"})
    /\ console' = "connected"
    /\ UNCHANGED <<EraseProgVer, todo>>

\* Mutant: Erase-Program-Verify stops after the erasure.
OnErasedStops ==
    /\ TakeNotice("response", "ERASE_FLASH")
    /\ SetButtons(ConnectionEstablished, saved)
    /\ console' = "erased"
    /\ UNCHANGED <<ConnectionEstablished, EraseProgVer, todo>>

\* ERASE_FLASH: Erase-Program-Verify goes on; the buttons are restored.
OnErased ==
    /\ TakeNotice("response", "ERASE_FLASH")
    /\ todo' = IF EraseProgVer THEN <<"PROGRAM_FLASH">> \o todo ELSE todo
    /\ SetButtons(ConnectionEstablished, saved)
    /\ console' = "erased"
    /\ UNCHANGED <<ConnectionEstablished, EraseProgVer>>

OnProgrammed ==
    /\ TakeNotice("response", "PROGRAM_FLASH")
    /\ todo' = IF EraseProgVer THEN <<"READ_CRC">> \o todo ELSE todo
    /\ SetButtons(ConnectionEstablished, saved \cup {"Verify", "RunApplication"})
    /\ console' = "programmed"
    /\ UNCHANGED <<ConnectionEstablished, EraseProgVer>>

\* Mutant: the two CRCs are not compared.
OnVerifiedUnchecked ==
    /\ TakeNotice("response", "READ_CRC")
    /\ console' = "verified"
    /\ EraseProgVer' = FALSE
    /\ SetButtons(ConnectionEstablished, saved \cup {"Verify", "RunApplication"})
    /\ UNCHANGED <<ConnectionEstablished, todo>>

\* READ_CRC: the CRC the device sent, read through the queued pointer into
\* RxData, against the one of the loaded file.
OnVerified ==
    /\ TakeNotice("response", "READ_CRC")
    /\ console' = IF RxData.data = 1..HexFile THEN "verified"
                                              ELSE "verification failed"
    /\ EraseProgVer' = FALSE
    /\ SetButtons(ConnectionEstablished, saved \cup {"Verify", "RunApplication"})
    /\ UNCHANGED <<ConnectionEstablished, todo>>

\* Mutant: the buttons are not restored.
OnTransmitFailureLocked ==
    /\ \E cmd \in Answered : TakeNotice("failure", cmd)
    /\ console' = "no response"
    /\ EraseProgVer' = FALSE
    /\ UNCHANGED <<ConnectionEstablished, enabled, todo>>

OnTransmitFailure ==
    /\ \E cmd \in Answered : TakeNotice("failure", cmd)
    /\ console' = "no response"
    /\ EraseProgVer' = FALSE
    /\ SetButtons(ConnectionEstablished, saved)
    /\ UNCHANGED <<ConnectionEstablished, todo>>

-----------------------------------------------------------------------------
User ==
    \/ OnBnClickedButtonErase
    \/ OnBnClickedButtonProgram
    \/ OnBnClickedButtonVerify
    \/ OnBnClickedButtonBootVer
    \/ OnBnClickedButtonEraseProgVerify
    \/ OnBnClickedButtonRunapplication
    \/ OnBnClickedButtonLoadhex
    \/ Disconnect
    \/ Connect

Gui ==
    \/ \E cmd \in Commands : CallSend(cmd)
    \/ CallShutdown
    \/ CallCreate
    \/ CallClose
    \/ CallOpen
    \/ CallLoad
    \/ OnBootInfo
    \/ OnErased
    \/ OnProgrammed
    \/ OnVerified
    \/ OnTransmitFailure

DialogNext ==
    \/ ~crashed /\ (User \/ Gui)
    \/ (Worker \/ GuiContinues \/ Environment) /\ UNCHANGED dialogVars

DialogSpec == DialogInit /\ [][DialogNext]_allVars

\* The threads run, the device takes what reaches it, time passes.  The user
\* need not click and nothing need be lost.
Fairness ==
    /\ WF_allVars(Worker /\ UNCHANGED dialogVars)
    /\ WF_allVars(GuiContinues /\ UNCHANGED dialogVars)
    /\ WF_allVars(~crashed /\ Gui)
    /\ WF_allVars(DeviceStep /\ UNCHANGED dialogVars)
    /\ WF_allVars(DelayElapses /\ UNCHANGED dialogVars)

LiveDialogSpec == DialogSpec /\ Fairness

\* A patient user lets Erase-Program-Verify come to its end: the handlers
\* restore the buttons after each of its three commands.
Patient == EraseProgVer => UNCHANGED clicks

PatientNext == DialogNext /\ Patient

PatientSpec == DialogInit /\ [][PatientNext]_allVars

LivePatientSpec == PatientSpec /\ Fairness

-----------------------------------------------------------------------------
(***************************************************************************)
(* Properties.                                                             *)
(***************************************************************************)
DialogTypeOK ==
    /\ TypeOK
    /\ ConnectionEstablished \in BOOLEAN
    /\ EraseProgVer \in BOOLEAN
    /\ enabled \subseteq Buttons
    /\ saved \subseteq Buttons
    /\ todo \in Seq(Commands \cup {"load", "shutdown", "create", "close",
                                   "open"})
    /\ console \in Outcomes
    /\ clicks \in 0..MaxClicks
    /\ connects \in 0..MaxConnects

Queued(kind, cmd) == \E i \in DOMAIN posted :
                        posted[i] = [kind |-> kind, cmd |-> cmd]

\* HandleResponse posts the answer to PROGRAM_FLASH to "notify main window
\* that programming operation completed" (bootloader.cpp:227): by then the
\* flash holds every packet of the file.
CompletionMeansWritten ==
    Queued("response", "PROGRAM_FLASH") => 1..HexFile \subseteq flash

\* The command that is being carried out: from the click, or from the start
\* of the worker, until the buttons are back; of Erase-Program-Verify, until
\* the handler of its answer calls for the next one.
Pending ==
    IF (enabled # {} /\ ~EraseProgVer) \/ ~BtlThread THEN "none"
    ELSE IF todo # << >> THEN Head(todo)
    ELSE LastSentCommand

Session == INSTANCE FlashSession WITH pending <- Pending,
                                      sequence <- EraseProgVer,
                                      outcome <- console,
                                      file <- HexFile, Files <- HexFiles

\* The dialog, the engine and the link, retries and their races included,
\* are one command after the other to the user: nothing but the command the
\* buttons are off for changes the flash, and "Verification successfull"
\* (pic32ubldlg.cpp:428) is printed if and only if the flash holds the file.
OneCommandAtATime == Session!SessionSpec

\* When the GUI is told of an answer the engine is done with the command: no
\* try left, nothing under way, no other outcome queued.
AnswerSettles ==
    posted # << >> /\ Head(posted).kind = "response" =>
        /\ Len(posted) = 1
        /\ RetryCount = 0
        /\ toDevice = << >>
        /\ toHost = << >>

\* The buttons that send commands are off while one is being carried out
\* ("Disable all buttons to avoid further operations", pic32ubldlg.cpp:512);
\* Run Application leaves them on by design.
ButtonsGuardCommand ==
    AtRest /\ enabled # {} =>
        /\ RetryCount = 0 \/ LastSentCommand = "JMP_TO_APP"
        /\ worker \notin {"arm", "frame"}

\* OnTransmitFailure "is invoked when there is no resonse from the device,
\* even after retries" (pic32ubldlg.cpp:445): no try is left by then.
FailureMeansExhausted ==
    [][Len(posted') > Len(posted) /\ Last(posted').kind = "failure"
       => RetryCount = 0]_allVars

\* A command that was answered is not also reported as unanswered
\* ("Retries exceeded. There is no reponse from the device.",
\* bootloader.cpp:163).
AnsweredMeansNoFailure ==
    \A c \in Answered : ~(Queued("response", c) /\ Queued("failure", c))

\* The answer a queued notification points to is still the one it is about.
PayloadFresh ==
    posted # << >> /\ Head(posted).kind = "response"
        => RxData.cmd = Head(posted).cmd

\* The two threads are never inside SendCommand together.
SendCommandExclusive == ~Overlap

\* Buttons are on only while there is a worker and a port ("Disable all
\* buttons, if disconnected.", pic32ubldlg.cpp:438).
ButtonsMeanConnected ==
    AtRest /\ enabled # {} => BtlThread /\ portOpen

\* A connection starts with READ_BOOT_INFO ("Trigger Read boot info
\* command", pic32ubldlg.cpp:171): until the device has answered, the worker
\* that Connect has created sends no packet of an earlier session.  No run
\* claims it: Connect creates the worker first, and TLC refutes it.
NewConnectionStartsClean ==
    [][/\ Transmit
       /\ ~ConnectionEstablished
       /\ todo \in {<< >>, <<"READ_BOOT_INFO">>}
       => TxPacket.cmd \in {"READ_BOOT_INFO", NoCommand}]_allVars

\* SendCommand rewinds the hex file unless the worker has cleared
\* ResetHexFilePtr (bootloader.cpp:453), and the worker clears it around a
\* call of its own: whatever was cut short before, programming on a click
\* starts, and with the first packet of the file.
ProgramStartsAtFirst ==
    [][CallSend("PROGRAM_FLASH") /\ HexFile > 0
       => gui' = "arm" /\ Buff'.arg = 1]_allVars

\* Nothing uses a NULL FILE*.
NoCrash == ~crashed

\* While connected, disabled buttons come back: every command ends in an
\* answer or in a failure, and either restores them.
ButtonsReturn ==
    (ConnectionEstablished /\ enabled = {})
        ~> (enabled # {} \/ ~ConnectionEstablished)

\* While the user has to wait there is something to wait for: a notification,
\* tries left, or the worker about to send the next packet.  No handler is cut
\* short between EnableAllButtons(false) and the restoring of the buttons
\* (pic32ubldlg.cpp:393), nor the sequence between two of its commands.
OutcomeIsComing ==
    AtRest /\ ConnectionEstablished /\ (enabled = {} \/ EraseProgVer) =>
        posted # << >> \/ RetryCount > 0 \/ worker = "arm"

\* A command with tries left is sooner or later reported, as answered or as
\* failed, unless the user clicks again.
CommandsAreReported ==
    (AtRest /\ BtlThread /\ RetryCount > 0 /\ LastSentCommand \in Answered)
        ~> (posted # << >> \/ ~AtRest)

\* Erase-Program-Verify: once started, "Rest is automatically handled by
\* state machine" (pic32ubldlg.cpp:516), up to the verification.
SequenceVerifies == EraseProgVer ~> (~EraseProgVer /\ console = "verified")

\* The sequence ends in no other way: neither in a failure, nor in the
\* verification of a flash that does not hold the file.
SequenceEndsVerified ==
    [][EraseProgVer /\ ~EraseProgVer' => console' = "verified"]_allVars

\* "Programming completed. Next operation is verification."
\* (pic32ubldlg.cpp:412): the sequence asks for its verification only when
\* the flash holds the file and nothing else.
VerifyAfterProgram ==
    [][EraseProgVer /\ CallSend("READ_CRC") => flash = 1..HexFile]_allVars
=============================================================================
