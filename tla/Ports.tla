-------------------------------- MODULE Ports --------------------------------
(***************************************************************************)
(* The three ports (comport.cpp, usbhid.cpp, ethernet.cpp), the engine's   *)
(* choice between them (OpenPort, ClosePort, GetPortOpenStatus, ReadPort   *)
(* and WritePort of bootloader.cpp), and the parts of the dialog that      *)
(* choose, open and close them: the check boxes and Connect.               *)
(*                                                                         *)
(* A port object holds a file descriptor; descriptors are the resource     *)
(* they share with each other and with the hex file, and one that was      *)
(* closed may be given away again, to any of them.                         *)
(***************************************************************************)
EXTENDS Integers, FiniteSets

CONSTANTS
    MaxFd,       \* bound: descriptors of the process
    MaxConnects  \* bound: clicks on Connect

ASSUME FdAssumption == MaxFd \in Nat \ {0}
ASSUME ConnectsAssumption == MaxConnects \in Nat

Port == {"COM", "USB", "ETH"}
Fd == 1..MaxFd
Invalid == 0  \* NULL and INVALID_SOCKET

VARIABLES
    PortSelected,     \* of the engine
    chosen,           \* PortSelected of the dialog
    handle,           \* serialPort, hidDevice, SendSocket
    owner,            \* what a descriptor is open for
    hexFile,          \* descriptor of HexFilePtr
    ConnectionEstablished,
    answered,         \* an answer to READ_BOOT_INFO is queued for the GUI
    worker,
    gui,
    connects

vars == <<PortSelected, chosen, handle, owner, hexFile, ConnectionEstablished,
          answered, worker, gui, connects>>

Init ==
    /\ PortSelected \in Port  \* never initialised
    /\ chosen = "COM"
    /\ handle = [p \in Port |-> Invalid]
    /\ owner = [fd \in Fd |-> "none"]
    /\ hexFile = Invalid
    /\ ConnectionEstablished = FALSE
    /\ answered = FALSE
    /\ worker = "none"
    /\ gui = "idle"
    /\ connects = 0

-----------------------------------------------------------------------------
(***************************************************************************)
(* Descriptors, external.                                                  *)
(***************************************************************************)
Free == {fd \in Fd : owner[fd] = "none"}

\* The owners once fd is closed, whatever fd is now; closing what is closed
\* already has no effect.
Closed(fd) == [d \in Fd |-> IF d = fd THEN "none" ELSE owner[d]]

-----------------------------------------------------------------------------
(***************************************************************************)
(* The ports.                                                              *)
(***************************************************************************)

\* GetPortOpenStatus: of each port, whether there is a handle.
GetPortOpenStatus(p) == handle[p] # Invalid

\* Mutant: a failure is not told from a handle.
OpenFailsUnnoticed(p) ==
    /\ handle' = [handle EXCEPT ![p] = -1]
    /\ UNCHANGED owner

\* hid_open returns NULL, socket INVALID_SOCKET, Open throws.
OpenFails(p) ==
    /\ handle' = [handle EXCEPT ![p] = Invalid]
    /\ UNCHANGED owner

\* OpenComPort, OpenUSBDevice, OpenUdpPort: the handle is overwritten.
\* OpenComPort closes what it finds; Connect has left nothing to it.
OpenPort(p) ==
    \/ \E fd \in Free : /\ owner' = [owner EXCEPT ![fd] = p]
                        /\ handle' = [handle EXCEPT ![p] = fd]
    \/ OpenFails(p)

\* CloseComPort and ClosePort set the pointer to NULL; CloseUdpPort leaves
\* SendSocket as it is.
ClosePort(p) ==
    /\ owner' = Closed(handle[p])
    /\ handle' = IF p = "ETH" THEN handle
                              ELSE [handle EXCEPT ![p] = Invalid]

-----------------------------------------------------------------------------
(***************************************************************************)
(* The worker: ReadPort and WritePort on the port the engine selected.     *)
(***************************************************************************)
WorkerCalls ==
    /\ worker = "loop"
    /\ handle[PortSelected] # Invalid
    /\ worker' = "call"
    /\ UNCHANGED <<PortSelected, chosen, handle, owner, hexFile,
                   ConnectionEstablished, answered, gui, connects>>

\* With an answer to READ_BOOT_INFO, or without.
WorkerReturns ==
    /\ worker = "call"
    /\ worker' = "loop"
    /\ answered' \in {answered, TRUE}
    /\ UNCHANGED <<PortSelected, chosen, handle, owner, hexFile,
                   ConnectionEstablished, gui, connects>>

-----------------------------------------------------------------------------
(***************************************************************************)
(* The dialog.                                                             *)
(***************************************************************************)

\* OnBnClickedCheckComEnable and the two others: at any time.
ClickCheckBox ==
    /\ gui = "idle"
    /\ chosen' \in Port
    /\ UNCHANGED <<PortSelected, handle, owner, hexFile, ConnectionEstablished,
                   answered, worker, gui, connects>>

OnBootInfo ==
    /\ gui = "idle"
    /\ answered
    /\ answered' = FALSE
    /\ ConnectionEstablished' = TRUE
    /\ UNCHANGED <<PortSelected, chosen, handle, owner, hexFile, worker,
                   gui, connects>>

\* HexFilePtr = fopen(...): the file open before is not closed.
LoadHexFile ==
    /\ gui = "idle"
    /\ ConnectionEstablished
    /\ \E fd \in Free : hexFile' = fd /\ owner' = [owner EXCEPT ![fd] = "hex"]
    /\ UNCHANGED <<PortSelected, chosen, handle, ConnectionEstablished,
                   answered, worker, gui, connects>>

Click ==
    /\ gui = "idle"
    /\ connects < MaxConnects
    /\ connects' = connects + 1
    /\ UNCHANGED <<PortSelected, chosen, handle, owner, hexFile, answered,
                   worker>>

\* Mutant: Connect does not close the port it opens.
ConnectWithoutClosing ==
    /\ Click
    /\ ~ConnectionEstablished
    /\ gui' = "open"
    /\ UNCHANGED ConnectionEstablished

Connect ==
    /\ Click
    /\ ~ConnectionEstablished
    /\ gui' = IF GetPortOpenStatus(chosen) THEN "close" ELSE "open"
    /\ UNCHANGED ConnectionEstablished

Disconnect ==
    /\ Click
    /\ ConnectionEstablished
    /\ ConnectionEstablished' = FALSE
    /\ gui' = "disconnect"

\* Connect closes a port that is open, whoever uses it.
ConnectCloses ==
    /\ gui = "close"
    /\ ClosePort(chosen)
    /\ gui' = "open"
    /\ UNCHANGED <<PortSelected, chosen, hexFile, ConnectionEstablished,
                   answered, worker, connects>>

\* PortSelected = portType comes before the port is open.
ConnectSelects ==
    /\ gui = "open"
    /\ PortSelected' = chosen
    /\ gui' = "opening"
    /\ UNCHANGED <<chosen, handle, owner, hexFile, ConnectionEstablished,
                   answered, worker, connects>>

ConnectOpens ==
    /\ gui = "opening"
    /\ OpenPort(chosen)
    /\ gui' = "opened"
    /\ UNCHANGED <<PortSelected, chosen, hexFile, ConnectionEstablished,
                   answered, worker, connects>>

\* if(GetPortOpenStatus): only then the old worker ends and a new one begins.
ConnectShutsDown ==
    /\ gui = "opened"
    /\ IF GetPortOpenStatus(chosen)
       THEN /\ worker # "call"
            /\ worker' = "none"
            /\ gui' = "create"
       ELSE /\ gui' = "idle"
            /\ UNCHANGED worker
    /\ UNCHANGED <<PortSelected, chosen, handle, owner, hexFile,
                   ConnectionEstablished, answered, connects>>

CreateRxTxThread ==
    /\ gui = "create"
    /\ worker' = "loop"
    /\ gui' = "idle"
    /\ UNCHANGED <<PortSelected, chosen, handle, owner, hexFile,
                   ConnectionEstablished, answered, connects>>

\* Mutant: Disconnect leaves the worker alone.
DisconnectShutsNothingDown ==
    /\ gui = "disconnect"
    /\ gui' = IF GetPortOpenStatus(chosen) THEN "disconnect close" ELSE "idle"
    /\ UNCHANGED <<PortSelected, chosen, handle, owner, hexFile,
                   ConnectionEstablished, answered, worker, connects>>

\* ShutdownThread; then the port of the dialog is closed.
DisconnectShutsDown ==
    /\ gui = "disconnect"
    /\ worker # "call"
    /\ worker' = "none"
    /\ gui' = IF GetPortOpenStatus(chosen) THEN "disconnect close" ELSE "idle"
    /\ UNCHANGED <<PortSelected, chosen, handle, owner, hexFile,
                   ConnectionEstablished, answered, connects>>

DisconnectCloses ==
    /\ gui = "disconnect close"
    /\ ClosePort(chosen)
    /\ gui' = "idle"
    /\ UNCHANGED <<PortSelected, chosen, hexFile, ConnectionEstablished,
                   answered, worker, connects>>

-----------------------------------------------------------------------------
Next ==
    \/ WorkerCalls
    \/ WorkerReturns
    \/ ClickCheckBox
    \/ OnBootInfo
    \/ LoadHexFile
    \/ Connect
    \/ Disconnect
    \/ ConnectCloses
    \/ ConnectSelects
    \/ ConnectOpens
    \/ ConnectShutsDown
    \/ CreateRxTxThread
    \/ DisconnectShutsDown
    \/ DisconnectCloses

Spec == Init /\ [][Next]_vars

-----------------------------------------------------------------------------
(***************************************************************************)
(* Properties.                                                             *)
(***************************************************************************)

TypeOK ==
    /\ PortSelected \in Port
    /\ chosen \in Port
    /\ handle \in [Port -> Fd \cup {Invalid}]
    /\ owner \in [Fd -> Port \cup {"none", "hex"}]
    /\ hexFile \in Fd \cup {Invalid}
    /\ ConnectionEstablished \in BOOLEAN
    /\ answered \in BOOLEAN
    /\ worker \in {"none", "loop", "call"}
    /\ gui \in {"idle", "close", "open", "opening", "opened", "create",
                "disconnect", "disconnect close"}
    /\ connects \in 0..MaxConnects

\* A port that is open can still be closed: whatever the user selects between
\* Connect and Disconnect, no descriptor is lost (pic32ubldlg.cpp:156).
NothingLeaks == \A fd \in Fd : owner[fd] \in Port => handle[owner[fd]] = fd

\* When the GUI thread is idle a worker reads and writes the port the engine
\* selected, or none, and never what a stale descriptor has become since, in
\* spite of ports left open, closed twice, or closed in place of another.
WorkerUsesOwnPort ==
    (gui = "idle" /\ worker # "none") =>
        \/ handle[PortSelected] = Invalid
        \/ owner[handle[PortSelected]] = PortSelected

\* "true: Port opened. false: Port closed." (bootloader.cpp:628).  No run
\* claims it: CloseUdpPort keeps SendSocket, and TLC refutes it.
StatusMeansOpen ==
    \A p \in Port :
        GetPortOpenStatus(p) <=> \E fd \in Fd : owner[fd] = p
=============================================================================
