------------------------------- MODULE UsbHid -------------------------------
(***************************************************************************)
(* The USB port: class CUsbHid (usbhid.cpp) on the bundled HIDAPI (hid.c). *)
(*                                                                         *)
(* Three threads meet in one hid_device:                                   *)
(*   - the GUI thread opens and closes it (OpenUSBDevice, ClosePort);      *)
(*   - the worker of the engine reads and writes it, and may be terminated *)
(*     while it waits for a report;                                        *)
(*   - read_thread, which hid_open_path starts and hid_close joins, keeps  *)
(*     one libusb transfer submitted; read_callback appends what arrives   *)
(*     to a list that hid_read takes from.                                 *)
(* libusb runs the callback in the thread that handles its events: in      *)
(* read_thread, or in the worker during a synchronous write.               *)
(*                                                                         *)
(* What only happens under dev->mutex is one step; the mutex appears where *)
(* a thread keeps it from one step to the next.                            *)
(***************************************************************************)
EXTENDS Integers, Sequences

CONSTANTS
    QueueLimit,     \* 30: when read_callback starts to drop reports
    Nonblock,       \* what the client passes to hid_set_nonblocking
    CloseUnderRead, \* may the device be closed while the worker runs?
    MaxOpens,       \* bound: how often the device is opened
    MaxReports      \* bound: reports it sends each time

ASSUME LimitAssumption == QueueLimit \in Nat
ASSUME ClientAssumption == /\ Nonblock \subseteq BOOLEAN
                           /\ CloseUnderRead \in BOOLEAN
ASSUME BoundAssumption == MaxOpens \in Nat /\ MaxReports \in Nat

VARIABLES
    \* CUsbHid
    hidDevice,       \* the pointer: 0 is NULL, n the device opened n-th
    \* struct hid_device_ of the device opened last
    opens,           \* its number
    freed,           \* was it freed?  (TRUE before the first one)
    blocking,
    shutdown_thread,
    cancelled,
    transfer,        \* "none": no object; else what libusb does with it
    input_reports,   \* numbers of the reports in the list
    mutex,           \* "worker" if the worker keeps it, or "free"
    \* the threads
    thread,          \* program counter of read_thread
    callback,        \* program counter of read_callback
    runner,          \* the thread that runs it
    gui,             \* program counter of the GUI thread
    worker,          \* program counter of the worker
    device,          \* the device the worker's call is about
    waits,           \* is its read a blocking one?
    ExitThread,
    terminated,      \* has QThread::terminate been called on it?
    \* the device
    gone,            \* it was unplugged
    failed,          \* has a libusb call failed whose result is not handled?
    arrived,         \* the report it sent last
    got              \* the report the worker read last

deviceVars == <<blocking, shutdown_thread, cancelled>>
listVars == <<input_reports, arrived, got>>
handleVars == <<hidDevice, opens, freed>>
callbackVars == <<callback, runner>>
usbVars == <<gone, failed>>
workerVars == <<worker, device, waits, ExitThread, terminated>>

vars == <<handleVars, deviceVars, transfer, listVars, mutex, thread,
          callbackVars, gui, workerVars, usbVars>>

Init ==
    /\ hidDevice = 0
    /\ opens = 0
    /\ freed = TRUE
    /\ blocking = TRUE
    /\ shutdown_thread = FALSE
    /\ cancelled = FALSE
    /\ transfer = "none"
    /\ input_reports = << >>
    /\ mutex = "free"
    /\ thread = "none"
    /\ callback = "none"
    /\ runner = "thread"
    /\ gui = "idle"
    /\ worker = "off"
    /\ device = 0
    /\ waits = FALSE
    /\ ExitThread = FALSE
    /\ terminated = FALSE
    /\ gone = FALSE
    /\ failed = FALSE
    /\ arrived = 0
    /\ got = 0

-----------------------------------------------------------------------------
(***************************************************************************)
(* hid_open, hid_open_path: the GUI thread.  A device that is not found or *)
(* cannot be claimed leaves everything as it was.                          *)
(***************************************************************************)

\* new_hid_device, then pthread_create.  Connect closes an open port first.
OpenUSBDevice ==
    /\ gui = "idle"
    /\ hidDevice = 0
    /\ opens < MaxOpens
    /\ opens' = opens + 1
    /\ freed' = FALSE
    /\ blocking' = TRUE
    /\ shutdown_thread' = FALSE
    /\ cancelled' = FALSE
    /\ transfer' = "none"
    /\ input_reports' = << >>
    /\ thread' = "start"
    /\ gui' = "barrier"
    /\ gone' = FALSE
    /\ failed' = FALSE
    /\ arrived' = 0
    /\ got' = 0
    /\ UNCHANGED <<hidDevice, mutex, callbackVars, workerVars>>

\* pthread_barrier_wait in both threads.
Barrier ==
    /\ gui = "barrier"
    /\ thread = "barrier"
    /\ gui' = "opened"
    /\ thread' = "events"
    /\ UNCHANGED <<handleVars, deviceVars, transfer, listVars, mutex,
                   callbackVars, workerVars, usbVars>>

\* hidDevice = hid_open(vid, pid, NULL)
OpenReturns ==
    /\ gui = "opened"
    /\ hidDevice' = opens
    /\ gui' = "mode"
    /\ UNCHANGED <<opens, freed, deviceVars, transfer, listVars, mutex,
                   thread, callbackVars, workerVars, usbVars>>

\* hid_set_nonblocking(hidDevice, nonblock)
SetNonblocking ==
    /\ gui = "mode"
    /\ \E nonblock \in Nonblock : blocking' = ~nonblock
    /\ gui' = "idle"
    /\ UNCHANGED <<handleVars, shutdown_thread, cancelled, transfer, listVars,
                   mutex, thread, callbackVars, workerVars, usbVars>>

-----------------------------------------------------------------------------
(***************************************************************************)
(* libusb, external: a submitted transfer completes, times out, is         *)
(* cancelled or finds the device gone.                                     *)
(***************************************************************************)

\* libusb_cancel_transfer: fails, without effect, if nothing is submitted.
CancelTransfer ==
    transfer' = IF transfer = "submitted" THEN "cancelling" ELSE transfer

\* libusb_submit_transfer.
SubmitTransfer == transfer' = "submitted"

\* Thread t is handling libusb's events and runs no callback yet.
HandlesEvents(t) ==
    /\ callback = "none"
    /\ \/ t = "thread" /\ thread \in {"events", "drain"}
       \/ t = "worker" /\ worker = "write" /\ device = opens /\ ~freed

Unplug ==
    /\ ~gone
    /\ ~freed
    /\ gone' = TRUE
    /\ UNCHANGED <<handleVars, deviceVars, transfer, listVars, mutex, thread,
                   callbackVars, gui, workerVars, failed>>

-----------------------------------------------------------------------------
(***************************************************************************)
(* read_callback.                                                          *)
(***************************************************************************)

\* LIBUSB_TRANSFER_COMPLETED: a report was received.
CallbackCompleted ==
    /\ transfer = "submitted"
    /\ ~gone
    /\ arrived < MaxReports
    /\ \E t \in {"thread", "worker"} : HandlesEvents(t) /\ runner' = t
    /\ transfer' = "idle"
    /\ arrived' = arrived + 1
    /\ callback' = "append"
    /\ UNCHANGED <<handleVars, deviceVars, input_reports, got, mutex, thread,
                   gui, workerVars, usbVars>>

\* LIBUSB_TRANSFER_TIMED_OUT after 5 s, or an unknown status.
CallbackTimedOut ==
    /\ transfer = "submitted"
    /\ \E t \in {"thread", "worker"} : HandlesEvents(t) /\ runner' = t
    /\ transfer' = "idle"
    /\ callback' = "resubmit"
    /\ UNCHANGED <<handleVars, deviceVars, listVars, mutex, thread, gui,
                   workerVars, usbVars>>

\* Mutant: the callback of a transfer that is over does not set cancelled.
CallbackEndsShutdown ==
    /\ transfer = "cancelling" \/ (transfer = "submitted" /\ gone)
    /\ \E t \in {"thread", "worker"} : HandlesEvents(t)
    /\ transfer' = "idle"
    /\ shutdown_thread' = TRUE
    /\ UNCHANGED <<handleVars, blocking, cancelled, listVars, mutex, thread,
                   callbackVars, gui, workerVars, usbVars>>

\* LIBUSB_TRANSFER_CANCELLED and LIBUSB_TRANSFER_NO_DEVICE.
CallbackEnds ==
    /\ transfer = "cancelling" \/ (transfer = "submitted" /\ gone)
    /\ \E t \in {"thread", "worker"} : HandlesEvents(t)
    /\ transfer' = "idle"
    /\ shutdown_thread' = TRUE
    /\ cancelled' = TRUE
    /\ UNCHANGED <<handleVars, blocking, listVars, mutex, thread,
                   callbackVars, gui, workerVars, usbVars>>

\* pthread_cond_signal and pthread_cond_broadcast: the worker is the only
\* thread that waits.
WakeReader == worker' = IF worker = "wait" THEN "relock" ELSE worker

\* Mutant: the list is full with the QueueLimit-th report.
AppendedEarly(reports, r) ==
    IF Len(reports) > QueueLimit THEN Append(Tail(reports), r)
                                 ELSE Append(reports, r)

\* Mutant: nothing is ever dropped.
AppendedAlways(reports, r) == Append(reports, r)

\* The list after report r: num_queued counts the links there were before.
Appended(reports, r) ==
    IF Len(reports) - 1 > QueueLimit THEN Append(Tail(reports), r)
                                     ELSE Append(reports, r)

\* Under dev->mutex; an empty list means that a reader may be waiting.
CallbackAppends ==
    /\ callback = "append"
    /\ mutex = "free"
    /\ input_reports' = Appended(input_reports, arrived)
    /\ IF input_reports = << >> THEN WakeReader ELSE UNCHANGED worker
    /\ callback' = "resubmit"
    /\ UNCHANGED <<handleVars, deviceVars, transfer, arrived, got, mutex,
                   thread, runner, gui, device, waits, ExitThread, terminated,
                   usbVars>>

\* The transfer is submitted again, even if the device is being closed.
CallbackResubmits ==
    /\ callback = "resubmit"
    /\ callback' = "none"
    /\ \/ ~gone /\ SubmitTransfer /\ UNCHANGED <<shutdown_thread, cancelled>>
       \/ /\ shutdown_thread' = TRUE
          /\ cancelled' = TRUE
          /\ UNCHANGED transfer
    /\ UNCHANGED <<handleVars, blocking, listVars, mutex, thread, runner, gui,
                   workerVars, usbVars>>

-----------------------------------------------------------------------------
(***************************************************************************)
(* read_thread.                                                            *)
(***************************************************************************)

\* It is between two calls of libusb_handle_events.
ThreadIsFree == ~(callback # "none" /\ runner = "thread")

\* The transfer is allocated and submitted; the result is not looked at.
ThreadSubmits ==
    /\ thread = "start"
    /\ \/ ~gone /\ SubmitTransfer /\ UNCHANGED failed
       \/ transfer' = "idle" /\ failed' = TRUE
    /\ thread' = "barrier"
    /\ UNCHANGED <<handleVars, deviceVars, listVars, mutex, callbackVars, gui,
                   workerVars, gone>>

\* while (!dev->shutdown_thread) ends, or libusb reports a fatal error.
ThreadLeavesLoop ==
    /\ thread = "events"
    /\ ThreadIsFree
    /\ thread' = "cancel"
    /\ failed' = (failed \/ ~shutdown_thread)
    /\ UNCHANGED <<handleVars, deviceVars, transfer, listVars, mutex,
                   callbackVars, gui, workerVars, gone>>

\* Mutant: the read thread leaves it to hid_close to cancel the transfer.
ThreadCancelsNothing ==
    /\ thread = "cancel"
    /\ thread' = "drain"
    /\ UNCHANGED <<handleVars, deviceVars, transfer, listVars, mutex,
                   callbackVars, gui, workerVars, usbVars>>

\* "Cancel any transfer that may be pending."
ThreadCancels ==
    /\ thread = "cancel"
    /\ CancelTransfer
    /\ thread' = "drain"
    /\ UNCHANGED <<handleVars, deviceVars, listVars, mutex, callbackVars, gui,
                   workerVars, usbVars>>

\* while (!dev->cancelled) ends.
ThreadDrained ==
    /\ thread = "drain"
    /\ cancelled
    /\ ThreadIsFree
    /\ thread' = "wake"
    /\ UNCHANGED <<handleVars, deviceVars, transfer, listVars, mutex,
                   callbackVars, gui, workerVars, usbVars>>

\* Mutant: the condition is broadcast without the mutex.
ThreadWakesUnlocked ==
    /\ thread = "wake"
    /\ WakeReader
    /\ thread' = "ended"
    /\ UNCHANGED <<handleVars, deviceVars, transfer, listVars, mutex,
                   callbackVars, gui, device, waits, ExitThread, terminated,
                   usbVars>>

\* "Wake any threads which are waiting on data", under the mutex.
ThreadWakes ==
    /\ thread = "wake"
    /\ mutex = "free"
    /\ WakeReader
    /\ thread' = "ended"
    /\ UNCHANGED <<handleVars, deviceVars, transfer, listVars, mutex,
                   callbackVars, gui, device, waits, ExitThread, terminated,
                   usbVars>>

-----------------------------------------------------------------------------
(***************************************************************************)
(* CUsbHid::ClosePort and hid_close: the GUI thread.                       *)
(***************************************************************************)

\* shutdown_thread = 1.  Disconnect has shut the worker down before; Connect
\* closes the port of a failed attempt while the worker still runs.
CloseBegins ==
    /\ gui = "idle"
    /\ hidDevice # 0
    /\ CloseUnderRead \/ worker = "off"
    /\ shutdown_thread' = TRUE
    /\ gui' = "cancel"
    /\ UNCHANGED <<handleVars, blocking, cancelled, transfer, listVars, mutex,
                   thread, callbackVars, workerVars, usbVars>>

CloseCancels ==
    /\ gui = "cancel"
    /\ CancelTransfer
    /\ gui' = "join"
    /\ UNCHANGED <<handleVars, deviceVars, listVars, mutex, thread,
                   callbackVars, workerVars, usbVars>>

\* Mutant: pthread_join is left out.
CloseJoinsNobody ==
    /\ gui = "join"
    /\ transfer' = "none"
    /\ gui' = "free"
    /\ UNCHANGED <<handleVars, deviceVars, listVars, mutex, thread,
                   callbackVars, workerVars, usbVars>>

\* pthread_join; the transfer and the handle are released.
CloseJoins ==
    /\ gui = "join"
    /\ thread = "ended"
    /\ thread' = "none"
    /\ transfer' = "none"
    /\ gui' = "free"
    /\ UNCHANGED <<handleVars, deviceVars, listVars, mutex, callbackVars,
                   workerVars, usbVars>>

\* The list is cleared under the mutex, the device freed.
CloseFrees ==
    /\ gui = "free"
    /\ mutex = "free"
    /\ input_reports' = << >>
    /\ freed' = TRUE
    /\ gui' = "null"
    /\ UNCHANGED <<hidDevice, opens, deviceVars, transfer, arrived, got,
                   mutex, thread, callbackVars, workerVars, usbVars>>

\* hidDevice = NULL, after hid_close has returned.
CloseReturns ==
    /\ gui = "null"
    /\ hidDevice' = 0
    /\ gui' = "idle"
    /\ UNCHANGED <<opens, freed, deviceVars, transfer, listVars, mutex,
                   thread, callbackVars, workerVars, usbVars>>

-----------------------------------------------------------------------------
(***************************************************************************)
(* The worker: ReadUSBDevice with hid_read, WriteUSBDevice with hid_write. *)
(* A step on a freed device is undefined and ends its behaviour here.      *)
(***************************************************************************)
DeviceLives == device = opens /\ ~freed

\* ReadUSBDevice: hidDevice is looked at once; blocking gives the timeout.
ReadBegins ==
    /\ worker = "idle"
    /\ hidDevice # 0
    /\ device' = hidDevice
    /\ waits' = (blocking /\ hidDevice = opens)
    /\ worker' = "lock"
    /\ UNCHANGED <<handleVars, deviceVars, transfer, listVars, mutex, thread,
                   callbackVars, gui, ExitThread, terminated, usbVars>>

\* The worker has dev->mutex: at the start of hid_read_timeout, or back from
\* pthread_cond_wait.
ReadLocks ==
    /\ worker \in {"lock", "relock"}
    /\ DeviceLives
    /\ mutex = "free"

\* return_data: the oldest report.
ReadReport ==
    /\ ReadLocks
    /\ input_reports # << >>
    /\ got' = Head(input_reports)
    /\ input_reports' = Tail(input_reports)
    /\ worker' = "idle"
    /\ UNCHANGED <<handleVars, deviceVars, transfer, arrived, mutex, thread,
                   callbackVars, gui, device, waits, ExitThread, terminated,
                   usbVars>>

\* -1 if the device is gone, 0 if the read does not wait: both are 0 bytes.
ReadNothing ==
    /\ ReadLocks
    /\ input_reports = << >>
    /\ shutdown_thread \/ ~waits
    /\ worker' = "idle"
    /\ UNCHANGED <<handleVars, deviceVars, transfer, listVars, mutex, thread,
                   callbackVars, gui, device, waits, ExitThread, terminated,
                   usbVars>>

\* while (!dev->input_reports && !dev->shutdown_thread) was true ...
ReadDecidesToWait ==
    /\ ReadLocks
    /\ input_reports = << >>
    /\ ~shutdown_thread
    /\ waits
    /\ mutex' = "worker"
    /\ worker' = "towait"
    /\ UNCHANGED <<handleVars, deviceVars, transfer, listVars, thread,
                   callbackVars, gui, device, waits, ExitThread, terminated,
                   usbVars>>

\* ... and pthread_cond_wait gives the mutex up.
ReadWaits ==
    /\ worker = "towait"
    /\ DeviceLives
    /\ mutex' = "free"
    /\ worker' = "wait"
    /\ UNCHANGED <<handleVars, deviceVars, transfer, listVars, thread,
                   callbackVars, gui, device, waits, ExitThread, terminated,
                   usbVars>>

\* libusb_interrupt_transfer or libusb_control_transfer, synchronous.
WriteBegins ==
    /\ worker = "idle"
    /\ hidDevice # 0
    /\ device' = hidDevice
    /\ worker' = "write"
    /\ UNCHANGED <<handleVars, deviceVars, transfer, listVars, mutex, thread,
                   callbackVars, gui, waits, ExitThread, terminated, usbVars>>

WriteEnds ==
    /\ worker = "write"
    /\ DeviceLives
    /\ ~(callback # "none" /\ runner = "worker")
    /\ worker' = "idle"
    /\ UNCHANGED <<handleVars, deviceVars, transfer, listVars, mutex, thread,
                   callbackVars, gui, device, waits, ExitThread, terminated,
                   usbVars>>

-----------------------------------------------------------------------------
(***************************************************************************)
(* The worker's life: CreateRxTxThread and ShutdownThread.                 *)
(***************************************************************************)
WorkerStarts ==
    /\ gui = "idle"
    /\ worker = "off"
    /\ worker' = "idle"
    /\ ExitThread' = FALSE
    /\ terminated' = FALSE
    /\ UNCHANGED <<handleVars, deviceVars, transfer, listVars, mutex, thread,
                   callbackVars, gui, device, waits, usbVars>>

ShutdownBegins ==
    /\ gui = "idle"
    /\ worker # "off"
    /\ ~ExitThread
    /\ ExitThread' = TRUE
    /\ gui' = "sleep"
    /\ UNCHANGED <<handleVars, deviceVars, transfer, listVars, mutex, thread,
                   callbackVars, worker, device, waits, terminated, usbVars>>

\* After the Sleep(1000): a worker that waits for a report is terminated.
ShutdownEnds ==
    /\ gui = "sleep"
    /\ worker \in {"off", "wait"}
    /\ terminated' = (worker = "wait")
    /\ gui' = "idle"
    /\ UNCHANGED <<handleVars, deviceVars, transfer, listVars, mutex, thread,
                   callbackVars, worker, device, waits, ExitThread, usbVars>>

WorkerExits ==
    /\ worker = "idle"
    /\ ExitThread
    /\ worker' = "off"
    /\ UNCHANGED <<handleVars, deviceVars, transfer, listVars, mutex, thread,
                   callbackVars, gui, device, waits, ExitThread, terminated,
                   usbVars>>

\* Mutant: hid_read_timeout does not push cleanup_mutex.
WorkerCancelledLocked ==
    /\ worker = "wait"
    /\ terminated
    /\ mutex = "free"
    /\ worker' = "off"
    /\ mutex' = "worker"
    /\ UNCHANGED <<handleVars, deviceVars, transfer, listVars, thread,
                   callbackVars, gui, device, waits, ExitThread, terminated,
                   usbVars>>

\* pthread_cond_wait is a cancellation point: it takes the mutex again and
\* cleanup_mutex releases it.
WorkerCancelled ==
    /\ worker = "wait"
    /\ terminated
    /\ DeviceLives
    /\ mutex = "free"
    /\ worker' = "off"
    /\ UNCHANGED <<handleVars, deviceVars, transfer, listVars, mutex, thread,
                   callbackVars, gui, device, waits, ExitThread, terminated,
                   usbVars>>

-----------------------------------------------------------------------------
ReadCallback ==
    \/ CallbackCompleted
    \/ CallbackTimedOut
    \/ CallbackEnds
    \/ CallbackAppends
    \/ CallbackResubmits

ReadThread ==
    \/ ThreadSubmits
    \/ ThreadLeavesLoop
    \/ ThreadCancels
    \/ ThreadDrained
    \/ ThreadWakes

\* The GUI thread inside one of its calls.
GuiContinues ==
    \/ Barrier
    \/ OpenReturns
    \/ SetNonblocking
    \/ CloseCancels
    \/ CloseJoins
    \/ CloseFrees
    \/ CloseReturns
    \/ ShutdownEnds

GuiCalls ==
    \/ OpenUSBDevice
    \/ CloseBegins
    \/ WorkerStarts
    \/ ShutdownBegins

\* The worker inside one of its calls.
WorkerContinues ==
    \/ ReadReport
    \/ ReadNothing
    \/ ReadDecidesToWait
    \/ ReadWaits
    \/ WriteEnds
    \/ WorkerExits
    \/ WorkerCancelled

WorkerCalls == ReadBegins \/ WriteBegins

Next ==
    \/ ReadCallback
    \/ ReadThread
    \/ GuiContinues
    \/ GuiCalls
    \/ WorkerContinues
    \/ WorkerCalls
    \/ Unplug

Spec == Init /\ [][Next]_vars

\* Threads inside a call are scheduled, and libusb reports a cancelled
\* transfer.  Nobody need call, and the device need send nothing.  The loop
\* of read_thread is left between two callbacks, and tests its flag after
\* each of them: however many there are, it is left (strong fairness).
Fairness ==
    /\ WF_vars(CallbackEnds)
    /\ WF_vars(CallbackAppends)
    /\ WF_vars(CallbackResubmits)
    /\ SF_vars(shutdown_thread /\ ThreadLeavesLoop)
    /\ WF_vars(ThreadSubmits \/ ThreadCancels \/ ThreadDrained \/ ThreadWakes)
    /\ WF_vars(GuiContinues)
    /\ WF_vars(WorkerContinues)

LiveSpec == Spec /\ Fairness

-----------------------------------------------------------------------------
(***************************************************************************)
(* Properties.                                                             *)
(***************************************************************************)

\* Every field has a value of its type, and the list is bounded: although
\* "reached 30 in the queue" (hid.c:676), it may hold QueueLimit + 2.
TypeOK ==
    /\ hidDevice \in 0..opens
    /\ opens \in 0..MaxOpens
    /\ freed \in BOOLEAN
    /\ blocking \in BOOLEAN
    /\ shutdown_thread \in BOOLEAN
    /\ cancelled \in BOOLEAN
    /\ transfer \in {"none", "idle", "submitted", "cancelling"}
    /\ input_reports \in Seq(Nat)
    /\ Len(input_reports) <= QueueLimit + 2
    /\ mutex \in {"free", "worker"}
    /\ thread \in {"none", "start", "barrier", "events", "cancel", "drain",
                   "wake", "ended"}
    /\ callback \in {"none", "append", "resubmit"}
    /\ runner \in {"thread", "worker"}
    /\ gui \in {"idle", "barrier", "opened", "mode", "cancel", "join", "free",
                "null", "sleep"}
    /\ worker \in {"off", "idle", "lock", "relock", "towait", "wait", "write"}
    /\ device \in 0..MaxOpens
    /\ waits \in BOOLEAN
    /\ ExitThread \in BOOLEAN
    /\ terminated \in BOOLEAN
    /\ gone \in BOOLEAN
    /\ failed \in BOOLEAN
    /\ arrived \in 0..MaxReports
    /\ got \in 0..MaxReports

\* "the objects can be safely cleaned up after the call to pthread_join()"
\* (hid.c:774): while read_thread, a callback or a call of the worker is
\* under way the device it uses has not been freed, nor its transfer; and the
\* transfer that hid_close cancels exists, thanks to the barrier (hid.c:890).
NoUseAfterFree ==
    /\ gui = "cancel" => transfer # "none"
    /\ thread \notin {"none", "ended"} => ~freed
    /\ callback # "none" => ~freed /\ transfer # "none"
    /\ worker \notin {"off", "idle"} => DeviceLives

\* A worker that is terminated in hid_read leaves dev->mutex unlocked, so
\* that neither read_thread nor hid_close waits for it for ever (hid.c:1001).
TerminatedReaderUnlocks == worker = "off" => mutex = "free"

\* "a thread which is about to go to sleep waiting on the condition acutally
\* will go to sleep before the condition is signaled" (hid.c:763): no reader
\* sleeps, or is about to, behind the last signal that could wake it, be it
\* of a report or of the end of read_thread.
NoWakeupLost ==
    worker \in {"towait", "wait"} =>
        input_reports = << >> /\ thread \notin {"none", "ended"}

\* "This call will fail if no transfers are pending, but that's OK."
\* (hid.c:755): read_thread waits for the cancellation only while one is
\* under way, though callbacks submit the transfer again behind the back of
\* the two threads that cancel it, and unless a failure was not looked at.
DrainEnds == thread = "drain" /\ ~cancelled => transfer = "cancelling" \/ failed

\* No thread of the HID library waits for what will not come: neither the
\* reader for a signal nor read_thread, and hid_close with it, for the end of
\* the transfer.
NoWaitInVain == NoWakeupLost /\ DrainEnds

Stream == INSTANCE ReportStream WITH Capacity <- QueueLimit + 2,
                                     sent <- arrived

\* Whatever the interleaving of read_callback, hid_read, closing and
\* unplugging, the reader sees the device's reports in order, none twice,
\* and loses one only when QueueLimit + 2 newer ones have arrived.
ReportsInOrder == Stream!StreamSpec

\* hid_close comes back, whatever the order in which it, read_thread and the
\* callback cancel, end and submit the transfer, if every libusb call whose
\* result the code ignores succeeded.
CloseTerminates == gui = "cancel" ~> (gui = "idle" \/ failed)

\* hid_close always comes back: "This call will fail if no transfers are
\* pending, but that's OK." (hid.c:755).  No run claims it: TLC refutes it
\* where libusb_submit_transfer failed and nobody looked at the result.
CloseAlwaysTerminates == gui = "cancel" ~> gui = "idle"

\* A reader that waits when the device goes away is woken: "a thread which is
\* about to go to sleep ... actually will go to sleep before the condition is
\* signaled" (hid.c:763).
ReaderIsWoken == (worker \in {"towait", "wait"} /\ shutdown_thread)
                     ~> worker \notin {"towait", "wait"}
=============================================================================
