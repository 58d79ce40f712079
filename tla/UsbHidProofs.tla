----------------------------- MODULE UsbHidProofs -----------------------------
(***************************************************************************)
(* Theorems about the USB port, for any limit of the queue, any number of  *)
(* reports and of times the device is opened: types, the life of what the  *)
(* three threads share, and the refinement of ReportStream.                *)
(***************************************************************************)
EXTENDS UsbHid, SequenceTheorems, TLAPS

(***************************************************************************)
(* The list of input reports.                                              *)
(***************************************************************************)

\* What read_callback makes of the list: one report more, or the oldest one
\* replaced; it never grows past QueueLimit + 2.
LEMMA AppendedFacts ==
    ASSUME NEW reports \in Seq(Nat), NEW r \in Nat,
           Len(reports) <= QueueLimit + 2
    PROVE  LET list == Appended(reports, r)
           IN  /\ list \in Seq(Nat)
               /\ Len(list) <= QueueLimit + 2
               /\ \/ /\ Len(list) = Len(reports) + 1
                     /\ \A i \in 1..Len(reports) : list[i] = reports[i]
                     /\ list[Len(list)] = r
                  \/ /\ Len(reports) = QueueLimit + 2
                     /\ Len(list) = QueueLimit + 2
                     /\ \A i \in 1..(Len(list) - 1) : list[i] = reports[i + 1]
                     /\ list[Len(list)] = r
<1> DEFINE list == Appended(reports, r)
<1>0. QueueLimit \in Nat /\ Len(reports) \in Nat
  BY LimitAssumption
<1>1. CASE Len(reports) - 1 > QueueLimit
  <2>1. list = Append(Tail(reports), r)
    BY <1>1 DEF Appended
  <2>2. reports # << >> /\ Len(reports) = QueueLimit + 2
    BY <1>0, <1>1
  <2>3. /\ Tail(reports) \in Seq(Nat)
        /\ Len(Tail(reports)) = Len(reports) - 1
        /\ \A i \in 1..(Len(reports) - 1) : Tail(reports)[i] = reports[i + 1]
    BY <2>2, HeadTailProperties
  <2>4. list \in Seq(Nat) /\ Len(list) = QueueLimit + 2 /\ list[Len(list)] = r
    BY <1>0, <2>1, <2>2, <2>3
  <2>5. \A i \in 1..(Len(list) - 1) : list[i] = reports[i + 1]
    BY <1>0, <2>1, <2>2, <2>3, <2>4
  <2> QED
    BY <1>0, <2>2, <2>4, <2>5
<1>2. CASE ~(Len(reports) - 1 > QueueLimit)
  <2>1. list = Append(reports, r)
    BY <1>2 DEF Appended
  <2> QED
    BY <1>0, <1>2, <2>1
<1> QED
  BY <1>1, <1>2

\* What hid_read leaves.
LEMMA TailFacts ==
    ASSUME NEW reports \in Seq(Nat), reports # << >>
    PROVE  /\ Head(reports) = reports[1]
           /\ Len(reports) \in Nat \ {0}
           /\ Tail(reports) \in Seq(Nat)
           /\ Len(Tail(reports)) = Len(reports) - 1
           /\ \A i \in 1..(Len(reports) - 1) : Tail(reports)[i] = reports[i + 1]
BY HeadTailProperties

-----------------------------------------------------------------------------
(***************************************************************************)
(* Type correctness, in two halves: fields and program counters; numbers.  *)
(***************************************************************************)
Fields ==
    /\ freed \in BOOLEAN
    /\ blocking \in BOOLEAN
    /\ shutdown_thread \in BOOLEAN
    /\ cancelled \in BOOLEAN
    /\ transfer \in {"none", "idle", "submitted", "cancelling"}
    /\ mutex \in {"free", "worker"}
    /\ thread \in {"none", "start", "barrier", "events", "cancel", "drain",
                   "wake", "ended"}
    /\ callback \in {"none", "append", "resubmit"}
    /\ runner \in {"thread", "worker"}
    /\ gui \in {"idle", "barrier", "opened", "mode", "cancel", "join", "free",
                "null", "sleep"}
    /\ worker \in {"off", "idle", "lock", "relock", "towait", "wait", "write"}
    /\ waits \in BOOLEAN
    /\ ExitThread \in BOOLEAN
    /\ terminated \in BOOLEAN
    /\ gone \in BOOLEAN
    /\ failed \in BOOLEAN

Numbers ==
    /\ hidDevice \in 0..opens
    /\ opens \in 0..MaxOpens
    /\ device \in 0..MaxOpens
    /\ input_reports \in Seq(Nat)
    /\ Len(input_reports) <= QueueLimit + 2
    /\ arrived \in 0..MaxReports
    /\ got \in 0..MaxReports
    /\ \A i \in 1..Len(input_reports) : input_reports[i] <= MaxReports

LEMMA TypeParts == Fields /\ Numbers => TypeOK
BY DEF Fields, Numbers, TypeOK

LEMMA InitTypes == Init => Fields /\ Numbers
<1> SUFFICES ASSUME Init PROVE Fields /\ Numbers
  OBVIOUS
<1>1. Fields
  BY DEF Init, Fields
<1>2. Numbers
  BY LimitAssumption, BoundAssumption DEF Init, Numbers
<1> QED
  BY <1>1, <1>2

LEMMA FieldsStep ==
    ASSUME Fields, [Next]_vars
    PROVE  Fields'
<1> USE DEF Fields
<1>1. CASE CallbackCompleted
  BY <1>1 DEF CallbackCompleted, HandlesEvents, deviceVars, handleVars,
         usbVars, workerVars
<1>2. CASE CallbackTimedOut
  BY <1>2 DEF CallbackTimedOut, HandlesEvents, deviceVars, listVars,
         handleVars, usbVars, workerVars
<1>3. CASE CallbackEnds
  BY <1>3 DEF CallbackEnds, HandlesEvents, listVars, handleVars, callbackVars,
         usbVars, workerVars
<1>4. CASE CallbackAppends
  BY <1>4 DEF CallbackAppends, WakeReader, deviceVars, handleVars, usbVars
<1>5. CASE CallbackResubmits
  <2>1. CASE SubmitTransfer /\ UNCHANGED <<shutdown_thread, cancelled>>
    BY <1>5, <2>1 DEF CallbackResubmits, SubmitTransfer, usbVars, workerVars,
       handleVars
  <2>2. CASE shutdown_thread' = TRUE /\ cancelled' = TRUE /\ UNCHANGED transfer
    BY <1>5, <2>2 DEF CallbackResubmits, usbVars, workerVars, handleVars
  <2> QED
    BY <1>5, <2>1, <2>2 DEF CallbackResubmits
<1>6. CASE ThreadSubmits
  <2>1. transfer' \in {"submitted", "idle"} /\ failed' \in BOOLEAN
    BY <1>6 DEF ThreadSubmits, SubmitTransfer
  <2> QED
    BY <1>6, <2>1 DEF ThreadSubmits, deviceVars, handleVars, callbackVars,
       workerVars
<1>7. CASE ThreadLeavesLoop
  BY <1>7 DEF ThreadLeavesLoop, deviceVars, listVars, handleVars,
         callbackVars, workerVars
<1>8. CASE ThreadCancels
  BY <1>8 DEF ThreadCancels, CancelTransfer, deviceVars, listVars, handleVars,
         callbackVars, usbVars, workerVars
<1>9. CASE ThreadDrained
  BY <1>9 DEF ThreadDrained, ThreadIsFree, deviceVars, listVars, handleVars,
         callbackVars, usbVars, workerVars
<1>10. CASE ThreadWakes
  BY <1>10 DEF ThreadWakes, WakeReader, deviceVars, listVars, handleVars,
         callbackVars, usbVars
<1>11. CASE Barrier
  BY <1>11 DEF Barrier, deviceVars, listVars, handleVars, callbackVars,
         usbVars, workerVars
<1>12. CASE OpenReturns
  BY <1>12 DEF OpenReturns, deviceVars, listVars, callbackVars, usbVars,
         workerVars
<1>13. CASE SetNonblocking
  BY <1>13, ClientAssumption DEF SetNonblocking, listVars, handleVars,
         callbackVars, usbVars, workerVars
<1>14. CASE CloseCancels
  BY <1>14 DEF CloseCancels, CancelTransfer, deviceVars, listVars, handleVars,
         callbackVars, usbVars, workerVars
<1>15. CASE CloseJoins
  BY <1>15 DEF CloseJoins, deviceVars, listVars, handleVars, callbackVars,
         usbVars, workerVars
<1>16. CASE CloseFrees
  BY <1>16 DEF CloseFrees, deviceVars, callbackVars, usbVars, workerVars
<1>17. CASE CloseReturns
  BY <1>17 DEF CloseReturns, deviceVars, listVars, callbackVars, usbVars,
         workerVars
<1>18. CASE ShutdownEnds
  BY <1>18 DEF ShutdownEnds, deviceVars, listVars, handleVars, callbackVars,
         usbVars
<1>19. CASE OpenUSBDevice
  BY <1>19 DEF OpenUSBDevice, callbackVars, workerVars
<1>20. CASE CloseBegins
  BY <1>20 DEF CloseBegins, listVars, handleVars, callbackVars, usbVars,
         workerVars
<1>21. CASE WorkerStarts
  <2>1. /\ worker' = "idle" /\ ExitThread' = FALSE /\ terminated' = FALSE
        /\ UNCHANGED <<deviceVars, transfer, mutex, thread, gui, waits>>
        /\ UNCHANGED <<freed, callbackVars, usbVars>>
    BY <1>21 DEF WorkerStarts, handleVars
  <2>2. /\ freed' \in BOOLEAN /\ blocking' \in BOOLEAN /\ waits' \in BOOLEAN
        /\ shutdown_thread' \in BOOLEAN /\ cancelled' \in BOOLEAN
        /\ gone' \in BOOLEAN /\ failed' \in BOOLEAN
    BY <2>1 DEF deviceVars, usbVars
  <2>3. ExitThread' \in BOOLEAN /\ terminated' \in BOOLEAN
    BY <2>1
  <2>4. /\ thread' = thread /\ gui' = gui /\ callback' = callback
        /\ runner' = runner /\ mutex' = mutex /\ transfer' = transfer
    BY <2>1 DEF callbackVars
  <2> QED
    BY <2>1, <2>2, <2>3, <2>4
<1>22. CASE ShutdownBegins
  BY <1>22 DEF ShutdownBegins, deviceVars, listVars, handleVars, callbackVars,
         usbVars
<1>23. CASE ReadReport
  BY <1>23 DEF ReadReport, ReadLocks, deviceVars, handleVars, callbackVars,
         usbVars
<1>24. CASE ReadNothing
  BY <1>24 DEF ReadNothing, ReadLocks, deviceVars, listVars, handleVars,
         callbackVars, usbVars
<1>25. CASE ReadDecidesToWait
  BY <1>25 DEF ReadDecidesToWait, ReadLocks, deviceVars, listVars, handleVars,
         callbackVars, usbVars
<1>26. CASE ReadWaits
  BY <1>26 DEF ReadWaits, deviceVars, listVars, handleVars, callbackVars,
         usbVars
<1>27. CASE WriteEnds
  BY <1>27 DEF WriteEnds, deviceVars, listVars, handleVars, callbackVars,
         usbVars
<1>28. CASE WorkerExits
  BY <1>28 DEF WorkerExits, deviceVars, listVars, handleVars, callbackVars,
         usbVars
<1>29. CASE WorkerCancelled
  BY <1>29 DEF WorkerCancelled, deviceVars, listVars, handleVars,
         callbackVars, usbVars
<1>30. CASE ReadBegins
  BY <1>30 DEF ReadBegins, deviceVars, listVars, handleVars, callbackVars,
         usbVars
<1>31. CASE WriteBegins
  BY <1>31 DEF WriteBegins, deviceVars, listVars, handleVars, callbackVars,
         usbVars
<1>32. CASE Unplug
  BY <1>32 DEF Unplug, deviceVars, listVars, handleVars, callbackVars,
         workerVars
<1>33. CASE UNCHANGED vars
  BY <1>33 DEF vars, deviceVars, listVars, handleVars, callbackVars, usbVars,
         workerVars
<1> QED
  BY <1>1, <1>2, <1>3, <1>4, <1>5, <1>6, <1>7, <1>8, <1>9, <1>10, <1>11,
     <1>12, <1>13, <1>14, <1>15, <1>16, <1>17, <1>18, <1>19, <1>20, <1>21,
     <1>22, <1>23, <1>24, <1>25, <1>26, <1>27, <1>28, <1>29, <1>30, <1>31,
     <1>32, <1>33
     DEF Next, ReadCallback, ReadThread, GuiContinues, GuiCalls,
         WorkerContinues, WorkerCalls

LEMMA NumbersStep ==
    ASSUME Numbers, [Next]_vars
    PROVE  Numbers'
<1> USE DEF Numbers
<1>0. /\ QueueLimit \in Nat
      /\ MaxOpens \in Nat
      /\ MaxReports \in Nat
  BY LimitAssumption, BoundAssumption
<1>1. CASE CallbackCompleted
  BY <1>1, <1>0 DEF CallbackCompleted, HandlesEvents, deviceVars, handleVars,
         usbVars, workerVars
<1>2. CASE CallbackTimedOut
  BY <1>2 DEF CallbackTimedOut, HandlesEvents, deviceVars, listVars,
         handleVars, usbVars, workerVars
<1>3. CASE CallbackEnds
  BY <1>3 DEF CallbackEnds, HandlesEvents, listVars, handleVars, callbackVars,
         usbVars, workerVars
<1>4. CASE CallbackAppends
  <2> DEFINE list == Appended(input_reports, arrived)
  <2>1. input_reports' = list /\ arrived \in Nat
    BY <1>0, <1>4 DEF CallbackAppends
  <2>2. list \in Seq(Nat) /\ Len(list) <= QueueLimit + 2
    BY <2>1, AppendedFacts
  <2>3. \A i \in 1..Len(list) : list[i] <= MaxReports
    <3>1. /\ Len(list) \in Nat /\ Len(input_reports) \in Nat
          /\ arrived <= MaxReports
          /\ \A i \in 1..Len(input_reports) : input_reports[i] <= MaxReports
      BY <1>0, <2>2
    <3>2. CASE /\ Len(list) = Len(input_reports) + 1
               /\ \A i \in 1..Len(input_reports) : list[i] = input_reports[i]
               /\ list[Len(list)] = arrived
      BY <3>1, <3>2
    <3>3. CASE /\ Len(input_reports) = QueueLimit + 2
               /\ Len(list) = QueueLimit + 2
               /\ \A i \in 1..(Len(list) - 1) : list[i] = input_reports[i + 1]
               /\ list[Len(list)] = arrived
      <4> SUFFICES ASSUME NEW i \in 1..Len(list) PROVE list[i] <= MaxReports
        OBVIOUS
      <4>1. CASE i = Len(list)
        BY <3>1, <3>3, <4>1
      <4>2. CASE i # Len(list)
        <5>1. i \in 1..(Len(list) - 1) /\ i + 1 \in 1..Len(input_reports)
          BY <1>0, <3>1, <3>3, <4>2
        <5> QED
          BY <3>1, <3>3, <5>1
      <4> QED
        BY <4>1, <4>2
    <3> HIDE DEF list
    <3> QED
      BY <2>1, <3>2, <3>3, AppendedFacts DEF list
  <2> QED
    BY <1>4, <2>1, <2>2, <2>3 DEF CallbackAppends, WakeReader, deviceVars,
           handleVars, usbVars
<1>5. CASE CallbackResubmits
  BY <1>5 DEF CallbackResubmits, SubmitTransfer, listVars, handleVars,
         usbVars, workerVars
<1>6. CASE ThreadSubmits
  BY <1>6 DEF ThreadSubmits, SubmitTransfer, deviceVars, listVars, handleVars,
         callbackVars, workerVars
<1>7. CASE ThreadLeavesLoop
  BY <1>7 DEF ThreadLeavesLoop, deviceVars, listVars, handleVars,
         callbackVars, workerVars
<1>8. CASE ThreadCancels
  BY <1>8 DEF ThreadCancels, CancelTransfer, deviceVars, listVars, handleVars,
         callbackVars, usbVars, workerVars
<1>9. CASE ThreadDrained
  BY <1>9 DEF ThreadDrained, ThreadIsFree, deviceVars, listVars, handleVars,
         callbackVars, usbVars, workerVars
<1>10. CASE ThreadWakes
  BY <1>10 DEF ThreadWakes, WakeReader, deviceVars, listVars, handleVars,
         callbackVars, usbVars
<1>11. CASE Barrier
  BY <1>11 DEF Barrier, deviceVars, listVars, handleVars, callbackVars,
         usbVars, workerVars
<1>12. CASE OpenReturns
  BY <1>12, <1>0 DEF OpenReturns, deviceVars, listVars, callbackVars, usbVars,
         workerVars
<1>13. CASE SetNonblocking
  BY <1>13 DEF SetNonblocking, listVars, handleVars, callbackVars, usbVars,
         workerVars
<1>14. CASE CloseCancels
  BY <1>14 DEF CloseCancels, CancelTransfer, deviceVars, listVars, handleVars,
         callbackVars, usbVars, workerVars
<1>15. CASE CloseJoins
  BY <1>15 DEF CloseJoins, deviceVars, listVars, handleVars, callbackVars,
         usbVars, workerVars
<1>16. CASE CloseFrees
  BY <1>16, <1>0 DEF CloseFrees, deviceVars, callbackVars, usbVars, workerVars
<1>17. CASE CloseReturns
  BY <1>17, <1>0 DEF CloseReturns, deviceVars, listVars, callbackVars,
         usbVars, workerVars
<1>18. CASE ShutdownEnds
  BY <1>18 DEF ShutdownEnds, deviceVars, listVars, handleVars, callbackVars,
         usbVars
<1>19. CASE OpenUSBDevice
  BY <1>19, <1>0 DEF OpenUSBDevice, callbackVars, workerVars
<1>20. CASE CloseBegins
  BY <1>20 DEF CloseBegins, listVars, handleVars, callbackVars, usbVars,
         workerVars
<1>21. CASE WorkerStarts
  BY <1>21 DEF WorkerStarts, deviceVars, listVars, handleVars, callbackVars,
         usbVars
<1>22. CASE ShutdownBegins
  BY <1>22 DEF ShutdownBegins, deviceVars, listVars, handleVars, callbackVars,
         usbVars
<1>23. CASE ReadReport
  <2>1. input_reports # << >> /\ input_reports' = Tail(input_reports)
    BY <1>23 DEF ReadReport
  <2>2. /\ input_reports' \in Seq(Nat)
        /\ Len(input_reports') <= QueueLimit + 2
        /\ \A i \in 1..Len(input_reports') : input_reports'[i] <= MaxReports
    BY <1>0, <2>1, TailFacts
  <2>3. got' \in 0..MaxReports
    BY <1>0, <1>23, <2>1, TailFacts DEF ReadReport
  <2> QED
    BY <1>23, <2>2, <2>3 DEF ReadReport, handleVars
<1>24. CASE ReadNothing
  BY <1>24 DEF ReadNothing, ReadLocks, deviceVars, listVars, handleVars,
         callbackVars, usbVars
<1>25. CASE ReadDecidesToWait
  BY <1>25 DEF ReadDecidesToWait, ReadLocks, deviceVars, listVars, handleVars,
         callbackVars, usbVars
<1>26. CASE ReadWaits
  BY <1>26 DEF ReadWaits, deviceVars, listVars, handleVars, callbackVars,
         usbVars
<1>27. CASE WriteEnds
  BY <1>27 DEF WriteEnds, deviceVars, listVars, handleVars, callbackVars,
         usbVars
<1>28. CASE WorkerExits
  BY <1>28 DEF WorkerExits, deviceVars, listVars, handleVars, callbackVars,
         usbVars
<1>29. CASE WorkerCancelled
  BY <1>29 DEF WorkerCancelled, deviceVars, listVars, handleVars,
         callbackVars, usbVars
<1>30. CASE ReadBegins
  BY <1>30, <1>0 DEF ReadBegins, deviceVars, listVars, handleVars,
         callbackVars, usbVars
<1>31. CASE WriteBegins
  BY <1>31, <1>0 DEF WriteBegins, deviceVars, listVars, handleVars,
         callbackVars, usbVars
<1>32. CASE Unplug
  BY <1>32 DEF Unplug, deviceVars, listVars, handleVars, callbackVars,
         workerVars
<1>33. CASE UNCHANGED vars
  BY <1>33 DEF vars, listVars, handleVars, workerVars
<1> QED
  BY <1>1, <1>2, <1>3, <1>4, <1>5, <1>6, <1>7, <1>8, <1>9, <1>10, <1>11,
     <1>12, <1>13, <1>14, <1>15, <1>16, <1>17, <1>18, <1>19, <1>20, <1>21,
     <1>22, <1>23, <1>24, <1>25, <1>26, <1>27, <1>28, <1>29, <1>30, <1>31,
     <1>32, <1>33
     DEF Next, ReadCallback, ReadThread, GuiContinues, GuiCalls,
         WorkerContinues, WorkerCalls

\* Every field of the port keeps a value of its type, and the list of reports
\* its bound, whatever the interleaving.
THEOREM UsbTypeCorrect == Spec => []TypeOK
<1>1. Fields /\ Numbers /\ [Next]_vars => Fields' /\ Numbers'
  BY FieldsStep, NumbersStep
<1> QED
  BY <1>1, InitTypes, TypeParts, PTL DEF Spec

-----------------------------------------------------------------------------
(***************************************************************************)
(* Who uses what, and when it exists: the inductive invariant.             *)
(***************************************************************************)

\* Which device the pointer means, and when it exists.
Handle ==
    /\ opens = 0 => freed
    /\ gui \in {"barrier", "opened", "mode", "cancel", "join", "free"} => ~freed
    /\ gui = "null" => freed
    /\ gui \in {"barrier", "opened"} => hidDevice = 0
    /\ gui \in {"mode", "cancel", "join", "free", "null"} => hidDevice = opens
    /\ gui \in {"idle", "sleep"} => hidDevice = IF freed THEN 0 ELSE opens

\* When read_thread runs, and how long its transfer exists.
ReaderLife ==
    /\ freed => thread = "none"
    /\ thread = "none" => transfer = "none" /\ (freed \/ gui = "free")
    /\ transfer = "none" => thread \in {"none", "start"}
    /\ gui = "barrier" <=> thread \in {"start", "barrier"}
    /\ gui = "free" => thread = "none"

\* Once cancelled is set no callback is left and none will come; read_thread
\* ends only then.
Cancellation ==
    /\ cancelled => callback = "none" /\ transfer \in {"none", "idle"}
    /\ callback # "none" => transfer = "idle"
    /\ thread \in {"wake", "ended"} => cancelled
    /\ thread \in {"start", "barrier"} => ~cancelled /\ callback = "none"

\* The worker's call is about the device that is open, and closing begins
\* when there is no worker.
Calls ==
    /\ worker \notin {"off", "idle"} => DeviceLives
    /\ gui \in {"cancel", "join", "free", "null"} => worker = "off"
    /\ gui \in {"barrier", "opened"} => worker \in {"off", "idle"}

\* The mutex is kept from one step to the next on the way to sleep only.
MutexInv == mutex = "worker" <=> worker = "towait"

LifeInv == Handle /\ ReaderLife /\ Cancellation /\ Calls /\ MutexInv

LEMMA InitLife == Init => LifeInv
BY DEF Init, LifeInv, Handle, ReaderLife, Cancellation, Calls, MutexInv

\* The program closes the device without a worker only.
LEMMA LifeStep ==
    ASSUME ~CloseUnderRead, Fields, Numbers, LifeInv, [Next]_vars
    PROVE  LifeInv'
<1> USE DEF LifeInv, Handle, ReaderLife, Cancellation, Calls, MutexInv,
            DeviceLives
<1>0. opens \in Nat
  BY BoundAssumption DEF Numbers
<1>1. CASE CallbackCompleted
  BY <1>1 DEF CallbackCompleted, HandlesEvents, deviceVars, handleVars,
         usbVars, workerVars
<1>2. CASE CallbackTimedOut
  BY <1>2 DEF CallbackTimedOut, HandlesEvents, deviceVars, listVars,
         handleVars, usbVars, workerVars
<1>3. CASE CallbackEnds
  BY <1>3 DEF CallbackEnds, HandlesEvents, listVars, handleVars, callbackVars,
         usbVars, workerVars
<1>4. CASE CallbackAppends
  BY <1>4 DEF CallbackAppends, WakeReader, deviceVars, handleVars, usbVars
<1>5. CASE CallbackResubmits
  BY <1>5 DEF CallbackResubmits, SubmitTransfer, listVars, handleVars,
         usbVars, workerVars
<1>6. CASE ThreadSubmits
  BY <1>6 DEF ThreadSubmits, SubmitTransfer, deviceVars, listVars, handleVars,
         callbackVars, workerVars
<1>7. CASE ThreadLeavesLoop
  BY <1>7 DEF ThreadLeavesLoop, deviceVars, listVars, handleVars,
         callbackVars, workerVars, ThreadIsFree
<1>8. CASE ThreadCancels
  BY <1>8 DEF ThreadCancels, CancelTransfer, deviceVars, listVars, handleVars,
         callbackVars, usbVars, workerVars
<1>9. CASE ThreadDrained
  BY <1>9 DEF ThreadDrained, ThreadIsFree, deviceVars, listVars, handleVars,
         callbackVars, usbVars, workerVars
<1>10. CASE ThreadWakes
  BY <1>10 DEF ThreadWakes, WakeReader, deviceVars, listVars, handleVars,
         callbackVars, usbVars
<1>11. CASE Barrier
  BY <1>11 DEF Barrier, deviceVars, listVars, handleVars, callbackVars,
         usbVars, workerVars
<1>12. CASE OpenReturns
  BY <1>12 DEF OpenReturns, deviceVars, listVars, callbackVars, usbVars,
         workerVars
<1>13. CASE SetNonblocking
  BY <1>13 DEF SetNonblocking, listVars, handleVars, callbackVars, usbVars,
         workerVars
<1>14. CASE CloseCancels
  BY <1>14 DEF CloseCancels, CancelTransfer, deviceVars, listVars, handleVars,
         callbackVars, usbVars, workerVars
<1>15. CASE CloseJoins
  BY <1>15 DEF CloseJoins, deviceVars, listVars, handleVars, callbackVars,
         usbVars, workerVars
<1>16. CASE CloseFrees
  BY <1>16 DEF CloseFrees, deviceVars, callbackVars, usbVars, workerVars
<1>17. CASE CloseReturns
  BY <1>17 DEF CloseReturns, deviceVars, listVars, callbackVars, usbVars,
         workerVars
<1>18. CASE ShutdownEnds
  BY <1>18 DEF ShutdownEnds, deviceVars, listVars, handleVars, callbackVars,
         usbVars
<1>19. CASE OpenUSBDevice
  BY <1>19, <1>0 DEF OpenUSBDevice, callbackVars, workerVars, Fields
<1>20. CASE CloseBegins
  BY <1>20 DEF CloseBegins, listVars, handleVars, callbackVars, usbVars,
         workerVars
<1>21. CASE WorkerStarts
  BY <1>21 DEF WorkerStarts, deviceVars, listVars, handleVars, callbackVars,
         usbVars
<1>22. CASE ShutdownBegins
  BY <1>22 DEF ShutdownBegins, deviceVars, listVars, handleVars, callbackVars,
         usbVars
<1>23. CASE ReadReport
  BY <1>23 DEF ReadReport, ReadLocks, deviceVars, handleVars, callbackVars,
         usbVars
<1>24. CASE ReadNothing
  BY <1>24 DEF ReadNothing, ReadLocks, deviceVars, listVars, handleVars,
         callbackVars, usbVars
<1>25. CASE ReadDecidesToWait
  BY <1>25 DEF ReadDecidesToWait, ReadLocks, deviceVars, listVars, handleVars,
         callbackVars, usbVars
<1>26. CASE ReadWaits
  BY <1>26 DEF ReadWaits, deviceVars, listVars, handleVars, callbackVars,
         usbVars
<1>27. CASE WriteEnds
  BY <1>27 DEF WriteEnds, deviceVars, listVars, handleVars, callbackVars,
         usbVars
<1>28. CASE WorkerExits
  BY <1>28 DEF WorkerExits, deviceVars, listVars, handleVars, callbackVars,
         usbVars
<1>29. CASE WorkerCancelled
  BY <1>29 DEF WorkerCancelled, deviceVars, listVars, handleVars,
         callbackVars, usbVars
<1>30. CASE ReadBegins
  BY <1>30 DEF ReadBegins, deviceVars, listVars, handleVars, callbackVars,
         usbVars, Fields
<1>31. CASE WriteBegins
  BY <1>31 DEF WriteBegins, deviceVars, listVars, handleVars, callbackVars,
         usbVars, Fields
<1>32. CASE Unplug
  BY <1>32 DEF Unplug, deviceVars, listVars, handleVars, callbackVars,
         workerVars
<1>33. CASE UNCHANGED vars
  BY <1>33 DEF vars, deviceVars, listVars, handleVars, callbackVars, usbVars,
         workerVars
<1> QED
  BY <1>1, <1>2, <1>3, <1>4, <1>5, <1>6, <1>7, <1>8, <1>9, <1>10, <1>11,
     <1>12, <1>13, <1>14, <1>15, <1>16, <1>17, <1>18, <1>19, <1>20, <1>21,
     <1>22, <1>23, <1>24, <1>25, <1>26, <1>27, <1>28, <1>29, <1>30, <1>31,
     <1>32, <1>33
     DEF Next, ReadCallback, ReadThread, GuiContinues, GuiCalls,
         WorkerContinues, WorkerCalls

LEMMA LifeSafe ==
    ASSUME ~CloseUnderRead
    PROVE  Spec => [](Fields /\ Numbers /\ LifeInv)
<1>1. Init => Fields /\ Numbers /\ LifeInv
  BY InitTypes, InitLife
<1>2. Fields /\ Numbers /\ LifeInv /\ [Next]_vars => (Fields /\ Numbers /\ LifeInv)'
  BY FieldsStep, NumbersStep, LifeStep
<1> QED
  BY <1>1, <1>2, PTL DEF Spec

\* No device or transfer is freed while read_thread, a callback or a call of
\* the worker uses it, if the port is closed only after the worker is gone;
\* and hid_close finds the transfer that it cancels.
THEOREM NothingUsedAfterFree ==
    ASSUME ~CloseUnderRead
    PROVE  Spec => []NoUseAfterFree
<1>1. LifeInv => NoUseAfterFree
  BY DEF LifeInv, Handle, ReaderLife, Cancellation, Calls, NoUseAfterFree
<1> QED
  BY <1>1, LifeSafe, PTL

\* A worker that is gone, terminated or not, has not left the mutex locked.
THEOREM GoneWorkerHoldsNothing ==
    ASSUME ~CloseUnderRead
    PROVE  Spec => []TerminatedReaderUnlocks
<1>1. Fields /\ LifeInv => TerminatedReaderUnlocks
  BY DEF Fields, LifeInv, MutexInv, TerminatedReaderUnlocks
<1> QED
  BY <1>1, LifeSafe, PTL

-----------------------------------------------------------------------------
(***************************************************************************)
(* Nobody waits for what will not come: the safety half of hid_close       *)
(* coming back and of a waiting reader being woken.                        *)
(***************************************************************************)

\* Who may be in a callback, and what a transfer that is neither submitted
\* nor being cancelled means.
Resubmission ==
    /\ callback # "none" => IF runner = "worker" THEN worker = "write"
                                                ELSE thread \in {"events", "drain"}
    /\ transfer = "idle" => callback # "none" \/ cancelled \/ failed

\* Who ends read_thread: hid_close, or a transfer that was cancelled.
Shutdown ==
    /\ cancelled => shutdown_thread
    /\ shutdown_thread /\ ~cancelled => gui \in {"cancel", "join"}
    /\ thread \in {"cancel", "drain", "wake", "ended"} => shutdown_thread \/ failed

WaitInv == Resubmission /\ Shutdown /\ NoWakeupLost /\ DrainEnds

LEMMA InitWait == Init => WaitInv
BY DEF Init, WaitInv, Resubmission, Shutdown, NoWakeupLost, DrainEnds

LEMMA WaitStep ==
    ASSUME ~CloseUnderRead, Fields, LifeInv, WaitInv, [Next]_vars
    PROVE  WaitInv'
<1> USE DEF LifeInv, Handle, ReaderLife, Cancellation, Calls, MutexInv,
            DeviceLives, WaitInv, Resubmission, Shutdown, NoWakeupLost, DrainEnds
<1>1. CASE CallbackCompleted
  BY <1>1 DEF CallbackCompleted, HandlesEvents, deviceVars, handleVars,
         usbVars, workerVars
<1>2. CASE CallbackTimedOut
  BY <1>2 DEF CallbackTimedOut, HandlesEvents, deviceVars, listVars,
         handleVars, usbVars, workerVars
<1>3. CASE CallbackEnds
  BY <1>3 DEF CallbackEnds, HandlesEvents, listVars, handleVars, callbackVars,
         usbVars, workerVars
<1>4. CASE CallbackAppends
  BY <1>4 DEF CallbackAppends, WakeReader, deviceVars, handleVars, usbVars
<1>5. CASE CallbackResubmits
  BY <1>5 DEF CallbackResubmits, SubmitTransfer, listVars, handleVars,
         usbVars, workerVars
<1>6. CASE ThreadSubmits
  BY <1>6 DEF ThreadSubmits, SubmitTransfer, deviceVars, listVars, handleVars,
         callbackVars, workerVars
<1>7. CASE ThreadLeavesLoop
  <2>1. failed' \in BOOLEAN /\ (failed' <=> (failed \/ ~shutdown_thread))
    BY <1>7 DEF ThreadLeavesLoop, Fields
  <2>2. callback # "none" => runner = "worker"
    BY <1>7 DEF ThreadLeavesLoop, ThreadIsFree, Fields
  <2>3. Resubmission'
    BY <1>7, <2>1, <2>2 DEF ThreadLeavesLoop, deviceVars, callbackVars, workerVars
  <2>4. Shutdown' /\ NoWakeupLost' /\ DrainEnds'
    BY <1>7, <2>1 DEF ThreadLeavesLoop, deviceVars, listVars, workerVars
  <2> QED
    BY <2>3, <2>4
<1>8. CASE ThreadCancels
  <2>1. callback = "none" \/ (runner = "worker" /\ worker = "write")
    BY <1>8 DEF ThreadCancels
  <2>2. cancelled \/ failed \/ transfer \in {"submitted", "cancelling"}
    <3> SUFFICES ASSUME ~cancelled, ~failed
                 PROVE  transfer \notin {"none", "idle"}
      BY DEF Fields
    <3>1. worker = "off"
      BY <1>8 DEF ThreadCancels
    <3> QED
      BY <1>8, <2>1, <3>1 DEF ThreadCancels
  <2>3. transfer \in {"submitted", "cancelling"} => transfer' = "cancelling"
    BY <1>8 DEF ThreadCancels, CancelTransfer
  <2>4. transfer \notin {"submitted", "cancelling"} => transfer' = transfer
    BY <1>8 DEF ThreadCancels, CancelTransfer
  <2> QED
    BY <1>8, <2>1, <2>2, <2>3, <2>4 DEF ThreadCancels, deviceVars, listVars,
       handleVars, callbackVars, usbVars, workerVars
<1>9. CASE ThreadDrained
  BY <1>9 DEF ThreadDrained, ThreadIsFree, deviceVars, listVars, handleVars,
         callbackVars, usbVars, workerVars
<1>10. CASE ThreadWakes
  BY <1>10 DEF ThreadWakes, WakeReader, deviceVars, listVars, handleVars,
         callbackVars, usbVars
<1>11. CASE Barrier
  BY <1>11 DEF Barrier, deviceVars, listVars, handleVars, callbackVars,
         usbVars, workerVars
<1>12. CASE OpenReturns
  BY <1>12 DEF OpenReturns, deviceVars, listVars, callbackVars, usbVars,
         workerVars
<1>13. CASE SetNonblocking
  BY <1>13 DEF SetNonblocking, listVars, handleVars, callbackVars, usbVars,
         workerVars
<1>14. CASE CloseCancels
  BY <1>14 DEF CloseCancels, CancelTransfer, deviceVars, listVars, handleVars,
         callbackVars, usbVars, workerVars
<1>15. CASE CloseJoins
  BY <1>15 DEF CloseJoins, deviceVars, listVars, handleVars, callbackVars,
         usbVars, workerVars
<1>16. CASE CloseFrees
  BY <1>16 DEF CloseFrees, deviceVars, callbackVars, usbVars, workerVars
<1>17. CASE CloseReturns
  BY <1>17 DEF CloseReturns, deviceVars, listVars, callbackVars, usbVars,
         workerVars
<1>18. CASE ShutdownEnds
  BY <1>18 DEF ShutdownEnds, deviceVars, listVars, handleVars, callbackVars,
         usbVars
<1>19. CASE OpenUSBDevice
  BY <1>19 DEF OpenUSBDevice, callbackVars, workerVars, Fields
<1>20. CASE CloseBegins
  BY <1>20 DEF CloseBegins, listVars, handleVars, callbackVars, usbVars,
         workerVars
<1>21. CASE WorkerStarts
  BY <1>21 DEF WorkerStarts, deviceVars, listVars, handleVars, callbackVars,
         usbVars
<1>22. CASE ShutdownBegins
  BY <1>22 DEF ShutdownBegins, deviceVars, listVars, handleVars, callbackVars,
         usbVars
<1>23. CASE ReadReport
  BY <1>23 DEF ReadReport, ReadLocks, deviceVars, handleVars, callbackVars,
         usbVars
<1>24. CASE ReadNothing
  BY <1>24 DEF ReadNothing, ReadLocks, deviceVars, listVars, handleVars,
         callbackVars, usbVars
<1>25. CASE ReadDecidesToWait
  BY <1>25 DEF ReadDecidesToWait, ReadLocks, deviceVars, listVars, handleVars,
         callbackVars, usbVars
<1>26. CASE ReadWaits
  BY <1>26 DEF ReadWaits, deviceVars, listVars, handleVars, callbackVars,
         usbVars
<1>27. CASE WriteEnds
  BY <1>27 DEF WriteEnds, deviceVars, listVars, handleVars, callbackVars,
         usbVars
<1>28. CASE WorkerExits
  BY <1>28 DEF WorkerExits, deviceVars, listVars, handleVars, callbackVars,
         usbVars
<1>29. CASE WorkerCancelled
  BY <1>29 DEF WorkerCancelled, deviceVars, listVars, handleVars,
         callbackVars, usbVars
<1>30. CASE ReadBegins
  BY <1>30 DEF ReadBegins, deviceVars, listVars, handleVars, callbackVars,
         usbVars, Fields
<1>31. CASE WriteBegins
  BY <1>31 DEF WriteBegins, deviceVars, listVars, handleVars, callbackVars,
         usbVars, Fields
<1>32. CASE Unplug
  BY <1>32 DEF Unplug, deviceVars, listVars, handleVars, callbackVars,
         workerVars
<1>33. CASE UNCHANGED vars
  BY <1>33 DEF vars, deviceVars, listVars, handleVars, callbackVars, usbVars,
         workerVars
<1> QED
  BY <1>1, <1>2, <1>3, <1>4, <1>5, <1>6, <1>7, <1>8, <1>9, <1>10, <1>11,
     <1>12, <1>13, <1>14, <1>15, <1>16, <1>17, <1>18, <1>19, <1>20, <1>21,
     <1>22, <1>23, <1>24, <1>25, <1>26, <1>27, <1>28, <1>29, <1>30, <1>31,
     <1>32, <1>33
     DEF Next, ReadCallback, ReadThread, GuiContinues, GuiCalls,
         WorkerContinues, WorkerCalls

LEMMA WaitSafe ==
    ASSUME ~CloseUnderRead
    PROVE  Spec => []WaitInv
<1>1. Init => WaitInv
  BY InitWait
<1>2. Fields /\ LifeInv /\ WaitInv /\ [Next]_vars => WaitInv'
  BY WaitStep
<1> QED
  BY <1>1, <1>2, LifeSafe, PTL DEF Spec

\* A reader never sleeps behind its last wake-up, not while there is a report
\* for it, and not after read_thread has ended; read_thread, and so hid_close,
\* which joins it, waits only for a cancellation that is under way.
THEOREM NobodyWaitsInVain ==
    ASSUME ~CloseUnderRead
    PROVE  Spec => []NoWaitInVain
<1>1. WaitInv => NoWaitInVain
  BY DEF WaitInv, NoWaitInVain
<1> QED
  BY <1>1, WaitSafe, PTL

-----------------------------------------------------------------------------
(***************************************************************************)
(* The list of reports implements ReportStream.                            *)
(***************************************************************************)

\* The report appended last.
Newest == IF callback = "append" THEN arrived - 1 ELSE arrived

\* The list holds the newest reports, all of them; the reader has had what
\* came before, unless the list overflowed since it read last.
Contiguous ==
    /\ \A i \in 1..Len(input_reports) :
           input_reports[i] = Newest - Len(input_reports) + i
    /\ \/ got = Newest - Len(input_reports)
       \/ /\ got < Newest - Len(input_reports)
          /\ Len(input_reports) = QueueLimit + 2

QueueInv == ~freed => Contiguous

\* Seven actions touch what the list is about.
LEMMA ListActions ==
    ASSUME [Next]_vars
    PROVE  \/ CallbackCompleted
           \/ CallbackTimedOut
           \/ CallbackAppends
           \/ CallbackResubmits
           \/ OpenUSBDevice
           \/ CloseFrees
           \/ ReadReport
           \/ UNCHANGED <<listVars, freed, callback>>
<1>1. CASE ReadCallback
  BY <1>1 DEF ReadCallback, CallbackEnds, handleVars, callbackVars
<1>2. CASE ReadThread
  BY <1>2 DEF ReadThread, ThreadSubmits, ThreadLeavesLoop, ThreadCancels,
         ThreadDrained, ThreadWakes, handleVars, callbackVars
<1>3. CASE GuiContinues
  BY <1>3 DEF GuiContinues, Barrier, OpenReturns, SetNonblocking,
         CloseCancels, CloseJoins, CloseReturns, ShutdownEnds, handleVars,
         callbackVars
<1>4. CASE GuiCalls
  BY <1>4 DEF GuiCalls, CloseBegins, WorkerStarts, ShutdownBegins,
         handleVars, callbackVars
<1>5. CASE WorkerContinues
  BY <1>5 DEF WorkerContinues, ReadNothing, ReadDecidesToWait, ReadWaits,
         WriteEnds, WorkerExits, WorkerCancelled, handleVars, callbackVars
<1>6. CASE WorkerCalls \/ Unplug
  BY <1>6 DEF WorkerCalls, ReadBegins, WriteBegins, Unplug, handleVars,
         callbackVars
<1>7. CASE UNCHANGED vars
  BY <1>7 DEF vars, handleVars, callbackVars
<1> QED
  BY <1>1, <1>2, <1>3, <1>4, <1>5, <1>6, <1>7 DEF Next

\* The list after a report has been appended to it.
LEMMA AppendKeepsOrder ==
    ASSUME Numbers, QueueInv, CallbackAppends
    PROVE  QueueInv'
<1>0. /\ QueueLimit \in Nat /\ arrived \in Nat /\ got \in Nat
      /\ input_reports \in Seq(Nat) /\ Len(input_reports) \in Nat
      /\ Len(input_reports) <= QueueLimit + 2
  BY LimitAssumption, BoundAssumption DEF Numbers
<1>1. /\ Newest = arrived - 1 /\ Newest' = arrived
      /\ arrived' = arrived /\ got' = got
      /\ input_reports' = Appended(input_reports, arrived)
      /\ freed' = freed
  BY DEF CallbackAppends, Newest, handleVars
<1> SUFFICES ASSUME ~freed PROVE Contiguous'
  BY <1>1 DEF QueueInv
<1>2. Contiguous
  BY DEF QueueInv
<1> DEFINE n == Len(input_reports)
           m == Len(input_reports')
<1>3. /\ input_reports' \in Seq(Nat) /\ m \in Nat /\ m <= QueueLimit + 2
      /\ \/ /\ m = n + 1
            /\ \A i \in 1..n : input_reports'[i] = input_reports[i]
            /\ input_reports'[m] = arrived
         \/ /\ n = QueueLimit + 2
            /\ m = QueueLimit + 2
            /\ \A i \in 1..(m - 1) : input_reports'[i] = input_reports[i + 1]
            /\ input_reports'[m] = arrived
  BY <1>0, <1>1, AppendedFacts
<1>4. \A i \in 1..n : input_reports[i] = arrived - 1 - n + i
  BY <1>1, <1>2 DEF Contiguous
<1>5. \/ got = arrived - 1 - n
      \/ got < arrived - 1 - n /\ n = QueueLimit + 2
  BY <1>1, <1>2 DEF Contiguous
<1> HIDE DEF n, m
<1>6. n \in Nat /\ n <= QueueLimit + 2
  BY <1>0 DEF n
<1>7. \A i \in 1..m : input_reports'[i] = arrived - m + i
  <2> SUFFICES ASSUME NEW i \in 1..m
               PROVE  input_reports'[i] = arrived - m + i
    OBVIOUS
  <2>1. CASE i = m
    BY <1>0, <1>3, <2>1
  <2>2. CASE i # m /\ m = n + 1
    <3>1. i \in 1..n
      BY <1>3, <1>6, <2>2
    <3>2. input_reports'[i] = input_reports[i]
      BY <1>3, <1>6, <2>2, <3>1
    <3> QED
      BY <1>0, <1>4, <1>6, <2>2, <3>1, <3>2
  <2>3. CASE i # m /\ m = n
    <3>1. i \in 1..(m - 1) /\ i + 1 \in 1..n
      BY <1>3, <1>6, <2>3
    <3>2. input_reports'[i] = input_reports[i + 1]
      BY <1>3, <1>6, <2>3, <3>1
    <3>3. input_reports[i + 1] = arrived - 1 - n + (i + 1)
      BY <1>4, <3>1
    <3> QED
      BY <1>0, <1>6, <2>3, <3>1, <3>2, <3>3
  <2> QED
    BY <1>3, <2>1, <2>2, <2>3
<1>8. \/ got = arrived - m
      \/ got < arrived - m /\ m = QueueLimit + 2
  BY <1>0, <1>3, <1>5, <1>6
<1> QED
  BY <1>1, <1>7, <1>8 DEF Contiguous, m

\* What hid_read takes from the list, and what it leaves.
LEMMA ReadInOrder ==
    ASSUME Numbers, QueueInv, ReadReport
    PROVE  /\ QueueInv'
           /\ got < got'
           /\ got' = got + 1 \/ got' - 1 + (QueueLimit + 2) <= arrived
           /\ got' \in 1..arrived
           /\ arrived' = arrived
<1>0. /\ QueueLimit \in Nat /\ arrived \in Nat /\ got \in Nat
      /\ input_reports \in Seq(Nat)
  BY LimitAssumption, BoundAssumption DEF Numbers
<1>1. /\ ~freed /\ freed' = freed /\ callback' = callback
      /\ arrived' = arrived
      /\ input_reports # << >>
      /\ got' = Head(input_reports)
      /\ input_reports' = Tail(input_reports)
  BY DEF ReadReport, ReadLocks, DeviceLives, handleVars, callbackVars
<1>2. Contiguous /\ Newest' = Newest
  BY <1>1 DEF QueueInv, Newest
<1>3. Newest \in Int /\ Newest <= arrived
  BY <1>0 DEF Newest
<1> DEFINE n == Len(input_reports)
           m == Len(input_reports')
<1>4. /\ n \in Nat \ {0} /\ m = n - 1
      /\ got' = input_reports[1]
      /\ \A i \in 1..(n - 1) : input_reports'[i] = input_reports[i + 1]
  BY <1>0, <1>1, TailFacts
<1>5. /\ \A i \in 1..n : input_reports[i] = Newest - n + i
      /\ got = Newest - n \/ (got < Newest - n /\ n = QueueLimit + 2)
  BY <1>2 DEF Contiguous
<1> HIDE DEF n, m
<1>6. got' = Newest - n + 1
  <2>1. 1 \in 1..n
    BY <1>4
  <2> QED
    BY <1>3, <1>4, <1>5, <2>1
<1>7. \A i \in 1..m : input_reports'[i] = Newest - m + i
  <2> SUFFICES ASSUME NEW i \in 1..m
               PROVE  input_reports'[i] = Newest - m + i
    OBVIOUS
  <2>1. i \in 1..(n - 1) /\ i + 1 \in 1..n
    BY <1>4
  <2>2. input_reports'[i] = Newest - n + (i + 1)
    BY <1>4, <1>5, <2>1
  <2> QED
    BY <1>3, <1>4, <2>1, <2>2
<1>8. got' = Newest - m
  BY <1>3, <1>4, <1>6
<1>9. QueueInv'
  BY <1>2, <1>7, <1>8 DEF QueueInv, Contiguous, m
<1>10. /\ got < got'
       /\ got' = got + 1 \/ got' - 1 + (QueueLimit + 2) <= arrived
       /\ got' \in 1..arrived
  BY <1>0, <1>3, <1>4, <1>5, <1>6
<1> QED
  BY <1>1, <1>9, <1>10

LEMMA InitQueue == Init => QueueInv
BY DEF Init, QueueInv

\* Every step keeps the list in order, and is one of ReportStream or none.
LEMMA QueueStep ==
    ASSUME Fields, Numbers, LifeInv, QueueInv, [Next]_vars
    PROVE  /\ QueueInv'
           /\ [Stream!StreamNext]_(Stream!streamVars)
<1> USE DEF Stream!StreamNext, Stream!streamVars
<1>0. /\ arrived \in Nat /\ got \in Nat
      /\ input_reports \in Seq(Nat) /\ Len(input_reports) \in Nat
  BY BoundAssumption DEF Numbers
<1>1. CASE CallbackCompleted
  <2>1. /\ callback = "none" /\ callback' = "append"
        /\ arrived' = arrived + 1 /\ got' = got
        /\ input_reports' = input_reports /\ freed' = freed
    BY <1>1 DEF CallbackCompleted, HandlesEvents, handleVars
  <2>2. Newest' = Newest
    BY <1>0, <2>1 DEF Newest
  <2>3. QueueInv'
    BY <2>1, <2>2 DEF QueueInv, Contiguous
  <2> QED
    BY <2>1, <2>3 DEF Stream!Send
<1>2. CASE CallbackTimedOut \/ CallbackResubmits
  <2>1. /\ callback # "append" /\ callback' # "append"
        /\ UNCHANGED <<arrived, got, input_reports, freed>>
    BY <1>2 DEF CallbackTimedOut, CallbackResubmits, HandlesEvents,
           handleVars, listVars
  <2>2. Newest' = Newest
    BY <2>1 DEF Newest
  <2> QED
    BY <2>1, <2>2 DEF QueueInv, Contiguous
<1>3. CASE CallbackAppends
  BY <1>3, AppendKeepsOrder DEF CallbackAppends
<1>4. CASE OpenUSBDevice
  <2>1. freed
    BY <1>4 DEF OpenUSBDevice, LifeInv, Handle
  <2>2. callback = "none"
    BY <2>1 DEF LifeInv, ReaderLife, Cancellation
  <2>3. /\ callback' = "none" /\ arrived' = 0 /\ got' = 0
        /\ input_reports' = << >>
    BY <1>4, <2>2 DEF OpenUSBDevice, callbackVars
  <2>4. Len(input_reports') = 0 /\ Newest' = 0 /\ got' = 0
    BY <2>3 DEF Newest
  <2>5. 1..Len(input_reports') = {}
    BY <2>4
  <2>6. got' = Newest' - Len(input_reports')
    BY <2>4
  <2>7. QueueInv'
    BY <2>5, <2>6 DEF QueueInv, Contiguous
  <2> QED
    BY <2>3, <2>7 DEF Stream!Reopen
<1>5. CASE CloseFrees
  BY <1>5 DEF CloseFrees, QueueInv
<1>6. CASE ReadReport
  <2>1. Stream!Receive(got') /\ got' \in 1..arrived
    BY <1>6, ReadInOrder DEF Stream!Receive
  <2> QED
    BY <1>6, <2>1, ReadInOrder
<1>7. CASE UNCHANGED <<listVars, freed, callback>>
  BY <1>7 DEF listVars, QueueInv, Contiguous, Newest
<1> QED
  BY <1>1, <1>2, <1>3, <1>4, <1>5, <1>6, <1>7, ListActions

\* The list between read_callback and hid_read implements ReportStream: the
\* reader has the reports in order, none twice, and loses one only if
\* QueueLimit + 2 newer ones have arrived.
THEOREM ReportsReadInOrder ==
    ASSUME ~CloseUnderRead
    PROVE  Spec => ReportsInOrder
<1>1. Init => Stream!StreamInit
  BY DEF Init, Stream!StreamInit
<1>2. /\ Fields /\ Numbers /\ LifeInv /\ QueueInv /\ [Next]_vars
      => QueueInv' /\ [Stream!StreamNext]_(Stream!streamVars)
  BY QueueStep
<1> QED
  BY <1>1, <1>2, InitQueue, LifeSafe, PTL
     DEF Spec, ReportsInOrder, Stream!StreamSpec
=============================================================================
