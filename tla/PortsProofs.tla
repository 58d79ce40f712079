----------------------------- MODULE PortsProofs -----------------------------
(***************************************************************************)
(* Theorems about the ports, for any number of descriptors and of clicks.  *)
(***************************************************************************)
EXTENDS Ports, TLAPS

(***************************************************************************)
(* The inductive invariant: what holds between two steps of Connect.       *)
(***************************************************************************)

\* When the port is about to be opened it has no descriptor left.
ClosedBeforeOpening ==
    gui \in {"open", "opening"} => \A fd \in Fd : owner[fd] # chosen

\* From OpenPort on the engine and the dialog agree on the port.
SelectedWhileOpening ==
    gui \in {"opening", "opened", "create"} => PortSelected = chosen

\* A handle of the engine's port that is used, or will be, is its own.
OwnHandle ==
    \/ handle[PortSelected] = Invalid
    \/ owner[handle[PortSelected]] = PortSelected

OwnHandleKept ==
    (gui = "idle" /\ worker # "none") \/ gui \in {"opened", "create"}
        => OwnHandle

\* Disconnect closes the port when the worker has ended.
WorkerEnded == gui = "disconnect close" => worker = "none"

PortsInv == /\ TypeOK
            /\ NothingLeaks
            /\ ClosedBeforeOpening
            /\ SelectedWhileOpening
            /\ OwnHandleKept
            /\ WorkerEnded

LEMMA InvalidIsNoFd == \A fd \in Fd : fd # Invalid
BY FdAssumption DEF Fd, Invalid

LEMMA InitPortsInv == Init => PortsInv
<1> SUFFICES ASSUME Init PROVE PortsInv
  OBVIOUS
<1>1. TypeOK
  <2>1. connects \in 0..MaxConnects
    BY ConnectsAssumption DEF Init
  <2> QED
    BY <2>1 DEF Init, TypeOK, Port
<1>2. NothingLeaks
  BY DEF Init, NothingLeaks, Port
<1> QED
  BY <1>1, <1>2 DEF Init, PortsInv, ClosedBeforeOpening,
     SelectedWhileOpening, OwnHandleKept, WorkerEnded

\* Closing a port's descriptor changes no type.
LEMMA ClosePortType ==
    ASSUME TypeOK, NEW p \in Port, ClosePort(p)
    PROVE  /\ handle' \in [Port -> Fd \cup {Invalid}]
           /\ owner' \in [Fd -> Port \cup {"none", "hex"}]
BY DEF TypeOK, ClosePort, Closed

LEMMA OpenPortType ==
    ASSUME TypeOK, NEW p \in Port, OpenPort(p)
    PROVE  /\ handle' \in [Port -> Fd \cup {Invalid}]
           /\ owner' \in [Fd -> Port \cup {"none", "hex"}]
BY DEF TypeOK, OpenPort, OpenFails, Free

LEMMA TypeStep ==
    ASSUME TypeOK, [Next]_vars
    PROVE  TypeOK'
<1> USE DEF TypeOK
<1>1. CASE WorkerCalls
  BY <1>1 DEF WorkerCalls
<1>2. CASE WorkerReturns
  BY <1>2 DEF WorkerReturns
<1>3. CASE ClickCheckBox
  BY <1>3 DEF ClickCheckBox
<1>4. CASE OnBootInfo
  BY <1>4 DEF OnBootInfo
<1>5. CASE LoadHexFile
  BY <1>5 DEF LoadHexFile, Free
<1>6. CASE Connect
  <2>1. connects' \in 0..MaxConnects
    BY <1>6, ConnectsAssumption DEF Connect, Click
  <2> QED
    BY <1>6, <2>1 DEF Connect, Click
<1>7. CASE Disconnect
  <2>1. connects' \in 0..MaxConnects
    BY <1>7, ConnectsAssumption DEF Disconnect, Click
  <2> QED
    BY <1>7, <2>1 DEF Disconnect, Click
<1>8. CASE ConnectCloses
  BY <1>8, ClosePortType DEF ConnectCloses
<1>9. CASE ConnectSelects
  BY <1>9 DEF ConnectSelects
<1>10. CASE ConnectOpens
  BY <1>10, OpenPortType DEF ConnectOpens
<1>11. CASE ConnectShutsDown
  BY <1>11 DEF ConnectShutsDown
<1>12. CASE CreateRxTxThread
  BY <1>12 DEF CreateRxTxThread
<1>13. CASE DisconnectShutsDown
  BY <1>13 DEF DisconnectShutsDown
<1>14. CASE DisconnectCloses
  BY <1>14, ClosePortType DEF DisconnectCloses
<1>15. CASE UNCHANGED vars
  BY <1>15 DEF vars
<1> QED
  BY <1>1, <1>2, <1>3, <1>4, <1>5, <1>6, <1>7, <1>8, <1>9, <1>10, <1>11,
     <1>12, <1>13, <1>14, <1>15 DEF Next

\* A port that loses no descriptor before loses none when it is closed, and
\* has none afterwards.
LEMMA ClosePortLeaksNothing ==
    ASSUME TypeOK, NothingLeaks, NEW p \in Port, ClosePort(p)
    PROVE  NothingLeaks' /\ \A fd \in Fd : owner'[fd] # p
<1>1. owner' = [d \in Fd |-> IF d = handle[p] THEN "none" ELSE owner[d]]
  BY DEF ClosePort, Closed
<1>2. "none" \notin Port
  BY DEF Port
<1>3. \A fd \in Fd : owner'[fd] # p
  BY <1>1, <1>2 DEF NothingLeaks
<1>4. ASSUME NEW fd \in Fd, owner'[fd] \in Port PROVE handle'[owner'[fd]] = fd
  <2>1. owner'[fd] = owner[fd] /\ owner[fd] # p
    BY <1>1, <1>2, <1>3, <1>4
  <2>2. handle'[owner[fd]] = handle[owner[fd]]
    BY <1>4, <2>1 DEF ClosePort, TypeOK
  <2> QED
    BY <1>4, <2>1, <2>2 DEF NothingLeaks
<1> QED
  BY <1>3, <1>4 DEF NothingLeaks

\* Nor does opening one that has none; its handle is its own, and the handles
\* of the others are what they were.
LEMMA OpenPortLeaksNothing ==
    ASSUME TypeOK, NothingLeaks, NEW p \in Port, OpenPort(p),
           \A fd \in Fd : owner[fd] # p
    PROVE  /\ NothingLeaks'
           /\ handle'[p] = Invalid \/ owner'[handle'[p]] = p
<1>1. CASE OpenFails(p)
  BY <1>1 DEF OpenFails, NothingLeaks, TypeOK
<1>2. ASSUME NEW new \in Free,
             owner' = [owner EXCEPT ![new] = p],
             handle' = [handle EXCEPT ![p] = new]
      PROVE  /\ NothingLeaks'
             /\ handle'[p] = Invalid \/ owner'[handle'[p]] = p
  <2>1. new \in Fd /\ owner'[new] = p /\ handle'[p] = new
    BY <1>2 DEF TypeOK, Free
  <2>2. ASSUME NEW fd \in Fd, owner'[fd] \in Port PROVE handle'[owner'[fd]] = fd
    <3>1. CASE fd = new
      BY <2>1, <3>1
    <3>2. CASE fd # new
      <4>1. owner'[fd] = owner[fd]
        BY <1>2, <3>2 DEF TypeOK
      <4>2. handle'[owner[fd]] = handle[owner[fd]]
        BY <1>2, <2>2, <4>1 DEF TypeOK
      <4> QED
        BY <2>2, <4>1, <4>2 DEF NothingLeaks
    <3> QED
      BY <3>1, <3>2
  <2> QED
    BY <2>1, <2>2 DEF NothingLeaks
<1> QED
  BY <1>1, <1>2 DEF OpenPort

\* The hex file takes a descriptor nobody has.
LEMMA LoadTakesNothing ==
    ASSUME PortsInv, LoadHexFile
    PROVE  NothingLeaks' /\ (worker # "none" => OwnHandle')
<1>1. PICK new \in Free : owner' = [owner EXCEPT ![new] = "hex"]
  BY DEF LoadHexFile
<1>2. new \in Fd /\ owner[new] = "none"
  BY DEF Free
<1>3. "hex" \notin Port /\ "none" \notin Port
  BY DEF Port
<1>4. handle' = handle /\ PortSelected' = PortSelected
  BY DEF LoadHexFile
<1>5. NothingLeaks'
  BY <1>1, <1>2, <1>3, <1>4 DEF PortsInv, NothingLeaks, TypeOK
<1>6. ASSUME worker # "none" PROVE OwnHandle'
  <2>1. OwnHandle
    BY <1>6 DEF PortsInv, OwnHandleKept, LoadHexFile
  <2>2. handle[PortSelected] # new \/ handle[PortSelected] = Invalid
    BY <1>2, <1>3, <2>1 DEF OwnHandle, PortsInv, TypeOK
  <2> QED
    BY <1>1, <1>4, <2>1, <2>2 DEF OwnHandle, PortsInv, TypeOK
<1> QED
  BY <1>5, <1>6

LEMMA PortsStep ==
    ASSUME PortsInv, [Next]_vars
    PROVE  PortsInv'
<1> USE DEF PortsInv
<1>0. TypeOK'
  BY TypeStep
<1> USE DEF ClosedBeforeOpening, SelectedWhileOpening, OwnHandleKept,
            WorkerEnded
<1>1. CASE WorkerCalls
  BY <1>0, <1>1 DEF WorkerCalls, NothingLeaks, OwnHandle
<1>2. CASE WorkerReturns
  BY <1>0, <1>2 DEF WorkerReturns, NothingLeaks, OwnHandle
<1>3. CASE ClickCheckBox
  BY <1>0, <1>3 DEF ClickCheckBox, NothingLeaks, OwnHandle
<1>4. CASE OnBootInfo
  BY <1>0, <1>4 DEF OnBootInfo, NothingLeaks, OwnHandle
<1>5. CASE LoadHexFile
  BY <1>0, <1>5, LoadTakesNothing DEF LoadHexFile
<1>6. CASE Connect
  <2>1. \A fd \in Fd : fd # Invalid
    BY InvalidIsNoFd
  <2>2. chosen \in Port
    BY DEF TypeOK
  <2>3. ASSUME gui' = "open", NEW fd \in Fd PROVE owner[fd] # chosen
    <3>1. handle[chosen] = Invalid
      BY <1>6, <2>3 DEF Connect, GetPortOpenStatus
    <3> QED
      BY <2>1, <2>2, <3>1 DEF NothingLeaks
  <2> QED
    BY <1>0, <1>6, <2>3 DEF Connect, Click, NothingLeaks, OwnHandle
<1>7. CASE Disconnect
  BY <1>0, <1>7 DEF Disconnect, Click, NothingLeaks, OwnHandle
<1>8. CASE ConnectCloses
  <2>1. NothingLeaks' /\ \A fd \in Fd : owner'[fd] # chosen
    BY <1>8, ClosePortLeaksNothing DEF ConnectCloses, TypeOK
  <2> QED
    BY <1>0, <1>8, <2>1 DEF ConnectCloses
<1>9. CASE ConnectSelects
  BY <1>0, <1>9 DEF ConnectSelects, NothingLeaks
<1>10. CASE ConnectOpens
  <2>1. NothingLeaks' /\ (handle'[chosen] = Invalid \/ owner'[handle'[chosen]] = chosen)
    BY <1>10, OpenPortLeaksNothing DEF ConnectOpens, TypeOK
  <2> QED
    BY <1>0, <1>10, <2>1 DEF ConnectOpens, OwnHandle
<1>11. CASE ConnectShutsDown
  BY <1>0, <1>11 DEF ConnectShutsDown, NothingLeaks, OwnHandle
<1>12. CASE CreateRxTxThread
  BY <1>0, <1>12 DEF CreateRxTxThread, NothingLeaks, OwnHandle
<1>13. CASE DisconnectShutsDown
  BY <1>0, <1>13 DEF DisconnectShutsDown, NothingLeaks, OwnHandle
<1>14. CASE DisconnectCloses
  <2>1. NothingLeaks'
    BY <1>14, ClosePortLeaksNothing DEF DisconnectCloses, TypeOK
  <2>2. worker' = "none"
    BY <1>14 DEF DisconnectCloses
  <2> QED
    BY <1>0, <1>14, <2>1, <2>2 DEF DisconnectCloses
<1>15. CASE UNCHANGED vars
  BY <1>0, <1>15 DEF vars, NothingLeaks, OwnHandle
<1> QED
  BY <1>1, <1>2, <1>3, <1>4, <1>5, <1>6, <1>7, <1>8, <1>9, <1>10, <1>11,
     <1>12, <1>13, <1>14, <1>15 DEF Next

LEMMA PortsInvariant == Spec => []PortsInv
BY InitPortsInv, PortsStep, PTL DEF Spec

\* Every variable of the ports keeps a value of its type.
THEOREM PortsTypeCorrect == Spec => []TypeOK
<1>1. PortsInv => TypeOK
  BY DEF PortsInv
<1> QED
  BY <1>1, PortsInvariant, PTL

\* However the user changes the port between Connect and Disconnect, and
\* whatever fails to open, no port loses a descriptor it has not closed.
THEOREM NoPortLeaks == Spec => []NothingLeaks
<1>1. PortsInv => NothingLeaks
  BY DEF PortsInv
<1> QED
  BY <1>1, PortsInvariant, PTL

\* The worker never reads or writes what a descriptor that was closed before
\* has become since, when the GUI thread is idle.
THEOREM WorkerKeepsItsPort == Spec => []WorkerUsesOwnPort
<1>1. PortsInv => WorkerUsesOwnPort
  BY DEF PortsInv, OwnHandleKept, OwnHandle, WorkerUsesOwnPort
<1> QED
  BY <1>1, PortsInvariant, PTL
=============================================================================
