--------------------------- MODULE NicDriverProofs ---------------------------
(***************************************************************************)
(* Proofs about NicDriver, for rings of any size, any number of frames and *)
(* any interleaving of tasks, interrupt handler, controller and link.      *)
(***************************************************************************)
EXTENDS NicDriver, TLAPS, FiniteSetTheorems, WellFoundedInduction

-----------------------------------------------------------------------------
(* The receive ring as the driver scans it *)

\* A set of descriptors that has no gap is an initial interval.
LEMMA NoGap ==
    ASSUME NEW n \in Nat, NEW S \in SUBSET (0 .. n - 1),
           \A i \in S : \A k \in 0..i : k \in S
    PROVE  \E c \in 0..n : S = 0 .. c - 1 /\ Cardinality(S) = c
<1>1. CASE S = 0 .. n - 1
  <2>1. Cardinality(0 .. n - 1) = n
    BY FS_Interval
  <2> QED  BY <1>1, <2>1
<1>2. CASE S # 0 .. n - 1
  <2> DEFINE Missing == {k \in Nat : k \notin S}
  <2>1. n \in Missing
    OBVIOUS
  <2>2. PICK c \in Missing : \A k \in 0 .. c - 1 : k \notin Missing
    <3>1. PICK c \in Missing : \A k \in Missing : ~ (<<k, c>> \in OpToRel(<, Nat))
      BY <2>1, WFMin, NatLessThanWellFounded, Zenon
    <3>2. ASSUME NEW k \in Missing  PROVE ~ (k < c)
      BY <3>1 DEF OpToRel
    <3> QED  BY <3>2
  <2>3. c \in 0..n
    BY <2>1, <2>2
  <2>4. 0 .. c - 1 \subseteq S
    BY <2>2
  <2>5. ASSUME NEW i \in S  PROVE i \in 0 .. c - 1
    <3>1. i \in 0 .. n - 1 /\ i # c
      BY <2>2
    <3>2. i < c
      BY <3>1, <2>2, <2>3
    <3> QED  BY <3>1, <3>2, <2>3
  <2>6. Cardinality(0 .. c - 1) = c
    BY <2>3, FS_Interval
  <2> QED  BY <2>3, <2>4, <2>5, <2>6
<1> QED  BY <1>1, <1>2

LEMMA ReleasedCount ==
    \E c \in 0..RxCount : /\ Released = 0 .. c - 1 /\ Cardinality(Released) = c
                          /\ \A i \in 0 .. c - 1 : RxEntry(i).own
                          /\ FrameEnds # {} => c >= 1
<1>1. RxCount \in Nat /\ RxIndexes = 0 .. RxCount - 1
  BY RxCountAssumption DEF RxIndexes
<1>2. Released \subseteq 0 .. RxCount - 1
  BY <1>1 DEF Released, Owned
<1>3. ASSUME NEW i \in Released, NEW k \in 0..i  PROVE k \in Released
  <2>1. i \in RxIndexes /\ k \in RxIndexes /\ k <= i
    BY <1>1, <1>2
  <2>2. k \in Owned
    <3>1. \A j \in 0..i : RxEntry(j).own
      BY DEF Released, Owned
    <3>2. 0..k \subseteq 0..i
      BY <2>1, <1>1
    <3> QED  BY <2>1, <3>1, <3>2 DEF Owned
  <2>3. ASSUME NEW e \in FrameEnds  PROVE k <= e
    BY <2>1, <1>1 DEF Released, FrameEnds, Owned
  <2>4. ASSUME NEW s \in Sofs, i < s  PROVE k < s
    BY <2>1, <2>4, <1>1 DEF Sofs, Owned
  <2> QED  BY <2>2, <2>3, <2>4 DEF Released
<1>4. PICK c \in 0..RxCount : Released = 0 .. c - 1 /\ Cardinality(Released) = c
  BY <1>1, <1>2, <1>3, NoGap
<1>5. ASSUME NEW i \in 0 .. c - 1  PROVE RxEntry(i).own
  <2>1. i \in Owned /\ i \in 0..i
    BY <1>1, <1>4 DEF Released
  <2> QED  BY <2>1 DEF Owned
<1>6. ASSUME FrameEnds # {}  PROVE c >= 1
  <2>1. 0 \in Released
    BY <1>1, <1>6 DEF Released, FrameEnds, Owned
  <2> QED  BY <2>1, <1>4
<1> QED  BY <1>4, <1>5, <1>6

-----------------------------------------------------------------------------
(* Types *)

\* The part that arrives next belongs to the frame.
TypeInv == TypeOK /\ incoming.part <= incoming.len

LEMMA SlotType ==
    ASSUME rxBufferIndex \in RxIndexes, NEW i \in 0..RxCount
    PROVE  RxSlot(i) \in RxIndexes
BY RxCountAssumption DEF RxSlot, RxIndexes

LEMMA FrameTakenType ==
    ASSUME TypeOK, FrameEnds # {}
    PROVE  FrameTaken \in Received
<1>1. PICK c \in 0..RxCount : Cardinality(Released) = c /\ c >= 1
  BY ReleasedCount
<1>2. RxSlot(c - 1) \in RxIndexes
  BY <1>1, SlotType, RxCountAssumption DEF TypeOK, RxTypeOK
<1>3. RxEntry(c - 1).data.frame \in 0..MaxEvents
  BY <1>2 DEF TypeOK, RxTypeOK, RxEntry, RxContents
<1> QED  BY <1>1, <1>3 DEF FrameTaken, Received

LEMMA InitTypes == Init => TypeInv
<1> SUFFICES ASSUME Init  PROVE TypeInv
  OBVIOUS
<1> USE TxCountAssumption, RxCountAssumption, MaxEventsAssumption DEF Init
<1>1. TxTypeOK
  BY DEF TxTypeOK, TxIndexes
<1>2. RxTypeOK /\ incoming.part <= incoming.len
  BY DEF RxTypeOK, RxIndexes, RxContents, Received
<1>3. IrqTypeOK
  BY DEF IrqTypeOK
<1>4. EventTypeOK
  BY DEF EventTypeOK
<1>5. TaskTypeOK
  <2>1. events \in 0..MaxEvents
    OBVIOUS
  <2>2. netMutex \in Tasks \cup {"free"} /\ ticking \in BOOLEAN
    OBVIOUS
  <2>3. /\ at \in [Tasks -> AppPlaces \cup NetPlaces]
        /\ at["app"] \in AppPlaces /\ at["net"] \in NetPlaces
    BY DEF Tasks, AppPlaces, NetPlaces
  <2> QED  BY <2>1, <2>2, <2>3 DEF TaskTypeOK
<1> QED  BY <1>1, <1>2, <1>3, <1>4, <1>5 DEF TypeInv, TypeOK

\* Each part of the invariant depends on a few variables.
LEMMA SameTx == TxTypeOK /\ UNCHANGED <<txRing, accepted, wire>> => TxTypeOK'
BY DEF TxTypeOK, txRing

LEMMA SameRx ==
    RxTypeOK /\ incoming.part <= incoming.len /\ UNCHANGED <<rxRing, stored, delivered>>
        => RxTypeOK' /\ (incoming.part <= incoming.len)'
BY DEF RxTypeOK, rxRing

LEMMA SameIrq ==
    IrqTypeOK /\ UNCHANGED <<isr, irq, tsr, rsr, rsrSeen, handler>> => IrqTypeOK'
BY DEF IrqTypeOK, handler

LEMMA SameEvents == EventTypeOK /\ UNCHANGED <<nicTxEvent, netFlags, link>> => EventTypeOK'
BY DEF EventTypeOK, netFlags, link

LEMMA SameTasks == TaskTypeOK /\ UNCHANGED <<at, ticking, netMutex, events>> => TaskTypeOK'
BY DEF TaskTypeOK

LEMMA HardwareTypes ==
    ASSUME TypeInv, Hardware \/ Environment
    PROVE  TypeInv'
<1> USE TxCountAssumption, RxCountAssumption, MaxEventsAssumption DEF TypeInv, TypeOK
<1>1. CASE HwTransmit
  <2>1. TxTypeOK'
    <3>1. txBufferDesc[hwTx].frame \in 0..MaxEvents
      BY DEF TxTypeOK
    <3>2. wire' \in Seq(0..MaxEvents)
      BY <1>1, <3>1 DEF HwTransmit, TxTypeOK
    <3>3. txBufferDesc' \in [TxIndexes -> [used: BOOLEAN, frame: 0..MaxEvents]]
      BY <1>1 DEF HwTransmit, TxTypeOK
    <3>4. hwTx' \in TxIndexes
      BY <1>1 DEF HwTransmit, NextTx, TxTypeOK, TxIndexes
    <3> QED  BY <1>1, <3>2, <3>3, <3>4 DEF HwTransmit, TxTypeOK
  <2>2. RxTypeOK' /\ (incoming.part <= incoming.len)' /\ EventTypeOK' /\ TaskTypeOK'
    BY <1>1, SameRx, SameEvents, SameTasks DEF HwTransmit, tasks
  <2>3. IrqTypeOK'
    BY <1>1 DEF HwTransmit, IrqTypeOK, handler, tasks
  <2> QED  BY <2>1, <2>2, <2>3
<1>2. CASE HwStoreBuffer
  <2>1. RxTypeOK' /\ (incoming.part <= incoming.len)'
    <3>1. rxBufferDesc' \in [RxIndexes -> [own: BOOLEAN, sof: BOOLEAN, eof: BOOLEAN,
                                          data: RxContents]]
      BY <1>2 DEF HwStoreBuffer, RxTypeOK, RxContents
    <3>2. hwRx' \in RxIndexes
      BY <1>2, SMTT(30) DEF HwStoreBuffer, NextRx, RxTypeOK, RxIndexes
    <3>3. /\ incoming' \in [frame: 0..MaxEvents, part: 0..MaxLen, len: 1..MaxLen]
          /\ incoming'.part <= incoming'.len
      BY <1>2, SMTT(30) DEF HwStoreBuffer, RxTypeOK
    <3>4. [frame |-> incoming.frame, whole |-> TRUE] \in Received
      BY DEF RxTypeOK, Received
    <3>5. stored' \in Seq(Received)
      BY <1>2, <3>4 DEF HwStoreBuffer, RxTypeOK
    <3> QED  BY <1>2, <3>1, <3>2, <3>3, <3>5 DEF HwStoreBuffer, RxTypeOK
  <2>2. TxTypeOK' /\ EventTypeOK' /\ TaskTypeOK'
    BY <1>2, SameTx, SameEvents, SameTasks DEF HwStoreBuffer, tasks
  <2>3. IrqTypeOK'
    BY <1>2 DEF HwStoreBuffer, IrqTypeOK, handler, tasks
  <2> QED  BY <2>1, <2>2, <2>3
<1>3. CASE HwNoBuffer
  <2>1. RxTypeOK' /\ (incoming.part <= incoming.len)'
    <3>1. /\ incoming' \in [frame: 0..MaxEvents, part: 0..MaxLen, len: 1..MaxLen]
          /\ incoming'.part <= incoming'.len
      BY <1>3, SMTT(30) DEF HwNoBuffer, RxTypeOK
    <3> QED  BY <1>3, <3>1 DEF HwNoBuffer, RxTypeOK, frames
  <2>2. TxTypeOK' /\ EventTypeOK' /\ TaskTypeOK'
    BY <1>3, SameTx, SameEvents, SameTasks DEF HwNoBuffer, tasks, frames
  <2>3. IrqTypeOK'
    BY <1>3 DEF HwNoBuffer, IrqTypeOK, handler, tasks
  <2> QED  BY <2>1, <2>2, <2>3
<1>4. CASE LinkChange
  <2>1. TxTypeOK' /\ RxTypeOK' /\ (incoming.part <= incoming.len)' /\ IrqTypeOK'
    BY <1>4, SameTx, SameRx, SameIrq DEF LinkChange, frames
  <2>2. EventTypeOK'
    BY <1>4 DEF LinkChange, EventTypeOK, netFlags
  <2>3. TaskTypeOK'
    BY <1>4 DEF LinkChange, Event, TaskTypeOK
  <2> QED  BY <2>1, <2>2, <2>3
<1>5. ASSUME NEW len \in 1..MaxLen, HwFrameStart(len)  PROVE TypeInv'
  <2>1. TxTypeOK' /\ IrqTypeOK' /\ EventTypeOK'
    BY <1>5, SameTx, SameIrq, SameEvents DEF HwFrameStart, frames
  <2>2. RxTypeOK' /\ (incoming.part <= incoming.len)'
    BY <1>5 DEF HwFrameStart, Event, TaskTypeOK, RxTypeOK, frames
  <2>3. TaskTypeOK'
    BY <1>5 DEF HwFrameStart, Event, TaskTypeOK
  <2> QED  BY <2>1, <2>2, <2>3
<1> QED  BY <1>1, <1>2, <1>3, <1>4, <1>5 DEF Hardware, Environment

LEMMA IsrTypes ==
    ASSUME TypeInv, Isr
    PROVE  TypeInv'
<1> USE DEF TypeInv, TypeOK
<1>1. TxTypeOK' /\ RxTypeOK' /\ (incoming.part <= incoming.len)' /\ TaskTypeOK'
  BY SameTx, SameRx, SameTasks DEF Isr, IsrEnter, IsrClear, IsrNotify, tasks, frames
<1>2. IrqTypeOK' /\ EventTypeOK'
  <2>1. CASE IsrEnter
    BY <2>1, SameEvents DEF IsrEnter, IrqTypeOK, tasks
  <2>2. CASE IsrClear
    BY <2>2, SameEvents DEF IsrClear, IrqTypeOK, tasks
  <2>3. CASE IsrNotify
    BY <2>3 DEF IsrNotify, IrqTypeOK, EventTypeOK, link, tasks
  <2> QED  BY <2>1, <2>2, <2>3 DEF Isr
<1> QED  BY <1>1, <1>2

\* A task moves to a place of its own.
LEMMA GoTypes ==
    ASSUME TaskTypeOK, NEW t \in Tasks, NEW place, Go(t, place),
           place \in IF t = "app" THEN AppPlaces ELSE NetPlaces
    PROVE  /\ at' \in [Tasks -> AppPlaces \cup NetPlaces]
           /\ at'["app"] \in AppPlaces /\ at'["net"] \in NetPlaces
BY DEF TaskTypeOK, Go, Tasks

LEMMA SendTypes ==
    ASSUME TypeInv, NEW t \in Tasks, Send(t)
    PROVE  TypeInv'
<1> USE DEF TypeInv, TypeOK
<1>1. RxTypeOK' /\ (incoming.part <= incoming.len)'
  BY SameRx DEF Send, WaitTxEvent, SendTooLong, SendRefused, SendFrame, SendTail, frames
<1>2. IrqTypeOK' /\ EventTypeOK'
  <2>1. irq' \in BOOLEAN /\ UNCHANGED <<isr, tsr, rsr, rsrSeen, handler>>
    BY DEF IrqTypeOK, Send, WaitTxEvent, SendTooLong, SendRefused, SendFrame, SendTail,
           SendReturns
  <2>2. nicTxEvent' \in BOOLEAN /\ UNCHANGED <<netFlags, link>>
    BY DEF EventTypeOK, Send, WaitTxEvent, SendTooLong, SendRefused, SendFrame, SendTail
  <2> QED  BY <2>1, <2>2 DEF IrqTypeOK, EventTypeOK, handler, netFlags, link
<1>3. TxTypeOK'
  <2>1. CASE SendFrame(t)
    BY <2>1, TxCountAssumption DEF SendFrame, NextTx, TxTypeOK, TxIndexes, TaskTypeOK
  <2>2. CASE ~SendFrame(t)
    BY <2>2, SameTx DEF Send, WaitTxEvent, SendTooLong, SendRefused, SendTail, frames
  <2> QED  BY <2>1, <2>2
<1>4. TaskTypeOK'
  <2>1. ASSUME SendReturns(t), UNCHANGED <<ticking, events>>  PROVE TaskTypeOK'
    <3>1. /\ at' \in [Tasks -> AppPlaces \cup NetPlaces]
          /\ at'["app"] \in AppPlaces /\ at'["net"] \in NetPlaces
      BY <2>1, GoTypes DEF SendReturns, AppPlaces, NetPlaces
    <3> QED  BY <2>1, <3>1 DEF SendReturns, TaskTypeOK
  <2>2. ASSUME NEW place \in {"taken", "tail"}, Go(t, place), UNCHANGED <<ticking, events, netMutex>>
        PROVE  TaskTypeOK'
    <3>1. /\ at' \in [Tasks -> AppPlaces \cup NetPlaces]
          /\ at'["app"] \in AppPlaces /\ at'["net"] \in NetPlaces
      BY <2>2, GoTypes DEF Sending, AppPlaces, NetPlaces
    <3> QED  BY <2>2, <3>1 DEF TaskTypeOK
  <2> QED
    BY <2>1, <2>2 DEF Send, WaitTxEvent, SendTooLong, SendRefused, SendFrame, SendTail
<1> QED  BY <1>1, <1>2, <1>3, <1>4

LEMMA NetTaskTypes ==
    ASSUME TypeInv, NetTask
    PROVE  TypeInv'
<1>0. CASE Send("net")
  BY <1>0, SendTypes DEF Tasks
<1> SUFFICES ASSUME ~Send("net")  PROVE TypeInv'
  BY <1>0
<1> USE DEF TypeInv, TypeOK
<1> DEFINE Moves == \E place \in NetPlaces : Go("net", place)
<1>1. TxTypeOK'
  BY SameTx DEF NetTask, NetStart, NetWait, NetLock, CheckNicEvent, ReadReceiveStatus,
     ClearReceiveStatus, ReceivePacket, Reply, ProcessDone, CheckPhyEvent, NetUnlock,
     NicTick, TimerSends, NetTickDone, frames
<1>2. RxTypeOK' /\ (incoming.part <= incoming.len)'
  <2>1. CASE ReceivePacket
    <3>1. rxBufferDesc' \in [RxIndexes -> [own: BOOLEAN, sof: BOOLEAN, eof: BOOLEAN,
                                          data: RxContents]]
      BY <2>1 DEF ReceivePacket, RxTypeOK
    <3>2. rxBufferIndex' \in RxIndexes
      BY <2>1, ReleasedCount, SlotType DEF ReceivePacket, RxTypeOK
    <3>3. delivered' \in Seq(Received)
      BY <2>1, FrameTakenType DEF ReceivePacket, RxTypeOK
    <3> QED  BY <2>1, <3>1, <3>2, <3>3 DEF ReceivePacket, RxTypeOK
  <2>2. CASE ~ReceivePacket
    BY <2>2, SameRx DEF NetTask, NetStart, NetWait, NetLock, CheckNicEvent,
       ReadReceiveStatus, ClearReceiveStatus, Reply, ProcessDone, CheckPhyEvent,
       NetUnlock, NicTick, TimerSends, NetTickDone, frames
  <2> QED  BY <2>1, <2>2
<1>3. IrqTypeOK'
  <2>1. irq' \in BOOLEAN /\ UNCHANGED <<isr, tsr, handler>>
    BY DEF IrqTypeOK, NetTask, NetStart, NetWait, NetLock, CheckNicEvent,
       ReadReceiveStatus, ClearReceiveStatus, ReceivePacket, Reply, ProcessDone,
       CheckPhyEvent, NetUnlock, NicTick, TimerSends, NetTickDone
  <2>2. rsr' \subseteq {"REC", "BNA"} /\ rsrSeen' \subseteq {"REC", "BNA"}
    BY DEF IrqTypeOK, NetTask, NetStart, NetWait, NetLock, CheckNicEvent,
       ReadReceiveStatus, ClearReceiveStatus, ReceivePacket, Reply, ProcessDone,
       CheckPhyEvent, NetUnlock, NicTick, TimerSends, NetTickDone
  <2> QED  BY <2>1, <2>2 DEF IrqTypeOK, handler
<1>4. EventTypeOK'
  <2>1. CASE NetWait \/ CheckNicEvent
    BY <2>1 DEF NetWait, CheckNicEvent, EventTypeOK, link
  <2>2. CASE CheckPhyEvent
    BY <2>2 DEF CheckPhyEvent, EventTypeOK
  <2>3. CASE NicTick
    BY <2>3 DEF NicTick, EventTypeOK
  <2>4. CASE ~(NetWait \/ CheckNicEvent \/ CheckPhyEvent \/ NicTick)
    BY <2>4, SameEvents DEF NetTask, NetStart, NetLock, ReadReceiveStatus,
       ClearReceiveStatus, ReceivePacket, Reply, ProcessDone, NetUnlock,
       TimerSends, NetTickDone
  <2> QED  BY <2>1, <2>2, <2>3, <2>4
<1>5. TaskTypeOK'
  <2>1. Moves
    BY DEF NetPlaces, Sending, NetTask, NetStart, NetWait, NetLock, CheckNicEvent,
       ReadReceiveStatus, ClearReceiveStatus, ReceivePacket, Reply, ProcessDone,
       CheckPhyEvent, NetUnlock, NicTick, TimerSends, NetTickDone
  <2>2. /\ at' \in [Tasks -> AppPlaces \cup NetPlaces]
        /\ at'["app"] \in AppPlaces /\ at'["net"] \in NetPlaces
    BY <2>1, GoTypes DEF Tasks
  <2>3. netMutex' \in Tasks \cup {"free"} /\ ticking' \in BOOLEAN
    BY DEF TaskTypeOK, Tasks, NetTask, NetStart, NetWait, NetLock,
       CheckNicEvent, ReadReceiveStatus, ClearReceiveStatus, ReceivePacket, Reply,
       ProcessDone, CheckPhyEvent, NetUnlock, NicTick, TimerSends, NetTickDone
  <2>4. events' \in 0..MaxEvents
    BY MaxEventsAssumption DEF TaskTypeOK, Event, NetTask, NetStart, NetWait, NetLock,
       CheckNicEvent, ReadReceiveStatus, ClearReceiveStatus, ReceivePacket, Reply,
       ProcessDone, CheckPhyEvent, NetUnlock, NicTick, TimerSends, NetTickDone
  <2> QED  BY <2>2, <2>3, <2>4 DEF TaskTypeOK
<1> QED  BY <1>1, <1>2, <1>3, <1>4, <1>5

LEMMA AppSendTypes ==
    ASSUME TypeInv, AppSend
    PROVE  TypeInv'
<1> USE DEF TypeInv, TypeOK, AppSend
<1>1. TxTypeOK' /\ RxTypeOK' /\ (incoming.part <= incoming.len)' /\ IrqTypeOK' /\ EventTypeOK'
  BY SameTx, SameRx, SameIrq, SameEvents DEF frames
<1>2. /\ at' \in [Tasks -> AppPlaces \cup NetPlaces]
      /\ at'["app"] \in AppPlaces /\ at'["net"] \in NetPlaces
  BY GoTypes DEF Tasks, AppPlaces, Sending
<1>3. TaskTypeOK'
  BY <1>2, MaxEventsAssumption DEF TaskTypeOK, Event, Tasks
<1> QED  BY <1>1, <1>3

LEMMA NextTypes == TypeInv /\ [Next]_vars => TypeInv'
<1> SUFFICES ASSUME TypeInv, [Next]_vars  PROVE TypeInv'
  OBVIOUS
<1>1. CASE UNCHANGED vars
  BY <1>1, SameTx, SameRx, SameIrq, SameEvents, SameTasks
     DEF vars, TypeInv, TypeOK, tasks, frames
<1> QED
  BY <1>1, HardwareTypes, IsrTypes, AppSendTypes, SendTypes, NetTaskTypes
     DEF Next, Tasks

\* TypeOK: every descriptor, index, flag and place has its type, and what
\* same54EthReceivePacket reads of the ring is a frame that exists.
THEOREM Typed == Spec => []TypeOK
BY InitTypes, NextTypes, PTL DEF Spec, TypeInv

-----------------------------------------------------------------------------
(* Wake-ups of senders *)

\* Whether a task holds the event only depends on the tasks in these places.
LEMMA HolderMoves ==
    ASSUME TaskTypeOK, NEW t \in Tasks, NEW place, Go(t, place),
           at[t] \notin {"taken", "tail"}
    PROVE  Holder => Holder'
BY DEF Holder, Go, TaskTypeOK

\* TxWakeup: whatever tasks, handler and controller interleave, a sender that
\* waits while the next buffer is free is woken.
THEOREM SendersWoken == Spec => []TxWakeup
<1>1. Init => TxWakeup
  BY DEF Init, TxWakeup
<1>2. TypeInv /\ TypeInv' /\ TxWakeup /\ [Next]_vars => TxWakeup'
  <2> SUFFICES ASSUME TypeInv, TypeInv', TxWakeup, [Next]_vars  PROVE TxWakeup'
    OBVIOUS
  <2> DEFINE Same == UNCHANGED <<txBufferDesc, txBufferIndex, nicTxEvent, isrAt, isrTsr, tsr>>
  <2>1. ASSUME Same, isr => isr', Holder => Holder'  PROVE TxWakeup'
    BY <2>1 DEF TxWakeup, HandlerWillSignal
  <2>2. CASE HwTransmit
    BY <2>2 DEF HwTransmit, TxWakeup, HandlerWillSignal
  <2>3. CASE HwStoreBuffer \/ HwNoBuffer \/ Environment \/ UNCHANGED vars
    <3> SUFFICES Same /\ (isr => isr') /\ UNCHANGED at
      BY <2>1 DEF Holder
    <3>1. CASE HwStoreBuffer
      <4>1. Same /\ UNCHANGED at
        BY <3>1 DEF HwStoreBuffer, txRing, handler, tasks
      <4>2. isr' = (isr \/ incoming.part = incoming.len)
        BY <3>1, Zenon DEF HwStoreBuffer
      <4> QED  BY <4>1, <4>2
    <3>2. CASE HwNoBuffer
      BY <3>2 DEF HwNoBuffer, txRing, handler, tasks
    <3>3. CASE LinkChange
      BY <3>3 DEF LinkChange, txRing, handler
    <3>4. CASE UNCHANGED vars
      BY <3>4 DEF vars, txRing, handler, tasks
    <3>5. ASSUME NEW len \in 1..MaxLen, HwFrameStart(len)
          PROVE  Same /\ (isr => isr') /\ UNCHANGED at
      BY <3>5 DEF HwFrameStart, txRing, handler
    <3> QED  BY <2>3, <3>1, <3>2, <3>3, <3>4, <3>5 DEF Environment
  <2>4. CASE IsrEnter
    BY <2>4 DEF IsrEnter, TxWakeup, HandlerWillSignal, Holder, txRing, tasks, TypeInv, TypeOK,
       IrqTypeOK
  <2>5. CASE IsrClear
    BY <2>5 DEF IsrClear, TxWakeup, HandlerWillSignal, Holder, txRing, tasks
  <2>6. CASE IsrNotify
    BY <2>6 DEF IsrNotify, TxWakeup, HandlerWillSignal, Holder, txRing, tasks
  <2>7. ASSUME NEW t \in Tasks, Send(t)  PROVE TxWakeup'
    <3>1. CASE WaitTxEvent(t)
      BY <3>1 DEF WaitTxEvent, Go, TxWakeup, Holder, TypeInv, TypeOK, TaskTypeOK
    <3>2. CASE SendTooLong(t)
      BY <3>2 DEF SendTooLong, TxWakeup
    <3>3. CASE SendRefused(t)
      BY <3>3 DEF SendRefused, TxWakeup, txRing
    <3>4. CASE SendFrame(t)
      BY <3>4 DEF SendFrame, Go, TxWakeup, Holder, TypeInv, TypeOK, TaskTypeOK
    <3>5. CASE SendTail(t)
      BY <3>5 DEF SendTail, TxWakeup, txRing
    <3> QED  BY <2>7, <3>1, <3>2, <3>3, <3>4, <3>5 DEF Send
  <2>8. CASE AppSend
    <3>1. Same /\ UNCHANGED isr /\ (Holder => Holder')
      BY <2>8, HolderMoves DEF AppSend, Run, Tasks, txRing, handler, TypeInv, TypeOK
    <3> QED  BY <3>1, <2>1
  <2>9. CASE NetTask /\ ~Send("net")
    <3>1. Same /\ UNCHANGED isr
      BY <2>9 DEF NetTask, NetStart, NetWait, NetLock, CheckNicEvent, ReadReceiveStatus,
         ClearReceiveStatus, ReceivePacket, Reply, ProcessDone, CheckPhyEvent, NetUnlock,
         NicTick, TimerSends, NetTickDone, txRing, handler
    <3>2. at["net"] \notin {"taken", "tail"} /\ \E place \in NetPlaces : Go("net", place)
      BY <2>9 DEF NetTask, NetStart, NetWait, NetLock, CheckNicEvent, ReadReceiveStatus,
         ClearReceiveStatus, ReceivePacket, Reply, ProcessDone, CheckPhyEvent, NetUnlock,
         NicTick, TimerSends, NetTickDone, Run, NetPlaces, Sending
    <3>3. Holder => Holder'
      BY <3>2, HolderMoves DEF Tasks, TypeInv, TypeOK
    <3> QED  BY <3>1, <3>3, <2>1
  <2> QED
    BY <2>2, <2>3, <2>4, <2>5, <2>6, <2>7, <2>8, <2>9
       DEF Next, Hardware, Isr, NetTask, Tasks
<1>3. Spec => []TypeInv
  BY InitTypes, NextTypes, PTL DEF Spec
<1> QED  BY <1>1, <1>2, <1>3, PTL DEF Spec

-----------------------------------------------------------------------------
(* The receive ring: from rxBufferIndex on, n descriptors are the driver's, *)
(* and the controller is at the next one.                                  *)

Filled(n) == hwRx = RxSlot(n) /\ \A i \in RxIndexes : RxEntry(i).own <=> i < n

RingInv == \E n \in 0..RxCount : Filled(n)

LEMMA SlotsDiffer ==
    ASSUME rxBufferIndex \in RxIndexes, NEW i \in RxIndexes, NEW k \in RxIndexes,
           RxSlot(i) = RxSlot(k)
    PROVE  i = k
BY RxCountAssumption DEF RxSlot, RxIndexes

LEMMA NextSlot ==
    ASSUME rxBufferIndex \in RxIndexes, NEW n \in RxIndexes
    PROVE  NextRx(RxSlot(n)) = RxSlot(n + 1)
BY RxCountAssumption DEF RxSlot, RxIndexes, NextRx

LEMMA OwnedIsFilled ==
    ASSUME NEW n \in 0..RxCount, Filled(n)
    PROVE  Owned = 0 .. n - 1
<1>1. RxIndexes = 0 .. RxCount - 1 /\ RxCount \in Nat /\ n \in Int
  BY RxCountAssumption DEF RxIndexes
<1>2. ASSUME NEW i \in Owned  PROVE i \in 0 .. n - 1
  <2>1. i \in RxIndexes /\ i \in 0..i /\ \A k \in 0..i : RxEntry(k).own
    BY <1>1, <1>2 DEF Owned
  <2>2. i < n
    BY <2>1 DEF Filled
  <2> QED  BY <1>1, <2>1, <2>2
<1>3. ASSUME NEW i \in 0 .. n - 1  PROVE i \in Owned
  <2>1. \A k \in 0..i : k \in RxIndexes /\ k < n
    BY <1>1
  <2>2. i \in RxIndexes /\ \A k \in 0..i : RxEntry(k).own
    BY <1>1, <2>1 DEF Filled
  <2> QED  BY <2>2 DEF Owned
<1> QED  BY <1>2, <1>3

LEMMA OwnedIsFilledNext ==
    (\A n \in 0..RxCount : Filled(n) => Owned = 0 .. n - 1)'
<1>1. \A n \in 0..RxCount : Filled(n) => Owned = 0 .. n - 1
  BY OwnedIsFilled
<1> QED  BY <1>1, PTL

LEMMA SameRing ==
    ASSUME UNCHANGED <<rxBufferDesc, rxBufferIndex>>
    PROVE  /\ FrameEnds' = FrameEnds
           /\ RingInv /\ UNCHANGED hwRx => RingInv'
BY DEF FrameEnds, Sofs, Owned, RxEntry, RxSlot, RingInv, Filled

\* What same54EthReceivePacket gives back leaves the front of the ring.
LEMMA ReceiveShifts ==
    ASSUME TypeInv, ReceivePacket, NEW n \in 0..RxCount, Filled(n)
    PROVE  \E c \in 0..n :
               /\ Released = 0 .. c - 1 /\ Cardinality(Released) = c
               /\ Filled(n - c)'
               /\ \A i \in 0 .. n - c - 1 : RxEntry(i)' = RxEntry(c + i)
<1>1. /\ RxCount \in Nat \ {0} /\ RxIndexes = 0 .. RxCount - 1
      /\ rxBufferIndex \in RxIndexes
  BY RxCountAssumption DEF RxIndexes, TypeInv, TypeOK, RxTypeOK
<1>2. PICK c \in 0..RxCount : /\ Released = 0 .. c - 1 /\ Cardinality(Released) = c
                              /\ \A i \in 0 .. c - 1 : RxEntry(i).own
  BY ReleasedCount
<1>3. c \in 0..n
  <2>1. ASSUME c > n  PROVE FALSE
    <3>1. n \in RxIndexes /\ n \in 0 .. c - 1
      BY <1>1, <2>1
    <3>2. n < n
      BY <1>2, <3>1 DEF Filled
    <3> QED  BY <3>2
  <2> QED  BY <2>1
<1>4. rxBufferIndex' = RxSlot(c) /\ UNCHANGED hwRx
  BY <1>2 DEF ReceivePacket
<1>5. ASSUME NEW i \in RxIndexes, c + i < RxCount
      PROVE  RxEntry(i)' = RxEntry(c + i)
  <2>1. RxSlot(i)' = RxSlot(c + i) /\ RxSlot(c + i) \in RxIndexes
    BY <1>1, <1>4, <1>5 DEF RxSlot
  <2>2. ASSUME NEW k \in Released  PROVE RxSlot(c + i) # RxSlot(k)
    <3>1. k \in RxIndexes /\ c + i \in RxIndexes /\ k # c + i
      BY <1>1, <1>2, <1>5
    <3> QED  BY <1>1, <3>1, SlotsDiffer
  <2>3. rxBufferDesc'[RxSlot(c + i)] =
            [rxBufferDesc[RxSlot(c + i)] EXCEPT !.own = @ /\ TRUE]
    BY <2>1, <2>2 DEF ReceivePacket
  <2>4. rxBufferDesc[RxSlot(c + i)] \in [own: BOOLEAN, sof: BOOLEAN, eof: BOOLEAN,
                                        data: RxContents]
    BY <2>1 DEF TypeInv, TypeOK, RxTypeOK
  <2>5. rxBufferDesc'[RxSlot(c + i)] = rxBufferDesc[RxSlot(c + i)]
    BY <2>3, <2>4
  <2> QED  BY <2>1, <2>5 DEF RxEntry
<1>6. ASSUME NEW i \in RxIndexes, c + i >= RxCount
      PROVE  ~RxEntry(i)'.own
  <2> DEFINE k == c + i - RxCount
  <2>1. RxSlot(i)' = RxSlot(k) /\ RxSlot(k) \in RxIndexes /\ k \in 0 .. c - 1
    BY <1>1, <1>4, <1>6 DEF RxSlot
  <2>2. k \in Released
    BY <1>2, <2>1
  <2>3. rxBufferDesc'[RxSlot(k)] =
            [rxBufferDesc[RxSlot(k)] EXCEPT !.own = @ /\ \A j \in Released : RxSlot(k) # RxSlot(j)]
    BY <2>1 DEF ReceivePacket
  <2>4. rxBufferDesc[RxSlot(k)] \in [own: BOOLEAN, sof: BOOLEAN, eof: BOOLEAN,
                                    data: RxContents]
    BY <2>1 DEF TypeInv, TypeOK, RxTypeOK
  <2>5. ~rxBufferDesc'[RxSlot(k)].own
    BY <2>2, <2>3, <2>4
  <2> QED  BY <2>1, <2>5 DEF RxEntry
<1>7. hwRx' = RxSlot(n - c)'
  BY <1>1, <1>3, <1>4 DEF RxSlot, Filled
<1>8. ASSUME NEW i \in RxIndexes  PROVE RxEntry(i)'.own <=> i < n - c
  <2>1. CASE c + i < RxCount
    <3>1. c + i \in RxIndexes
      BY <1>1, <2>1
    <3>2. RxEntry(c + i).own <=> c + i < n
      BY <3>1 DEF Filled
    <3> QED  BY <1>1, <1>3, <1>5, <2>1, <3>2
  <2>2. CASE c + i >= RxCount
    BY <1>1, <1>3, <1>6, <2>2
  <2> QED  BY <1>1, <2>1, <2>2
<1>9. \A i \in 0 .. n - c - 1 : RxEntry(i)' = RxEntry(c + i)
  <2> TAKE i \in 0 .. n - c - 1
  <2>1. i \in RxIndexes /\ c + i < RxCount
    BY <1>1, <1>3
  <2> QED  BY <1>5, <2>1
<1> QED  BY <1>2, <1>3, <1>7, <1>8, <1>9 DEF Filled, RxIndexes

\* A buffer the controller fills is added at the end.
LEMMA StoreAppends ==
    ASSUME TypeInv, HwStoreBuffer, NEW n \in 0..RxCount, Filled(n)
    PROVE  /\ n < RxCount /\ Filled(n + 1)'
           /\ \A i \in 0 .. n - 1 : RxEntry(i)' = RxEntry(i)
           /\ RxEntry(n)'.eof = (incoming.part = incoming.len)
<1>1. /\ RxCount \in Nat \ {0} /\ RxIndexes = 0 .. RxCount - 1
      /\ rxBufferIndex \in RxIndexes /\ hwRx \in RxIndexes
  BY RxCountAssumption DEF RxIndexes, TypeInv, TypeOK, RxTypeOK
<1>2. n \in RxIndexes
  <2>1. ASSUME n = RxCount  PROVE FALSE
    <3>1. hwRx = RxSlot(0) /\ 0 \in RxIndexes /\ 0 < n
      BY <1>1, <2>1 DEF Filled, RxSlot
    <3>2. RxEntry(0).own
      BY <3>1 DEF Filled
    <3> QED  BY <3>1, <3>2 DEF HwStoreBuffer, RxEntry
  <2> QED  BY <1>1, <2>1
<1>3. hwRx = RxSlot(n) /\ UNCHANGED rxBufferIndex
  BY DEF Filled, HwStoreBuffer
<1>4. rxBufferDesc' = [rxBufferDesc EXCEPT ![hwRx] =
          [own |-> TRUE, sof |-> incoming.part = 1, eof |-> incoming.part = incoming.len,
           data |-> [frame |-> incoming.frame, part |-> incoming.part]]]
  BY Zenon DEF HwStoreBuffer
<1>5. rxBufferDesc'[hwRx].own /\ rxBufferDesc'[hwRx].eof = (incoming.part = incoming.len)
  BY <1>1, <1>4 DEF TypeInv, TypeOK, RxTypeOK
<1>6. ASSUME NEW i \in RxIndexes, i # n  PROVE RxEntry(i)' = RxEntry(i)
  <2>1. RxSlot(i) # hwRx /\ RxSlot(i)' = RxSlot(i)
    BY <1>2, <1>3, <1>1, <1>6, SlotsDiffer DEF RxSlot
  <2> QED  BY <1>4, <2>1 DEF RxEntry, TypeInv, TypeOK, RxTypeOK
<1>7. RxEntry(n)'.own /\ RxEntry(n)'.eof = (incoming.part = incoming.len)
  <2>1. RxSlot(n)' = hwRx
    BY <1>3 DEF RxSlot
  <2> QED  BY <1>5, <2>1 DEF RxEntry
<1>8. hwRx' = RxSlot(n + 1)'
  <2>1. hwRx' = NextRx(hwRx)
    BY DEF HwStoreBuffer
  <2> QED  BY <1>1, <1>2, <1>3, <2>1, NextSlot DEF RxSlot
<1>9. \A i \in RxIndexes : RxEntry(i)'.own <=> i < n + 1
  <2> TAKE i \in RxIndexes
  <2>1. CASE i = n
    BY <1>1, <1>7, <2>1
  <2>2. CASE i # n
    <3>1. RxEntry(i).own <=> i < n
      BY DEF Filled
    <3> QED  BY <1>1, <1>2, <1>6, <2>2, <3>1
  <2> QED  BY <2>1, <2>2
<1>10. \A i \in 0 .. n - 1 : RxEntry(i)' = RxEntry(i)
  <2> TAKE i \in 0 .. n - 1
  <2>1. i \in RxIndexes /\ i # n
    BY <1>1, <1>2
  <2> QED  BY <1>6, <2>1
<1>11. Filled(n + 1)'
  BY <1>8, <1>9 DEF Filled, RxIndexes
<1> QED  BY <1>1, <1>2, <1>7, <1>10, <1>11

\* Only the last buffer of a frame completes one.
LEMMA StoreCompletes ==
    ASSUME TypeInv, RingInv, HwStoreBuffer, incoming.part # incoming.len
    PROVE  FrameEnds' \subseteq FrameEnds
<1>1. PICK n \in 0..RxCount : Filled(n)
  BY DEF RingInv
<1>2. /\ n < RxCount /\ Filled(n + 1)' /\ ~RxEntry(n)'.eof
      /\ \A i \in 0 .. n - 1 : RxEntry(i)' = RxEntry(i)
  BY <1>1, StoreAppends
<1>3. Owned = 0 .. n - 1
  BY <1>1, OwnedIsFilled
<1>4. Owned' = 0 .. n
  <2>1. RxCount \in Nat /\ n + 1 \in 0..RxCount /\ n + 1 - 1 = n
    BY <1>2, RxCountAssumption
  <2>2. \A m \in 0..RxCount : Filled(m)' => Owned' = 0 .. m - 1
    BY OwnedIsFilledNext
  <2> QED  BY <1>2, <2>1, <2>2
<1>5. ASSUME NEW e \in FrameEnds'  PROVE e \in FrameEnds
  <2>1. PICK s \in 0..n : RxEntry(s)'.sof /\ s <= e
    BY <1>4 DEF FrameEnds, Sofs
  <2>2. e \in 0..n /\ RxEntry(e)'.eof
    BY <1>4 DEF FrameEnds
  <2>3. e \in 0 .. n - 1 /\ s \in 0 .. n - 1
    BY <1>2, <2>1, <2>2
  <2>4. RxEntry(e).eof /\ RxEntry(s).sof
    BY <1>2, <2>1, <2>2, <2>3
  <2> QED  BY <1>3, <2>1, <2>3, <2>4 DEF FrameEnds, Sofs
<1> QED  BY <1>5

\* When there is no complete frame there is none afterwards either.
LEMMA ReceiveEmpties ==
    ASSUME TypeInv, RingInv, ReceivePacket, FrameEnds = {}
    PROVE  FrameEnds' = {}
<1>1. PICK n \in 0..RxCount : Filled(n)
  BY DEF RingInv
<1>2. PICK c \in 0..n : Filled(n - c)' /\ \A i \in 0 .. n - c - 1 : RxEntry(i)' = RxEntry(c + i)
  BY <1>1, ReceiveShifts
<1>3. Owned = 0 .. n - 1
  BY <1>1, OwnedIsFilled
<1>4. Owned' = 0 .. n - c - 1
  <2>1. n - c \in 0..RxCount
    BY RxCountAssumption
  <2>2. \A m \in 0..RxCount : Filled(m)' => Owned' = 0 .. m - 1
    BY OwnedIsFilledNext
  <2> QED  BY <1>2, <2>1, <2>2
<1>5. ASSUME NEW e \in FrameEnds'  PROVE FALSE
  <2>1. e \in 0 .. n - c - 1 /\ RxEntry(e)'.eof
    BY <1>4 DEF FrameEnds
  <2>2. PICK s \in 0 .. n - c - 1 : RxEntry(s)'.sof /\ s <= e
    BY <1>4, <1>5 DEF FrameEnds, Sofs
  <2>3. c + e \in Owned /\ c + s \in Owned /\ c + s <= c + e
    BY <1>3, <2>1, <2>2
  <2>4. RxEntry(c + e).eof /\ RxEntry(c + s).sof
    BY <1>2, <2>1, <2>2
  <2>5. c + e \in FrameEnds
    BY <2>3, <2>4 DEF FrameEnds, Sofs
  <2> QED  BY <2>5
<1> QED  BY <1>5

\* hwRx and the ownership flags agree in every step.
LEMMA RingKept ==
    ASSUME TypeInv, RingInv, [Next]_vars
    PROVE  RingInv'
<1>1. CASE HwStoreBuffer
  <2>1. PICK n \in 0..RxCount : Filled(n)
    BY DEF RingInv
  <2>2. n + 1 \in 0..RxCount /\ Filled(n + 1)'
    BY <1>1, <2>1, StoreAppends, RxCountAssumption
  <2> QED  BY <2>2 DEF RingInv
<1>2. CASE ReceivePacket
  <2>1. PICK n \in 0..RxCount : Filled(n)
    BY DEF RingInv
  <2>2. PICK c \in 0..n : Filled(n - c)'
    BY <1>2, <2>1, ReceiveShifts
  <2>3. n - c \in 0..RxCount
    BY RxCountAssumption
  <2> QED  BY <2>2, <2>3 DEF RingInv
<1>3. CASE ~HwStoreBuffer /\ ~ReceivePacket
  <2>1. UNCHANGED <<rxBufferDesc, rxBufferIndex, hwRx>>
    BY <1>3 DEF Next, vars, rxRing, Hardware, HwTransmit, HwNoBuffer, Environment, LinkChange,
       HwFrameStart, Isr, IsrEnter, IsrClear, IsrNotify, AppSend, Send, WaitTxEvent,
       SendTooLong, SendRefused, SendFrame, SendTail, NetTask, NetStart, NetWait, NetLock,
       CheckNicEvent, ReadReceiveStatus, ClearReceiveStatus, Reply, ProcessDone,
       CheckPhyEvent, NetUnlock, NicTick, TimerSends, NetTickDone
  <2> QED  BY <2>1, SameRing
<1> QED  BY <1>1, <1>2, <1>3

LEMMA InitRing == Init => RingInv
<1> SUFFICES ASSUME Init  PROVE Filled(0)
  BY RxCountAssumption DEF RingInv
<1>1. RxSlot(0) = 0
  BY RxCountAssumption DEF Init, RxSlot
<1>2. \A i \in RxIndexes : RxSlot(i) \in RxIndexes
  BY RxCountAssumption DEF Init, RxSlot, RxIndexes
<1>3. \A i \in RxIndexes : ~RxEntry(i).own
  BY <1>2 DEF Init, RxEntry
<1> QED  BY <1>1, <1>3, RxCountAssumption DEF Init, Filled, RxIndexes

-----------------------------------------------------------------------------
(* Wake-ups of the net task *)

\* The net task is at the place it goes to.
LEMMA GoNet ==
    ASSUME TaskTypeOK, NEW place, Go("net", place)
    PROVE  at'["net"] = place
BY DEF TaskTypeOK, Go, Tasks

\* In netTick the net task is not in the handler of NIC events.
TickInv == ticking => at["net"] \in {"timers"} \cup Sending

LEMMA TickKept ==
    ASSUME TypeInv, TickInv, [Next]_vars
    PROVE  TickInv'
<1> USE DEF TickInv, Sending, TypeInv, TypeOK
<1>1. CASE Hardware \/ Environment \/ Isr \/ UNCHANGED vars
  BY <1>1 DEF Hardware, HwTransmit, HwStoreBuffer, HwNoBuffer, Environment, LinkChange,
     HwFrameStart, Isr, IsrEnter, IsrClear, IsrNotify, vars, tasks
<1>2. CASE AppSend \/ Send("app")
  <2>1. UNCHANGED ticking /\ \E place \in {"idle"} \cup Sending : Go("app", place)
    BY <1>2 DEF AppSend, Send, WaitTxEvent, SendTooLong, SendRefused, SendFrame, SendTail,
       SendReturns
  <2>2. at'["net"] = at["net"]
    BY <2>1 DEF Go, TaskTypeOK, Tasks
  <2> QED  BY <2>1, <2>2
<1>3. CASE Send("net")
  <2>1. UNCHANGED ticking
    BY <1>3 DEF Send, WaitTxEvent, SendTooLong, SendRefused, SendFrame, SendTail
  <2>2. PICK p \in {IF ticking THEN "timers" ELSE "process"} \cup Sending : Go("net", p)
    BY <1>3 DEF Send, WaitTxEvent, SendTooLong, SendRefused, SendFrame, SendTail, SendReturns
  <2> QED  BY <2>1, <2>2, GoNet
<1>4. CASE NicTick \/ TimerSends \/ NetTickDone
  BY <1>4, GoNet DEF NicTick, TimerSends, NetTickDone
<1>5. CASE NetTask /\ ~Send("net") /\ ~(NicTick \/ TimerSends \/ NetTickDone)
  <2>1. ~ticking /\ UNCHANGED ticking
    BY <1>5 DEF NetTask, NetStart, NetWait, NetLock, CheckNicEvent, ReadReceiveStatus,
       ClearReceiveStatus, ReceivePacket, Reply, ProcessDone, CheckPhyEvent, NetUnlock, Run
  <2> QED  BY <2>1
<1> QED  BY <1>1, <1>2, <1>3, <1>4, <1>5 DEF Next, NetTask

LEMMA HardwareKeepsRx ==
    ASSUME TypeInv, RingInv, RxWakeup, Hardware \/ Environment \/ UNCHANGED vars
    PROVE  RxWakeup'
<1> USE DEF RxWakeup, Draining, NicEventPending
<1>1. CASE HwTransmit
  <2>1. FrameEnds' = FrameEnds
    BY <1>1, SameRing DEF HwTransmit, rxRing
  <2> QED  BY <1>1, <2>1 DEF HwTransmit, tasks
<1>2. CASE HwStoreBuffer
  <2>1. CASE incoming.part = incoming.len
    <3>1. isr' = TRUE /\ rsr' # {}
      BY <1>2, <2>1 DEF HwStoreBuffer
    <3> QED  BY <3>1
  <2>2. CASE incoming.part # incoming.len
    <3>1. FrameEnds' \subseteq FrameEnds
      BY <1>2, <2>2, StoreCompletes
    <3>2. UNCHANGED <<rsr, handler, netFlags, tasks>>
      BY <1>2, <2>2 DEF HwStoreBuffer
    <3>3. isr' = (isr \/ incoming.part = incoming.len)
      BY <1>2, Zenon DEF HwStoreBuffer
    <3>4. isr => isr'
      BY <3>3
    <3> QED  BY <3>1, <3>2, <3>4 DEF handler, netFlags, tasks
  <2> QED  BY <2>1, <2>2
<1>3. CASE HwNoBuffer
  BY <1>3 DEF HwNoBuffer
<1>4. CASE LinkChange
  <2>1. FrameEnds' = FrameEnds
    BY <1>4, SameRing DEF LinkChange, rxRing
  <2> QED  BY <1>4, <2>1 DEF LinkChange, handler, netFlags
<1>5. ASSUME NEW len \in 1..MaxLen, HwFrameStart(len)  PROVE RxWakeup'
  <2>1. FrameEnds' = FrameEnds
    BY <1>5, SameRing DEF HwFrameStart
  <2> QED  BY <1>5, <2>1 DEF HwFrameStart, handler, netFlags
<1>6. CASE UNCHANGED vars
  <2>1. FrameEnds' = FrameEnds
    BY <1>6, SameRing DEF vars, rxRing
  <2> QED  BY <1>6, <2>1 DEF vars, handler, netFlags, tasks
<1> QED  BY <1>1, <1>2, <1>3, <1>4, <1>5, <1>6 DEF Hardware, Environment

LEMMA IsrKeepsRx ==
    ASSUME TypeInv, RxWakeup, Isr
    PROVE  RxWakeup'
<1> USE DEF RxWakeup, Draining, NicEventPending
<1>1. FrameEnds' = FrameEnds
  BY SameRing DEF Isr, IsrEnter, IsrClear, IsrNotify, rxRing
<1>2. CASE IsrEnter
  BY <1>1, <1>2 DEF IsrEnter, netFlags, tasks
<1>3. CASE IsrClear
  BY <1>1, <1>3 DEF IsrClear, netFlags, tasks
<1>4. CASE IsrNotify
  BY <1>1, <1>4 DEF IsrNotify, tasks
<1> QED  BY <1>2, <1>3, <1>4 DEF Isr

LEMMA SendKeepsRx ==
    ASSUME TypeInv, RxWakeup, NEW t \in Tasks, Send(t) \/ (t = "app" /\ AppSend)
    PROVE  RxWakeup'
<1>1. FrameEnds' = FrameEnds /\ UNCHANGED <<isr, rsr, handler, netFlags>>
  BY SameRing DEF Send, WaitTxEvent, SendTooLong, SendRefused, SendFrame, SendTail, AppSend,
     rxRing
<1>2. PICK place \in {"idle", "process", "timers"} \cup Sending : Go(t, place)
  BY DEF Send, WaitTxEvent, SendTooLong, SendRefused, SendFrame, SendTail, SendReturns,
     AppSend, Sending
<1>3. CASE t = "app"
  <2>1. at'["net"] = at["net"]
    BY <1>2, <1>3 DEF Go, TypeInv, TypeOK, TaskTypeOK, Tasks
  <2>2. UNCHANGED ticking
    BY DEF Send, WaitTxEvent, SendTooLong, SendRefused, SendFrame, SendTail, AppSend
  <2> QED  BY <1>1, <2>1, <2>2 DEF RxWakeup, Draining, NicEventPending, handler, netFlags
<1>4. CASE t = "net"
  <2>1. at["net"] \in Sending /\ UNCHANGED ticking
    BY <1>4 DEF Send, WaitTxEvent, SendTooLong, SendRefused, SendFrame, SendTail,
       Run, Sending
  <2>2. PICK p \in {IF ticking THEN "timers" ELSE "process"} \cup Sending : Go("net", p)
    BY <1>4 DEF Send, WaitTxEvent, SendTooLong, SendRefused, SendFrame, SendTail,
       SendReturns, Sending
  <2>3. at'["net"] = p
    BY <2>2, GoNet DEF TypeInv, TypeOK
  <2>4. CASE ticking
    BY <1>1, <2>1, <2>2, <2>3, <2>4 DEF RxWakeup, Draining, Sending, NicEventPending, handler,
       netFlags
  <2>5. CASE ~ticking
    BY <2>1, <2>2, <2>3, <2>5 DEF RxWakeup, Draining
  <2> QED  BY <2>4, <2>5
<1> QED  BY <1>3, <1>4 DEF Tasks

LEMMA NetTaskKeepsRx ==
    ASSUME TypeInv, TickInv, RingInv, RxWakeup, NetTask, ~Send("net")
    PROVE  RxWakeup'
<1> USE DEF RxWakeup, Draining, Sending, NicEventPending, TypeInv, TypeOK
<1>1. CASE ReceivePacket
  <2>1. CASE FrameEnds # {}
    BY <1>1, <2>1, GoNet DEF ReceivePacket
  <2>2. CASE FrameEnds = {}
    BY <1>1, <2>2, ReceiveEmpties
  <2> QED  BY <2>1, <2>2
<1> SUFFICES ASSUME ~ReceivePacket  PROVE RxWakeup'
  BY <1>1
<1>2. FrameEnds' = FrameEnds /\ UNCHANGED <<isr, handler>>
  BY SameRing DEF NetTask, NetStart, NetWait, NetLock, CheckNicEvent, ReadReceiveStatus,
     ClearReceiveStatus, Reply, ProcessDone, CheckPhyEvent, NetUnlock, NicTick,
     TimerSends, NetTickDone, rxRing
<1>3. CASE NetStart \/ NetLock \/ NetUnlock \/ NetTickDone
  BY <1>2, <1>3, GoNet DEF NetStart, NetLock, NetUnlock, NetTickDone, Run, handler, netFlags
<1>4. CASE NetWait
  BY <1>2, <1>4, GoNet DEF NetWait, Run, handler, netFlags
<1>5. CASE CheckNicEvent
  BY <1>2, <1>5, GoNet DEF CheckNicEvent, Run, handler, netFlags
<1>6. CASE ReadReceiveStatus
  BY <1>2, <1>6, GoNet DEF ReadReceiveStatus, Run
<1>7. CASE ClearReceiveStatus \/ Reply \/ ProcessDone
  BY <1>7, GoNet DEF ClearReceiveStatus, Reply, ProcessDone, TickInv, Run
<1>8. CASE CheckPhyEvent
  BY <1>2, <1>8, GoNet DEF CheckPhyEvent, Run, handler, netFlags
<1>9. CASE NicTick
  <2>1. (netEvent => netEvent') /\ UNCHANGED <<rsr, nicEvent>>
    BY <1>9, Zenon DEF NicTick
  <2>2. at["net"] = "tick" /\ at'["net"] = "timers"
    BY <1>9, GoNet DEF NicTick, Run
  <2> QED  BY <1>2, <2>1, <2>2 DEF handler
<1>10. CASE TimerSends
  BY <1>2, <1>10, GoNet DEF TimerSends, TickInv, Run, handler, netFlags
<1> QED  BY <1>3, <1>4, <1>5, <1>6, <1>7, <1>8, <1>9, <1>10 DEF NetTask

\* RxWakeup: whatever tasks, handler and controller interleave, a complete
\* frame in the ring is being fetched, or the net task is going to be told.
THEOREM FramesNoticed == Spec => []RxWakeup
<1>1. Init => RxWakeup
  <2> SUFFICES ASSUME Init  PROVE FrameEnds = {}
    BY DEF RxWakeup
  <2>1. RxSlot(0) = 0 /\ 0 \in RxIndexes
    BY RxCountAssumption DEF Init, RxSlot, RxIndexes
  <2>2. ~RxEntry(0).own
    BY <2>1 DEF Init, RxEntry
  <2>3. \A i \in RxIndexes : 0 \in 0..i
    BY DEF RxIndexes
  <2> QED  BY <2>2, <2>3 DEF FrameEnds, Owned
<1>2. TypeInv /\ TickInv /\ RingInv /\ RxWakeup /\ [Next]_vars => RxWakeup'
  <2> SUFFICES ASSUME TypeInv, TickInv, RingInv, RxWakeup, [Next]_vars  PROVE RxWakeup'
    OBVIOUS
  <2>1. CASE Hardware \/ Environment \/ UNCHANGED vars
    BY <2>1, HardwareKeepsRx
  <2>2. ASSUME NEW t \in Tasks, Send(t) \/ (t = "app" /\ AppSend)  PROVE RxWakeup'
    BY <2>2, SendKeepsRx
  <2>3. CASE AppSend \/ Send("app")
    BY <2>2, <2>3 DEF Tasks
  <2>4. CASE NetTask
    BY <2>2, <2>4, NetTaskKeepsRx DEF Tasks
  <2> QED  BY <2>1, <2>3, <2>4, IsrKeepsRx DEF Next
<1>3. Init => TickInv
  BY DEF Init, TickInv
<1>4. Spec => [](TypeInv /\ TickInv /\ RingInv)
  BY <1>3, InitTypes, NextTypes, TickKept, InitRing, RingKept, PTL DEF Spec
<1> QED  BY <1>1, <1>2, <1>4, PTL DEF Spec

(***************************************************************************)
(* NicDriver implements NicService, for rings of any size, frames of any   *)
(* length the ring holds and any interleaving: what the rings contain is   *)
(* what is accepted and not sent yet, and what is stored and not delivered *)
(* yet, whole and in order.                                                *)
(***************************************************************************)

-----------------------------------------------------------------------------
(* The transmit ring *)

\* The i-th descriptor from the one the controller is at.
TxSlot(i) == IF hwTx + i < TxCount THEN hwTx + i ELSE hwTx + i - TxCount

\* The next d descriptors of the controller hold what it has not sent yet.
Pending(d) ==
    /\ txBufferIndex = TxSlot(d)
    /\ Len(accepted) = Len(wire) + d
    /\ \A i \in TxIndexes : txBufferDesc[TxSlot(i)].used <=> i >= d
    /\ \A i \in 0 .. d - 1 : txBufferDesc[TxSlot(i)].frame = accepted[Len(wire) + 1 + i]

TxInv == \E d \in 0..TxCount : Pending(d)

\* A task that is about to send has a frame.
SenderInv == \A t \in Tasks : at[t] \in {"event", "taken"} => events >= 1

-----------------------------------------------------------------------------
(* The receive ring *)

\* Each buffer is part of a frame that starts in the ring, without an end
\* before it.
FrameStart(i) == i + 1 - RxEntry(i).data.part

InOrder(n) ==
    \A i \in 0 .. n - 1 :
        /\ FrameStart(i) \in 0..i
        /\ RxEntry(i).sof <=> RxEntry(i).data.part = 1
        /\ \A k \in FrameStart(i) .. i :
               /\ RxEntry(k).data = [frame |-> RxEntry(i).data.frame,
                                     part |-> k - FrameStart(i) + 1]
               /\ RxEntry(k).eof => k = i

\* The buffer before the one to be filled has the part before.
Arriving(n) ==
    incoming.part > 1 =>
        /\ n > 0
        /\ RxEntry(n - 1).data = [frame |-> incoming.frame, part |-> incoming.part - 1]
        /\ ~RxEntry(n - 1).eof

\* The ends in the ring are those of the m frames that are stored and not
\* delivered: the j-th of these ends at p[j].
EndsAt(n, m, p) ==
    /\ Len(stored) = Len(delivered) + m
    /\ p \in [1..m -> 0 .. n - 1]
    /\ \A j, k \in 1..m : j < k => p[j] < p[k]
    /\ \A j \in 1..m :
           /\ RxEntry(p[j]).eof
           /\ stored[Len(delivered) + j] = [frame |-> RxEntry(p[j]).data.frame, whole |-> TRUE]
    /\ \A i \in 0 .. n - 1 : RxEntry(i).eof => \E j \in 1..m : p[j] = i

FramesInRing(n) == \E m \in 0..Len(stored) : \E p \in [1..m -> 0 .. n - 1] : EndsAt(n, m, p)

RxInv == \E n \in 0..RxCount : Filled(n) /\ InOrder(n) /\ Arriving(n) /\ FramesInRing(n)

ServiceInv == TxInv /\ SenderInv /\ RxInv

-----------------------------------------------------------------------------
(* Sending *)

LEMMA TxSlotsDiffer ==
    ASSUME hwTx \in TxIndexes, NEW i \in TxIndexes, NEW k \in TxIndexes
    PROVE  /\ TxSlot(i) \in TxIndexes
           /\ TxSlot(i) = TxSlot(k) => i = k
BY TxCountAssumption DEF TxSlot, TxIndexes

LEMMA NextTxSlot ==
    ASSUME hwTx \in TxIndexes, NEW n \in TxIndexes
    PROVE  NextTx(TxSlot(n)) = TxSlot(n + 1)
BY TxCountAssumption DEF TxSlot, TxIndexes, NextTx

\* The controller sends the oldest frame that is accepted and not sent.
LEMMA TransmitsOldest ==
    ASSUME TypeInv, HwTransmit, TxInv
    PROVE  TxInv' /\ Service!Transmit
<1>1. /\ TxCount \in Nat \ {0} /\ TxIndexes = 0 .. TxCount - 1
      /\ hwTx \in TxIndexes /\ wire \in Seq(0..MaxEvents) /\ accepted \in Seq(0..MaxEvents)
      /\ txBufferDesc \in [TxIndexes -> [used: BOOLEAN, frame: 0..MaxEvents]]
  BY TxCountAssumption DEF TxIndexes, TypeInv, TypeOK, TxTypeOK
<1>2. PICK d \in 0..TxCount : Pending(d)
  BY DEF TxInv
<1>3. TxSlot(0) = hwTx /\ 0 \in TxIndexes
  BY <1>1 DEF TxSlot
<1>4. d >= 1
  <2>1. ~(0 >= d)
    BY <1>2, <1>3 DEF Pending, HwTransmit
  <2> QED  BY <2>1
<1>5. txBufferDesc[hwTx].frame = accepted[Len(wire) + 1]
  <2>1. 0 \in 0 .. d - 1
    BY <1>4
  <2>2. txBufferDesc[TxSlot(0)].frame = accepted[Len(wire) + 1 + 0]
    BY <1>2, <2>1 DEF Pending
  <2> QED  BY <1>1, <1>3, <2>2
<1>6. Service!Transmit
  <2>1. Len(wire) < Len(accepted)
    BY <1>1, <1>2, <1>4 DEF Pending
  <2> QED  BY <1>5, <2>1 DEF HwTransmit, Service!Transmit
<1>7. wire' = Append(wire, accepted[Len(wire) + 1]) /\ Len(wire') = Len(wire) + 1
  BY <1>1, <1>5 DEF HwTransmit
<1> DEFINE new == NextTx(hwTx)
<1>8. hwTx' = new /\ UNCHANGED txBufferIndex
  BY DEF HwTransmit
<1>9. ASSUME NEW i \in 0 .. TxCount - 2
      PROVE  /\ TxSlot(i)' = TxSlot(i + 1)
             /\ txBufferDesc'[TxSlot(i + 1)] = txBufferDesc[TxSlot(i + 1)]
  <2>1. i + 1 \in TxIndexes /\ i + 1 # 0
    BY <1>1
  <2>2. TxSlot(i + 1) # hwTx
    BY <1>1, <1>3, <2>1, TxSlotsDiffer
  <2>3. TxSlot(i)' = TxSlot(i + 1)
    BY <1>1, <1>8 DEF TxSlot, NextTx
  <2>4. TxSlot(i + 1) \in TxIndexes
    BY <1>1, <2>1, TxSlotsDiffer
  <2> QED  BY <1>1, <2>2, <2>3, <2>4 DEF HwTransmit
<1>10. TxSlot(TxCount - 1)' = hwTx /\ txBufferDesc'[hwTx].used
  <2>1. TxSlot(TxCount - 1)' = hwTx
    BY <1>1, <1>8 DEF TxSlot, NextTx
  <2> QED  BY <1>1, <2>1 DEF HwTransmit
<1>11. Pending(d - 1)'
  <2>1. txBufferIndex' = TxSlot(d - 1)'
    <3>1. CASE d = TxCount
      <4>1. TxSlot(d) = hwTx
        BY <1>1, <3>1 DEF TxSlot
      <4> QED  BY <1>2, <1>10, <1>8, <3>1, <4>1 DEF Pending
    <3>2. CASE d # TxCount
      <4>1. d - 1 \in 0 .. TxCount - 2 /\ d - 1 + 1 = d
        BY <1>1, <1>4, <3>2
      <4>2. TxSlot(d - 1)' = TxSlot(d - 1 + 1)
        BY <1>9, <4>1
      <4> QED  BY <1>2, <1>8, <4>1, <4>2 DEF Pending
    <3> QED  BY <3>1, <3>2
  <2>2. Len(accepted') = Len(wire') + (d - 1)
    BY <1>1, <1>2, <1>7 DEF Pending, HwTransmit
  <2>3. ASSUME NEW i \in TxIndexes
        PROVE  txBufferDesc'[TxSlot(i)'].used <=> i >= d - 1
    <3>1. CASE i = TxCount - 1
      BY <1>1, <1>10, <3>1
    <3>2. CASE i # TxCount - 1
      <4>1. i \in 0 .. TxCount - 2 /\ i + 1 \in TxIndexes
        BY <1>1, <3>2
      <4>2. txBufferDesc[TxSlot(i + 1)].used <=> i + 1 >= d
        BY <1>2, <4>1 DEF Pending
      <4> QED  BY <1>9, <4>1, <4>2
    <3> QED  BY <3>1, <3>2
  <2>4. ASSUME NEW i \in 0 .. d - 1 - 1
        PROVE  txBufferDesc'[TxSlot(i)'].frame = accepted'[Len(wire') + 1 + i]
    <3>1. i \in 0 .. TxCount - 2 /\ i + 1 \in 0 .. d - 1
      BY <1>1
    <3>2. txBufferDesc[TxSlot(i + 1)].frame = accepted[Len(wire) + 1 + (i + 1)]
      BY <1>2, <3>1 DEF Pending
    <3>3. Len(wire) + 1 + (i + 1) = Len(wire') + 1 + i
      BY <1>1, <1>7
    <3> QED  BY <1>9, <3>1, <3>2, <3>3 DEF HwTransmit
  <2> QED  BY <2>1, <2>2, <2>3, <2>4 DEF Pending
<1>12. d - 1 \in 0..TxCount
  BY <1>1, <1>4
<1> QED  BY <1>6, <1>11, <1>12 DEF TxInv

\* A frame that is accepted goes behind those that are waiting.
LEMMA AcceptsBehind ==
    ASSUME TypeInv, NEW t \in Tasks, SendFrame(t), TxInv, SenderInv
    PROVE  TxInv' /\ \E f \in 1..MaxEvents : Service!Accept(f)
<1>1. /\ TxCount \in Nat \ {0} /\ TxIndexes = 0 .. TxCount - 1
      /\ hwTx \in TxIndexes /\ wire \in Seq(0..MaxEvents) /\ accepted \in Seq(0..MaxEvents)
      /\ txBufferDesc \in [TxIndexes -> [used: BOOLEAN, frame: 0..MaxEvents]]
      /\ events \in 0..MaxEvents /\ MaxEvents \in Nat
  BY TxCountAssumption, MaxEventsAssumption DEF TxIndexes, TypeInv, TypeOK, TxTypeOK, TaskTypeOK
<1>2. events \in 1..MaxEvents
  <2>1. events >= 1
    BY DEF SendFrame, Run, SenderInv
  <2> QED  BY <1>1, <2>1
<1>3. Service!Accept(events)
  BY DEF SendFrame, Service!Accept
<1>4. PICK d \in 0..TxCount : Pending(d)
  BY DEF TxInv
<1>5. d \in TxIndexes
  <2>1. ASSUME d = TxCount  PROVE FALSE
    <3>1. TxSlot(d) = TxSlot(0) /\ 0 \in TxIndexes /\ ~(0 >= d)
      BY <1>1, <2>1 DEF TxSlot
    <3> QED  BY <1>4, <3>1 DEF Pending, SendFrame
  <2> QED  BY <1>1, <2>1
<1>6. /\ txBufferDesc' = [txBufferDesc EXCEPT ![TxSlot(d)] = [used |-> FALSE, frame |-> events]]
      /\ accepted' = Append(accepted, events) /\ UNCHANGED <<hwTx, wire>>
  BY <1>4 DEF Pending, SendFrame
<1>7. \A i \in TxIndexes : TxSlot(i)' = TxSlot(i) /\ TxSlot(i) \in TxIndexes
  BY <1>1, <1>6, TxSlotsDiffer DEF TxSlot
<1>8. ASSUME NEW i \in TxIndexes, i # d
      PROVE  txBufferDesc'[TxSlot(i)] = txBufferDesc[TxSlot(i)]
  BY <1>1, <1>5, <1>6, <1>7, <1>8, TxSlotsDiffer
<1>9. txBufferDesc'[TxSlot(d)] = [used |-> FALSE, frame |-> events]
  BY <1>1, <1>5, <1>6, <1>7
<1>10. Pending(d + 1)'
  <2>1. txBufferIndex' = TxSlot(d + 1)'
    <3>1. txBufferIndex' = NextTx(TxSlot(d))
      BY <1>4 DEF Pending, SendFrame
    <3> QED  BY <1>1, <1>5, <1>6, <3>1, NextTxSlot DEF TxSlot
  <2>2. Len(accepted') = Len(wire') + (d + 1)
    BY <1>1, <1>4, <1>6, SMTT(30) DEF Pending
  <2>3. ASSUME NEW i \in TxIndexes
        PROVE  txBufferDesc'[TxSlot(i)'].used <=> i >= d + 1
    <3>1. CASE i = d
      BY <1>5, <1>7, <1>9, <3>1
    <3>2. CASE i # d
      <4>1. txBufferDesc[TxSlot(i)].used <=> i >= d
        BY <1>4 DEF Pending
      <4>2. i >= d <=> i >= d + 1
        BY <1>1, <1>5, <3>2
      <4> QED  BY <1>7, <1>8, <3>2, <4>1, <4>2
    <3> QED  BY <3>1, <3>2
  <2>4. ASSUME NEW i \in 0 .. d + 1 - 1
        PROVE  txBufferDesc'[TxSlot(i)'].frame = accepted'[Len(wire') + 1 + i]
    <3>1. CASE i = d
      <4>1. Len(wire) + 1 + i = Len(accepted) + 1
        BY <1>1, <1>4, <3>1 DEF Pending
      <4>2. accepted'[Len(accepted) + 1] = events
        BY <1>1, <1>6
      <4> QED  BY <1>5, <1>6, <1>7, <1>9, <3>1, <4>1, <4>2
    <3>2. CASE i # d
      <4>1. i \in 0 .. d - 1 /\ i \in TxIndexes
        BY <1>1, <1>5, <3>2
      <4>2. txBufferDesc[TxSlot(i)].frame = accepted[Len(wire) + 1 + i]
        BY <1>4, <4>1 DEF Pending
      <4>3. Len(wire) + 1 + i \in 1..Len(accepted)
        BY <1>1, <1>4, <4>1 DEF Pending
      <4>4. accepted'[Len(wire) + 1 + i] = accepted[Len(wire) + 1 + i]
        BY <1>1, <1>6, <4>3
      <4> QED  BY <1>6, <1>7, <1>8, <3>2, <4>1, <4>2, <4>4
    <3> QED  BY <3>1, <3>2
  <2> QED  BY <2>1, <2>2, <2>3, <2>4 DEF Pending
<1>11. d + 1 \in 0..TxCount
  BY <1>1, <1>5
<1> QED  BY <1>2, <1>3, <1>10, <1>11 DEF TxInv

LEMMA SameSending == TxInv /\ UNCHANGED <<txRing, accepted, wire>> => TxInv'
BY DEF TxInv, Pending, TxSlot, txRing

-----------------------------------------------------------------------------
(* Receiving *)

LEMMA EntryType ==
    ASSUME TypeInv, NEW i \in RxIndexes
    PROVE  RxEntry(i) \in [own: BOOLEAN, sof: BOOLEAN, eof: BOOLEAN, data: RxContents]
<1>1. rxBufferIndex \in RxIndexes /\ i \in 0..RxCount
  BY RxCountAssumption DEF RxIndexes, TypeInv, TypeOK, RxTypeOK
<1>2. RxSlot(i) \in RxIndexes
  BY <1>1, SlotType
<1> QED  BY <1>2 DEF RxEntry, TypeInv, TypeOK, RxTypeOK

\* The buffers of a frame, from the first one on.
LEMMA FrameOf ==
    ASSUME NEW n, InOrder(n), NEW i \in 0 .. n - 1
    PROVE  /\ FrameStart(i) \in 0..i
           /\ RxEntry(i).sof <=> RxEntry(i).data.part = 1
           /\ \A k \in FrameStart(i) .. i :
                  /\ RxEntry(k).data = [frame |-> RxEntry(i).data.frame,
                                        part |-> k - FrameStart(i) + 1]
                  /\ RxEntry(k).eof => k = i
BY DEF InOrder

\* What HwStoreBuffer writes.
LEMMA StoredEntry ==
    ASSUME TypeInv, HwStoreBuffer, NEW n \in RxIndexes, Filled(n)
    PROVE  /\ RxEntry(n)'.sof = (incoming.part = 1)
           /\ RxEntry(n)'.eof = (incoming.part = incoming.len)
           /\ RxEntry(n)'.data = [frame |-> incoming.frame, part |-> incoming.part]
           /\ RxEntry(n)'.sof <=> RxEntry(n)'.data.part = 1
<1>1. hwRx \in RxIndexes /\ hwRx = RxSlot(n) /\ UNCHANGED rxBufferIndex
  BY DEF Filled, HwStoreBuffer, TypeInv, TypeOK, RxTypeOK
<1>2. rxBufferDesc' = [rxBufferDesc EXCEPT ![hwRx] =
          [own |-> TRUE, sof |-> incoming.part = 1, eof |-> incoming.part = incoming.len,
           data |-> [frame |-> incoming.frame, part |-> incoming.part]]]
  BY Zenon DEF HwStoreBuffer
<1>3. rxBufferDesc'[hwRx] =
          [own |-> TRUE, sof |-> incoming.part = 1, eof |-> incoming.part = incoming.len,
           data |-> [frame |-> incoming.frame, part |-> incoming.part]]
  BY <1>1, <1>2 DEF TypeInv, TypeOK, RxTypeOK
<1>4. RxEntry(n)' = rxBufferDesc'[hwRx]
  BY <1>1 DEF RxEntry, RxSlot
<1>5. /\ RxEntry(n)'.sof = (incoming.part = 1)
      /\ RxEntry(n)'.eof = (incoming.part = incoming.len)
      /\ RxEntry(n)'.data = [frame |-> incoming.frame, part |-> incoming.part]
      /\ RxEntry(n)'.data.part = incoming.part
  BY <1>3, <1>4
<1> QED  BY <1>5, Zenon

\* What it writes continues the frame of the buffer before, or starts one.
LEMMA StoreContinues ==
    ASSUME TypeInv, HwStoreBuffer, NEW n \in 0..RxCount, Filled(n), InOrder(n), Arriving(n)
    PROVE  InOrder(n + 1)' /\ Arriving(n + 1)'
<1> DEFINE p == incoming.part
           data == [frame |-> incoming.frame, part |-> p]
<1>1. /\ RxCount \in Nat \ {0} /\ RxIndexes = 0 .. RxCount - 1 /\ MaxLen \in Nat
      /\ incoming \in [frame: 0..MaxEvents, part: 0..MaxLen, len: 1..MaxLen]
  BY RxCountAssumption DEF RxIndexes, TypeInv, TypeOK, RxTypeOK
<1>2. p \in Nat /\ p >= 1
  BY <1>1 DEF HwStoreBuffer
<1>3. n \in RxIndexes /\ \A i \in 0 .. n - 1 : RxEntry(i)' = RxEntry(i)
  BY <1>1, StoreAppends
<1>4. /\ RxEntry(n)'.sof = (p = 1)
      /\ RxEntry(n)'.eof = (p = incoming.len)
      /\ RxEntry(n)'.data = data
      /\ RxEntry(n)'.sof <=> RxEntry(n)'.data.part = 1
  BY <1>3, StoredEntry
<1>5. FrameStart(n)' = n + 1 - p
  BY <1>4 DEF FrameStart
<1>6. ASSUME p > 1
      PROVE  /\ n > 0 /\ FrameStart(n - 1) = n + 1 - p /\ n + 1 - p \in 0 .. n - 1
             /\ \A k \in n + 1 - p .. n - 1 :
                    /\ RxEntry(k).data = [frame |-> incoming.frame, part |-> k - (n + 1 - p) + 1]
                    /\ ~RxEntry(k).eof
  <2>1. /\ n > 0 /\ ~RxEntry(n - 1).eof
        /\ RxEntry(n - 1).data = [frame |-> incoming.frame, part |-> p - 1]
    BY <1>6 DEF Arriving
  <2>2. n - 1 \in 0 .. n - 1 /\ FrameStart(n - 1) = n + 1 - p
    BY <1>1, <1>2, <2>1 DEF FrameStart
  <2>3. /\ FrameStart(n - 1) \in 0 .. n - 1
        /\ \A k \in FrameStart(n - 1) .. n - 1 :
               /\ RxEntry(k).data = [frame |-> RxEntry(n - 1).data.frame,
                                     part |-> k - FrameStart(n - 1) + 1]
               /\ RxEntry(k).eof => k = n - 1
    BY <2>2, FrameOf
  <2> QED  BY <2>1, <2>2, <2>3
<1>7. ASSUME NEW i \in 0 .. n + 1 - 1
      PROVE  /\ FrameStart(i)' \in 0..i
             /\ RxEntry(i)'.sof <=> RxEntry(i)'.data.part = 1
             /\ \A k \in FrameStart(i)' .. i :
                    /\ RxEntry(k)'.data = [frame |-> RxEntry(i)'.data.frame,
                                           part |-> k - FrameStart(i)' + 1]
                    /\ RxEntry(k)'.eof => k = i
  <2>1. CASE i # n
    <3>1. i \in 0 .. n - 1
      BY <1>1, <2>1
    <3>2. FrameStart(i)' = FrameStart(i) /\ RxEntry(i)' = RxEntry(i)
      BY <1>3, <3>1 DEF FrameStart
    <3>3. FrameStart(i) \in 0..i
      BY <3>1, FrameOf
    <3>4. ASSUME NEW k \in FrameStart(i) .. i
          PROVE  RxEntry(k)' = RxEntry(k)
      <4>1. k \in 0 .. n - 1
        BY <3>1, <3>3
      <4> QED  BY <1>3, <4>1
    <3>5. \A k \in FrameStart(i) .. i :
              /\ RxEntry(k).data = [frame |-> RxEntry(i).data.frame,
                                    part |-> k - FrameStart(i) + 1]
              /\ RxEntry(k).eof => k = i
      BY <3>1, FrameOf
    <3>6. RxEntry(i).sof <=> RxEntry(i).data.part = 1
      BY <3>1, FrameOf
    <3> QED  BY <3>2, <3>3, <3>4, <3>5, <3>6
  <2>2. CASE i = n /\ p = 1
    <3>1. FrameStart(i)' = n /\ \A k \in n..n : k = n
      BY <1>1, <1>5, <2>2
    <3>2. n - n + 1 = 1 /\ n \in 0..n
      BY <1>1
    <3>3. RxEntry(n)'.data = [frame |-> RxEntry(n)'.data.frame, part |-> n - n + 1]
      BY <1>4, <2>2, <3>2
    <3>4. RxEntry(n)'.sof <=> RxEntry(n)'.data.part = 1
      BY <1>4
    <3> QED  BY <2>2, <3>1, <3>2, <3>3, <3>4
  <2>3. CASE i = n /\ p # 1
    <3>1. p > 1
      BY <1>2, <2>3
    <3>2. FrameStart(i)' \in 0..i
      BY <1>1, <1>5, <1>6, <2>3, <3>1
    <3>3. RxEntry(i)'.sof <=> RxEntry(i)'.data.part = 1
      BY <1>4, <2>3
    <3>4. ASSUME NEW k \in FrameStart(i)' .. i
          PROVE  /\ RxEntry(k)'.data = [frame |-> RxEntry(i)'.data.frame,
                                        part |-> k - FrameStart(i)' + 1]
                 /\ RxEntry(k)'.eof => k = i
      <4>1. CASE k = n
        <5>1. k - FrameStart(i)' + 1 = p
          BY <1>1, <1>2, <1>5, <2>3, <4>1
        <5> QED  BY <1>4, <2>3, <4>1, <5>1
      <4>2. CASE k # n
        <5>1. k \in n + 1 - p .. n - 1 /\ k \in 0 .. n - 1
          BY <1>1, <1>2, <1>5, <1>6, <2>3, <3>1, <4>2
        <5>2. RxEntry(k)' = RxEntry(k)
          BY <1>3, <5>1
        <5> QED  BY <1>4, <1>5, <1>6, <2>3, <3>1, <5>1, <5>2
      <4> QED  BY <4>1, <4>2
    <3> QED  BY <3>2, <3>3, <3>4
  <2> QED  BY <2>1, <2>2, <2>3
<1>8. InOrder(n + 1)'
  BY <1>7 DEF InOrder
<1>9. Arriving(n + 1)'
  <2>1. incoming' = [incoming EXCEPT !.part = IF p = incoming.len THEN 0 ELSE p + 1]
    BY <1>1 DEF HwStoreBuffer
  <2>2. ASSUME incoming'.part > 1
        PROVE  /\ n + 1 > 0 /\ ~RxEntry(n)'.eof
               /\ RxEntry(n)'.data = [frame |-> incoming'.frame, part |-> incoming'.part - 1]
    <3>1. p # incoming.len /\ incoming'.part = p + 1 /\ incoming'.frame = incoming.frame
      BY <1>1, <2>1, <2>2
    <3>2. n + 1 > 0 /\ incoming'.part - 1 = p
      BY <1>1, <1>2, <3>1
    <3> QED  BY <1>4, <3>1, <3>2
  <2>3. n + 1 - 1 = n
    BY <1>1
  <2> QED  BY <2>2, <2>3 DEF Arriving
<1> QED  BY <1>8, <1>9

LEMMA FramesFound ==
    ASSUME NEW n, NEW m \in 0..Len(stored'), NEW p \in [1..m -> 0 .. n - 1],
           EndsAt(n, m, p)'
    PROVE  FramesInRing(n)'
BY DEF FramesInRing

\* The last buffer of a frame puts it behind those that wait for delivery.
LEMMA StoreAddsEnd ==
    ASSUME TypeInv, HwStoreBuffer, NEW n \in 0..RxCount, Filled(n), InOrder(n),
           FramesInRing(n)
    PROVE  FramesInRing(n + 1)' /\ [Service!Next]_(Service!vars)
<1> DEFINE last == incoming.part = incoming.len
           f == [frame |-> incoming.frame, whole |-> TRUE]
<1>1. /\ RxCount \in Nat \ {0} /\ RxIndexes = 0 .. RxCount - 1
      /\ incoming \in [frame: 0..MaxEvents, part: 0..MaxLen, len: 1..MaxLen]
      /\ stored \in Seq(Received) /\ delivered \in Seq(Received)
  BY RxCountAssumption DEF RxIndexes, TypeInv, TypeOK, RxTypeOK
<1>2. PICK m \in 0..Len(stored) : \E p \in [1..m -> 0 .. n - 1] : EndsAt(n, m, p)
  BY DEF FramesInRing
<1>3. PICK p \in [1..m -> 0 .. n - 1] : EndsAt(n, m, p)
  BY <1>2
<1>4. n \in RxIndexes /\ \A i \in 0 .. n - 1 : RxEntry(i)' = RxEntry(i)
  BY <1>1, StoreAppends
<1>5. /\ RxEntry(n)'.eof = last
      /\ RxEntry(n)'.data = [frame |-> incoming.frame, part |-> incoming.part]
  BY <1>4, StoredEntry
<1>6. /\ last => stored' = Append(stored, f)
      /\ ~last => stored' = stored
      /\ UNCHANGED <<accepted, wire, delivered>>
  BY DEF HwStoreBuffer
<1>7. f \in Received
  BY <1>1 DEF Received
<1>8. \A j \in 1..m : p[j] \in 0 .. n - 1 /\ RxEntry(p[j])' = RxEntry(p[j])
  BY <1>4
<1>9. CASE ~last
  <2>1. stored' = stored /\ n + 1 - 1 = n /\ p \in [1..m -> 0..n]
    BY <1>1, <1>6, <1>9
  <2>2. \A i \in 0..n : RxEntry(i)'.eof => \E j \in 1..m : p[j] = i
    <3> TAKE i \in 0..n
    <3> HAVE RxEntry(i)'.eof
    <3>1. ~RxEntry(n)'.eof
      BY <1>5, <1>9, Zenon
    <3>2. i \in 0 .. n - 1
      <4>1. i # n
        BY <3>1
      <4> QED  BY <1>1, <4>1
    <3> QED  BY <1>3, <1>4, <3>2 DEF EndsAt
  <2>3. EndsAt(n + 1, m, p)'
    BY <1>3, <1>6, <1>8, <2>1, <2>2 DEF EndsAt
  <2>4. UNCHANGED Service!vars
    BY <1>6, <2>1 DEF Service!vars
  <2> QED  BY <2>1, <2>3, <2>4, SMTT(30) DEF FramesInRing
<1>10. CASE last
  <2> DEFINE q == [j \in 1 .. m + 1 |-> IF j = m + 1 THEN n ELSE p[j]]
  <2>1. /\ stored' = Append(stored, f) /\ n + 1 - 1 = n /\ m \in Nat
        /\ m + 1 \in 0..Len(stored')
    BY <1>1, <1>6, <1>7, <1>10
  <2>2. q \in [1 .. m + 1 -> 0..n]
    BY <1>1, <1>8, <2>1
  <2>3. ASSUME NEW j \in 1 .. m + 1, NEW k \in 1 .. m + 1, j < k  PROVE q[j] < q[k]
    <3>1. j \in 1..m /\ q[j] = p[j]
      BY <2>1, <2>3
    <3>2. CASE k = m + 1
      BY <1>1, <1>8, <3>1, <3>2
    <3>3. CASE k # m + 1
      BY <1>3, <2>1, <2>3, <3>1, <3>3 DEF EndsAt
    <3> QED  BY <3>2, <3>3
  <2>4. ASSUME NEW j \in 1 .. m + 1
        PROVE  /\ RxEntry(q[j])'.eof
               /\ stored'[Len(delivered) + j] =
                      [frame |-> RxEntry(q[j])'.data.frame, whole |-> TRUE]
    <3>1. Len(stored) = Len(delivered) + m
      BY <1>3 DEF EndsAt
    <3>2. CASE j = m + 1
      <4>1. stored'[Len(delivered) + j] = f
        BY <1>1, <1>7, <2>1, <3>1, <3>2
      <4>2. q[j] = n /\ RxEntry(n)'.data.frame = incoming.frame
        BY <1>5, <3>2
      <4> QED  BY <1>5, <1>10, <4>1, <4>2
    <3>3. CASE j # m + 1
      <4>1. j \in 1..m /\ q[j] = p[j]
        BY <2>1, <3>3
      <4>2. /\ RxEntry(p[j]).eof
            /\ stored[Len(delivered) + j] = [frame |-> RxEntry(p[j]).data.frame, whole |-> TRUE]
        BY <1>3, <4>1 DEF EndsAt
      <4>3. Len(delivered) + j \in 1..Len(stored)
        BY <1>1, <2>1, <3>1, <4>1
      <4>4. stored'[Len(delivered) + j] = stored[Len(delivered) + j]
        BY <1>1, <1>7, <2>1, <4>3
      <4> QED  BY <1>8, <4>1, <4>2, <4>4
    <3> QED  BY <3>2, <3>3
  <2>5. ASSUME NEW i \in 0..n, RxEntry(i)'.eof  PROVE \E j \in 1 .. m + 1 : q[j] = i
    <3>1. CASE i = n
      <4>1. m + 1 \in 1 .. m + 1 /\ q[m + 1] = n
        BY <2>1
      <4> QED  BY <3>1, <4>1
    <3>2. CASE i # n
      <4>1. i \in 0 .. n - 1 /\ RxEntry(i).eof
        BY <1>1, <1>4, <2>5, <3>2
      <4>2. PICK j \in 1..m : p[j] = i
        BY <1>3, <4>1 DEF EndsAt
      <4>3. j \in 1 .. m + 1 /\ q[j] = i
        BY <2>1, <4>2
      <4> QED  BY <4>3
    <3> QED  BY <3>1, <3>2
  <2>6. Len(stored') = Len(delivered') + (m + 1)
    <3>1. Len(stored) = Len(delivered) + m
      BY <1>3 DEF EndsAt
    <3>2. Len(stored') = Len(stored) + 1
      BY <1>1, <1>7, <2>1
    <3> QED  BY <1>1, <1>6, <2>1, <3>1, <3>2
  <2>7. FramesInRing(n + 1)'
    <3>1. PICK r \in [1 .. m + 1 -> 0..n] :
              /\ \A j, k \in 1 .. m + 1 : j < k => r[j] < r[k]
              /\ \A j \in 1 .. m + 1 :
                     /\ RxEntry(r[j])'.eof
                     /\ stored'[Len(delivered) + j] =
                            [frame |-> RxEntry(r[j])'.data.frame, whole |-> TRUE]
              /\ \A i \in 0..n : RxEntry(i)'.eof => \E j \in 1 .. m + 1 : r[j] = i
      <4> HIDE DEF q
      <4> QED  BY <2>2, <2>3, <2>4, <2>5
    <3>2. /\ r \in [1 .. m + 1 -> 0 .. n + 1 - 1]
          /\ \A i \in 0 .. n + 1 - 1 : RxEntry(i)'.eof => \E j \in 1 .. m + 1 : r[j] = i
      BY <2>1, <3>1
    <3>3. UNCHANGED delivered
      BY <1>6
    <3> HIDE DEF f, last
    <3>4. PICK v \in 0..Len(stored') : v = m + 1
      BY <2>1
    <3>5. r \in [1..v -> 0 .. n + 1 - 1] /\ EndsAt(n + 1, v, r)'
      BY <2>6, <3>1, <3>2, <3>3, <3>4 DEF EndsAt
    <3> QED  BY <3>4, <3>5, FramesFound
  <2>8. Service!Store(f)
    BY <1>6, <2>1 DEF Service!Store
  <2>9. Service!Next
    BY <1>7, <2>8 DEF Service!Next
  <2> QED  BY <2>7, <2>9
<1> QED  BY <1>9, <1>10

\* Every frame in the ring starts in it.
LEMMA StartsAreSofs ==
    ASSUME TypeInv, NEW n \in 0..RxCount, Filled(n), InOrder(n), NEW i \in 0 .. n - 1
    PROVE  FrameStart(i) \in Sofs /\ FrameStart(i) <= i
<1>1. RxCount \in Nat \ {0} /\ RxIndexes = 0 .. RxCount - 1
  BY RxCountAssumption DEF RxIndexes
<1> DEFINE s == FrameStart(i)
<1>2. /\ s \in 0..i
      /\ \A k \in s..i : RxEntry(k).data = [frame |-> RxEntry(i).data.frame, part |-> k - s + 1]
  BY FrameOf
<1>3. s \in s..i /\ s \in 0 .. n - 1 /\ s - s + 1 = 1
  BY <1>1, <1>2
<1>4. RxEntry(s).data.part = 1
  <2>1. RxEntry(s).data = [frame |-> RxEntry(i).data.frame, part |-> s - s + 1]
    BY <1>2, <1>3
  <2>2. RxEntry(s).data.part = s - s + 1
    BY <2>1
  <2> QED  BY <1>3, <2>2
<1>5. RxEntry(s).sof
  BY <1>3, <1>4, FrameOf
<1>6. s \in Owned
  BY <1>3, OwnedIsFilled
<1> QED  BY <1>2, <1>5, <1>6 DEF Sofs

\* So every end in the ring is the end of a complete frame.
LEMMA EndsAreFrames ==
    ASSUME TypeInv, NEW n \in 0..RxCount, Filled(n), InOrder(n)
    PROVE  \A i : i \in FrameEnds <=> i \in 0 .. n - 1 /\ RxEntry(i).eof
<1>1. Owned = 0 .. n - 1
  BY OwnedIsFilled
<1>2. ASSUME NEW i \in 0 .. n - 1, RxEntry(i).eof  PROVE i \in FrameEnds
  BY <1>1, <1>2, StartsAreSofs DEF FrameEnds
<1> QED  BY <1>1, <1>2 DEF FrameEnds

\* What is given back ends between two frames.
LEMMA ReleaseCutsNone ==
    ASSUME TypeInv, NEW n \in 0..RxCount, Filled(n), InOrder(n),
           NEW c \in 0..n, Released = 0 .. c - 1
    PROVE  /\ \A i \in c .. n - 1 : FrameStart(i) >= c
           /\ n > 0 /\ ~RxEntry(n - 1).eof => c < n
<1>1. /\ RxCount \in Nat \ {0} /\ RxIndexes = 0 .. RxCount - 1
      /\ Owned = 0 .. n - 1 /\ c \in Nat /\ n \in Nat
  BY OwnedIsFilled, RxCountAssumption DEF RxIndexes
<1>2. ASSUME NEW i \in c .. n - 1, FrameStart(i) < c  PROVE FALSE
  <2> DEFINE s == FrameStart(i)
  <2>1. i \in 0 .. n - 1 /\ s \in Sofs /\ s \in 0..i
    BY <1>1, StartsAreSofs, FrameOf
  <2>2. \A k \in s..i : /\ RxEntry(k).data = [frame |-> RxEntry(i).data.frame,
                                                part |-> k - s + 1]
                        /\ RxEntry(k).eof => k = i
    BY <2>1, FrameOf
  <2>3. c - 1 \in s..i /\ c - 1 # i /\ c \in s..i /\ c \in 0 .. n - 1 /\ c - s + 1 # 1
    BY <1>1, <1>2, <2>1
  <2>4. c - 1 \in Released /\ c \in Owned /\ c \notin Released
    BY <1>1, <2>1, <2>3
  <2>5. CASE FrameEnds # {}
    <3>1. PICK e \in FrameEnds : ~(c <= e)
      BY <2>4, <2>5 DEF Released
    <3>2. c - 1 <= e /\ e \in 0 .. n - 1 /\ RxEntry(e).eof
      BY <1>1, <2>4 DEF Released, FrameEnds
    <3>3. e = c - 1
      BY <1>1, <3>1, <3>2
    <3> QED  BY <2>2, <2>3, <3>2, <3>3
  <2>6. CASE FrameEnds = {}
    <3>1. \E t \in Sofs : c - 1 < t
      BY <2>1, <2>4, <2>6 DEF Released
    <3>2. PICK t \in Sofs : c - 1 < t
      BY <3>1
    <3>3. ~(c < t)
      BY <2>4, <2>6 DEF Released
    <3>4. t \in 0 .. n - 1 /\ RxEntry(t).sof
      BY <1>1 DEF Sofs
    <3>5. t = c
      BY <1>1, <3>2, <3>3, <3>4
    <3>6. RxEntry(c).data.part = 1
      BY <3>4, <3>5, FrameOf
    <3>7. RxEntry(c).data.part = c - s + 1
      <4>1. RxEntry(c).data = [frame |-> RxEntry(i).data.frame, part |-> c - s + 1]
        BY <2>2, <2>3
      <4> QED  BY <4>1
    <3> QED  BY <2>3, <3>6, <3>7
  <2> QED  BY <2>5, <2>6
<1>3. ASSUME n > 0, ~RxEntry(n - 1).eof, c = n  PROVE FALSE
  <2>1. n - 1 \in Released /\ n - 1 \in 0 .. n - 1
    BY <1>1, <1>3
  <2>2. CASE FrameEnds # {}
    <3>1. PICK e \in FrameEnds : n - 1 <= e /\ e \in 0 .. n - 1 /\ RxEntry(e).eof
      BY <1>1, <2>1, <2>2 DEF Released, FrameEnds
    <3>2. e = n - 1
      BY <1>1, <3>1
    <3> QED  BY <1>3, <3>1, <3>2
  <2>3. CASE FrameEnds = {}
    <3>1. Sofs # {}
      BY <2>1, StartsAreSofs
    <3>2. PICK t \in Sofs : n - 1 < t
      BY <2>1, <2>3, <3>1 DEF Released
    <3>3. t \in 0 .. n - 1
      BY <1>1 DEF Sofs
    <3> QED  BY <1>1, <3>2, <3>3
  <2> QED  BY <2>2, <2>3
<1>4. \A i \in c .. n - 1 : FrameStart(i) >= c
  <2> SUFFICES ASSUME NEW i \in c .. n - 1  PROVE FrameStart(i) >= c
    OBVIOUS
  <2>1. i \in 0 .. n - 1
    BY <1>1
  <2>2. FrameStart(i) \in 0..i
    BY <2>1, FrameOf
  <2> QED  BY <1>1, <1>2, <2>2
<1> QED  BY <1>1, <1>3, <1>4

\* What stays in the ring keeps its order.
LEMMA ReceiveKeepsOrder ==
    ASSUME TypeInv, ReceivePacket, NEW n \in 0..RxCount, Filled(n), InOrder(n), Arriving(n),
           NEW c \in 0..n, Released = 0 .. c - 1,
           \A i \in 0 .. n - c - 1 : RxEntry(i)' = RxEntry(c + i)
    PROVE  InOrder(n - c)' /\ Arriving(n - c)'
<1>1. /\ RxCount \in Nat \ {0} /\ RxIndexes = 0 .. RxCount - 1
      /\ n \in Nat /\ c \in Nat /\ n <= RxCount
  BY RxCountAssumption DEF RxIndexes
<1>2. ASSUME NEW i \in 0 .. n - c - 1
      PROVE  /\ FrameStart(i)' \in 0..i
             /\ RxEntry(i)'.sof <=> RxEntry(i)'.data.part = 1
             /\ \A k \in FrameStart(i)' .. i :
                    /\ RxEntry(k)'.data = [frame |-> RxEntry(i)'.data.frame,
                                           part |-> k - FrameStart(i)' + 1]
                    /\ RxEntry(k)'.eof => k = i
  <2> DEFINE s == FrameStart(c + i)
  <2>1. c + i \in 0 .. n - 1 /\ c + i \in c .. n - 1 /\ c + i \in RxIndexes
    BY <1>1
  <2>2. /\ s \in 0 .. c + i
        /\ RxEntry(c + i).sof <=> RxEntry(c + i).data.part = 1
        /\ \A k \in s .. c + i :
               /\ RxEntry(k).data = [frame |-> RxEntry(c + i).data.frame, part |-> k - s + 1]
               /\ RxEntry(k).eof => k = c + i
    BY <2>1, FrameOf
  <2>3. s >= c
    BY <2>1, ReleaseCutsNone
  <2>4. RxEntry(i)' = RxEntry(c + i)
    OBVIOUS
  <2>5. RxEntry(c + i).data.part \in Nat
    BY <2>1, EntryType DEF RxContents
  <2>6. FrameStart(i)' = s - c
    BY <1>1, <2>4, <2>5 DEF FrameStart
  <2>7. ASSUME NEW k \in s - c .. i
        PROVE  /\ RxEntry(k)'.data = [frame |-> RxEntry(c + i).data.frame,
                                      part |-> k - (s - c) + 1]
               /\ RxEntry(k)'.eof => k = i
    <3>1. c + k \in s .. c + i /\ k \in 0 .. n - c - 1 /\ c + k - s + 1 = k - (s - c) + 1
      BY <1>1, <2>2, <2>3
    <3>2. RxEntry(k)' = RxEntry(c + k)
      BY <3>1
    <3>3. /\ RxEntry(c + k).data = [frame |-> RxEntry(c + i).data.frame,
                                    part |-> k - (s - c) + 1]
          /\ RxEntry(c + k).eof => c + k = c + i
      BY <2>2, <3>1
    <3>4. c + k = c + i => k = i
      BY <1>1, <3>1
    <3> QED  BY <3>2, <3>3, <3>4
  <2>8. s - c \in 0..i
    BY <1>1, <2>2, <2>3
  <2> HIDE DEF s
  <2> QED  BY <2>2, <2>4, <2>6, <2>7, <2>8
<1>3. InOrder(n - c)'
  BY <1>2 DEF InOrder
<1>4. Arriving(n - c)'
  <2>1. UNCHANGED incoming
    BY DEF ReceivePacket
  <2>2. ASSUME incoming.part > 1
        PROVE  /\ n - c > 0 /\ RxEntry(n - c - 1)' = RxEntry(n - 1)
               /\ RxEntry(n - 1).data = [frame |-> incoming.frame, part |-> incoming.part - 1]
               /\ ~RxEntry(n - 1).eof
    <3>1. /\ n > 0 /\ ~RxEntry(n - 1).eof
          /\ RxEntry(n - 1).data = [frame |-> incoming.frame, part |-> incoming.part - 1]
      BY <2>2 DEF Arriving
    <3>2. c < n
      BY <3>1, ReleaseCutsNone
    <3>3. n - c - 1 \in 0 .. n - c - 1 /\ c + (n - c - 1) = n - 1 /\ n - c > 0
      BY <1>1, <3>2
    <3> QED  BY <3>1, <3>3
  <2> QED  BY <2>1, <2>2 DEF Arriving
<1> QED  BY <1>3, <1>4

\* What is delivered is the frame that was stored first of those in the ring,
\* whole.
LEMMA DeliversFirst ==
    ASSUME TypeInv, ReceivePacket, NEW n \in 0..RxCount, Filled(n), InOrder(n),
           NEW c \in 0..n, Released = 0 .. c - 1, Cardinality(Released) = c,
           NEW m \in Nat, NEW p \in [1..m -> 0 .. n - 1], EndsAt(n, m, p), FrameEnds # {}
    PROVE  m >= 1 /\ p[1] = c - 1 /\ delivered' = Append(delivered, stored[Len(delivered) + 1])
<1>1. /\ RxCount \in Nat \ {0} /\ RxIndexes = 0 .. RxCount - 1
      /\ Owned = 0 .. n - 1 /\ n \in Nat /\ c \in Nat
  BY OwnedIsFilled, RxCountAssumption DEF RxIndexes
<1>2. \A i : i \in FrameEnds <=> i \in 0 .. n - 1 /\ RxEntry(i).eof
  BY EndsAreFrames
<1>3. \A e \in FrameEnds : \E j \in 1..m : p[j] = e
  BY <1>2 DEF EndsAt
<1>4. m >= 1 /\ 1 \in 1..m
  BY <1>3
<1>5. p[1] \in FrameEnds /\ p[1] \in 0 .. n - 1
  BY <1>2, <1>4 DEF EndsAt
<1>6. ASSUME NEW e \in FrameEnds  PROVE p[1] <= e
  <2>1. PICK j \in 1..m : p[j] = e
    BY <1>3
  <2>2. j = 1 \/ 1 < j
    BY <2>1
  <2> QED  BY <1>1, <1>4, <1>5, <2>1, <2>2 DEF EndsAt
<1>7. p[1] = c - 1
  <2>1. p[1] \in Released
    BY <1>1, <1>5, <1>6 DEF Released
  <2>2. c - 1 \in Released
    BY <1>1, <2>1
  <2>3. c - 1 <= p[1]
    BY <1>5, <2>2 DEF Released
  <2> QED  BY <1>1, <1>5, <2>1, <2>3
<1> DEFINE e == c - 1
           s == FrameStart(e)
<1>8. /\ s \in 0..e /\ e \in 0 .. n - 1
      /\ \A k \in s..e : RxEntry(k).data = [frame |-> RxEntry(e).data.frame, part |-> k - s + 1]
  BY <1>5, <1>7, FrameOf
<1>9. RxEntry(s).sof
  BY <1>8, StartsAreSofs DEF Sofs
<1>10. ASSUME NEW k \in s + 1 .. e  PROVE ~RxEntry(k).sof
  <2>1. k \in s..e /\ k \in 0 .. n - 1 /\ k - s + 1 # 1
    BY <1>1, <1>8
  <2>2. RxEntry(k).data = [frame |-> RxEntry(e).data.frame, part |-> k - s + 1]
    BY <1>8, <2>1
  <2>3. RxEntry(k).data.part # 1
    BY <2>1, <2>2
  <2> QED  BY <2>1, <2>3, FrameOf
<1>11. FrameTaken = [frame |-> RxEntry(e).data.frame, whole |-> TRUE]
  <2>1. Cardinality(Released) - 1 = e
    OBVIOUS
  <2>2. \E t \in 0..e :
            /\ RxEntry(t).sof /\ \A k \in t + 1 .. e : ~RxEntry(k).sof
            /\ \A k \in t..e : RxEntry(k).data = [frame |-> RxEntry(e).data.frame,
                                                   part |-> k - t + 1]
    <3> HIDE DEF s, e
    <3> QED  BY <1>8, <1>9, <1>10
  <2> HIDE DEF e
  <2> QED  BY <2>1, <2>2 DEF FrameTaken
<1>12. stored[Len(delivered) + 1] = [frame |-> RxEntry(e).data.frame, whole |-> TRUE]
  BY <1>4, <1>7 DEF EndsAt
<1>13. delivered' = Append(delivered, FrameTaken)
  BY DEF ReceivePacket
<1> QED  BY <1>4, <1>7, <1>11, <1>12, <1>13

\* A receive delivers one frame or none, and the ring keeps the others.
LEMMA ReceiveDelivers ==
    ASSUME TypeInv, ReceivePacket, RxInv
    PROVE  RxInv' /\ [Service!Next]_(Service!vars)
<1>1. PICK n \in 0..RxCount : Filled(n) /\ InOrder(n) /\ Arriving(n) /\ FramesInRing(n)
  BY DEF RxInv
<1>2. PICK c \in 0..n : /\ Released = 0 .. c - 1 /\ Cardinality(Released) = c
                        /\ Filled(n - c)'
                        /\ \A i \in 0 .. n - c - 1 : RxEntry(i)' = RxEntry(c + i)
  BY <1>1, ReceiveShifts
<1>3. InOrder(n - c)' /\ Arriving(n - c)'
  BY <1>1, <1>2, ReceiveKeepsOrder
<1>4. PICK m \in 0..Len(stored) : \E p \in [1..m -> 0 .. n - 1] : EndsAt(n, m, p)
  BY <1>1 DEF FramesInRing
<1>5. PICK p \in [1..m -> 0 .. n - 1] : EndsAt(n, m, p)
  BY <1>4
<1>6. /\ RxCount \in Nat /\ n \in Nat /\ c \in Nat /\ m \in Nat
      /\ stored \in Seq(Received) /\ delivered \in Seq(Received)
      /\ Len(stored) = Len(delivered) + m
  BY <1>5, RxCountAssumption DEF TypeInv, TypeOK, RxTypeOK, EndsAt
<1>7. UNCHANGED <<accepted, wire, stored>>
  BY DEF ReceivePacket
<1>8. \A i : i \in FrameEnds <=> i \in 0 .. n - 1 /\ RxEntry(i).eof
  BY <1>1, EndsAreFrames
<1>9. CASE FrameEnds = {}
  <2>1. delivered' = delivered
    BY <1>9 DEF ReceivePacket
  <2>2. m = 0
    <3>1. ASSUME m # 0  PROVE FALSE
      <4>1. 1 \in 1..m
        BY <1>6, <3>1
      <4>2. p[1] \in 0 .. n - 1 /\ RxEntry(p[1]).eof
        BY <1>5, <4>1 DEF EndsAt
      <4> QED  BY <1>8, <1>9, <4>2
    <3> QED  BY <3>1
  <2>3. ASSUME NEW i \in 0 .. n - c - 1  PROVE ~RxEntry(i)'.eof
    <3>1. c + i \in 0 .. n - 1 /\ RxEntry(i)' = RxEntry(c + i)
      BY <1>2, <1>6
    <3> QED  BY <1>8, <1>9, <3>1
  <2>4. PICK q \in [1..m -> 0 .. n - c - 1] : TRUE
    <3>1. [j \in 1..m |-> 0] \in [1..m -> 0 .. n - c - 1]
      BY <2>2
    <3> QED  BY <3>1
  <2>5. \A j \in 1..m : FALSE
    BY <2>2
  <2>6. EndsAt(n - c, m, q)'
    BY <1>6, <1>7, <2>1, <2>3, <2>5 DEF EndsAt
  <2>7. FramesInRing(n - c)'
    BY <1>7, <2>6, FramesFound
  <2>8. UNCHANGED Service!vars
    BY <1>7, <2>1 DEF Service!vars
  <2>9. n - c \in 0..RxCount
    BY <1>6
  <2> QED  BY <1>2, <1>3, <2>7, <2>8, <2>9 DEF RxInv
<1>10. CASE FrameEnds # {}
  <2>1. m >= 1 /\ p[1] = c - 1 /\ delivered' = Append(delivered, stored[Len(delivered) + 1])
    BY <1>1, <1>2, <1>5, <1>6, <1>10, DeliversFirst
  <2>2. Service!Deliver
    <3>1. Len(delivered) < Len(stored)
      BY <1>6, <2>1
    <3> QED  BY <1>7, <2>1, <3>1 DEF Service!Deliver
  <2>3. stored[Len(delivered) + 1] \in Received
    BY <1>6, <2>1
  <2>4. Len(delivered') = Len(delivered) + 1
    BY <1>6, <2>1, <2>3
  <2>5. PICK v \in Nat : m = v + 1
    BY <1>6, <2>1
  <2> DEFINE q == [j \in 1..v |-> p[j + 1] - c]
  <2>6. ASSUME NEW j \in 1..v
        PROVE  j + 1 \in 1..m /\ q[j] \in 0 .. n - c - 1 /\ c + q[j] = p[j + 1]
    <3>1. j + 1 \in 1..m /\ 1 \in 1..m /\ 1 < j + 1
      BY <2>5
    <3>2. p[1] < p[j + 1] /\ p[j + 1] \in 0 .. n - 1
      BY <1>5, <3>1 DEF EndsAt
    <3> QED  BY <1>6, <2>1, <3>1, <3>2
  <2>7. q \in [1..v -> 0 .. n - c - 1]
    BY <2>6
  <2>8. ASSUME NEW j \in 1..v, NEW k \in 1..v, j < k  PROVE q[j] < q[k]
    <3>1. j + 1 \in 1..m /\ k + 1 \in 1..m /\ j + 1 < k + 1
      BY <2>5, <2>8
    <3>2. p[j + 1] < p[k + 1] /\ p[j + 1] \in 0 .. n - 1 /\ p[k + 1] \in 0 .. n - 1
      BY <1>5, <3>1 DEF EndsAt
    <3> QED  BY <1>6, <3>2
  <2>9. ASSUME NEW j \in 1..v
        PROVE  /\ RxEntry(q[j])'.eof
               /\ stored[Len(delivered') + j] = [frame |-> RxEntry(q[j])'.data.frame, whole |-> TRUE]
    <3>1. RxEntry(q[j])' = RxEntry(p[j + 1])
      <4> HIDE DEF q
      <4> QED  BY <1>2, <2>6
    <3>2. /\ RxEntry(p[j + 1]).eof
          /\ stored[Len(delivered) + (j + 1)] =
                 [frame |-> RxEntry(p[j + 1]).data.frame, whole |-> TRUE]
      BY <1>5, <2>6 DEF EndsAt
    <3>3. Len(delivered) + (j + 1) = Len(delivered') + j
      BY <1>6, <2>4
    <3> QED  BY <3>1, <3>2, <3>3
  <2>10. ASSUME NEW i \in 0 .. n - c - 1, RxEntry(i)'.eof  PROVE \E j \in 1..v : q[j] = i
    <3>1. c + i \in 0 .. n - 1 /\ RxEntry(c + i).eof /\ c + i # c - 1
      BY <1>2, <1>6, <2>10
    <3>2. PICK k \in 1..m : p[k] = c + i
      BY <1>5, <3>1 DEF EndsAt
    <3>3. k # 1
      BY <2>1, <3>1, <3>2
    <3>4. k - 1 \in 1..v /\ k - 1 + 1 = k
      BY <2>5, <3>3
    <3>5. q[k - 1] = i
      BY <1>6, <3>2, <3>4
    <3> QED  BY <3>4, <3>5
  <2>11. Len(stored) = Len(delivered') + v
    BY <1>6, <2>4, <2>5
  <2>12. FramesInRing(n - c)'
    <3>1. PICK r \in [1..v -> 0 .. n - c - 1] :
              /\ \A j, k \in 1..v : j < k => r[j] < r[k]
              /\ \A j \in 1..v :
                     /\ RxEntry(r[j])'.eof
                     /\ stored[Len(delivered') + j] =
                            [frame |-> RxEntry(r[j])'.data.frame, whole |-> TRUE]
              /\ \A i \in 0 .. n - c - 1 : RxEntry(i)'.eof => \E j \in 1..v : r[j] = i
      <4> HIDE DEF q
      <4> QED  BY <2>7, <2>8, <2>9, <2>10
    <3>2. EndsAt(n - c, v, r)'
      BY <1>7, <2>11, <3>1 DEF EndsAt
    <3>3. v \in 0..Len(stored')
      BY <1>6, <1>7, <2>5
    <3> QED  BY <3>2, <3>3, FramesFound
  <2>13. n - c \in 0..RxCount
    BY <1>6
  <2> QED  BY <1>2, <1>3, <2>2, <2>12, <2>13 DEF RxInv, Service!Next
<1> QED  BY <1>9, <1>10

LEMMA StoreKeepsRing ==
    ASSUME TypeInv, HwStoreBuffer, RxInv
    PROVE  RxInv' /\ [Service!Next]_(Service!vars)
<1>1. PICK n \in 0..RxCount : Filled(n) /\ InOrder(n) /\ Arriving(n) /\ FramesInRing(n)
  BY DEF RxInv
<1>2. n + 1 \in 0..RxCount /\ Filled(n + 1)'
  BY <1>1, StoreAppends, RxCountAssumption
<1>3. InOrder(n + 1)' /\ Arriving(n + 1)'
  BY <1>1, StoreContinues
<1>4. FramesInRing(n + 1)' /\ [Service!Next]_(Service!vars)
  BY <1>1, StoreAddsEnd
<1> QED  BY <1>2, <1>3, <1>4 DEF RxInv

\* Everything else leaves the receive ring alone, and at most ends a frame.
LEMMA SameReceiving ==
    ASSUME RxInv, UNCHANGED <<rxBufferDesc, rxBufferIndex, hwRx, stored, delivered>>,
           incoming' = incoming \/ incoming'.part \in {0, 1}
    PROVE  RxInv'
<1>1. PICK n \in 0..RxCount : Filled(n) /\ InOrder(n) /\ Arriving(n) /\ FramesInRing(n)
  BY DEF RxInv
<1>2. /\ \A i : RxSlot(i)' = RxSlot(i)
      /\ \A i : RxEntry(i)' = RxEntry(i)
      /\ \A i : FrameStart(i)' = FrameStart(i)
  BY DEF FrameStart, RxEntry, RxSlot
<1>3. Filled(n)'
  BY <1>1, <1>2 DEF Filled
<1>4. InOrder(n)'
  BY <1>1, <1>2 DEF InOrder
<1>5. FramesInRing(n)'
  <2>1. PICK m \in 0..Len(stored) : \E p \in [1..m -> 0 .. n - 1] : EndsAt(n, m, p)
    BY <1>1 DEF FramesInRing
  <2>2. PICK p \in [1..m -> 0 .. n - 1] : EndsAt(n, m, p)
    BY <2>1
  <2>3. EndsAt(n, m, p)'
    BY <1>2, <2>2 DEF EndsAt
  <2> QED  BY <2>3, FramesFound
<1>6. Arriving(n)'
  <2>1. CASE incoming' = incoming
    BY <1>1, <1>2, <2>1 DEF Arriving
  <2>2. CASE incoming'.part \in {0, 1}
    BY <2>2 DEF Arriving
  <2> QED  BY <2>1, <2>2
<1> QED  BY <1>1, <1>3, <1>4, <1>5, <1>6 DEF RxInv

-----------------------------------------------------------------------------
(* Every step *)

\* A task that goes to another place leaves the other task where it is.
LEMMA GoSender ==
    ASSUME TypeInv, SenderInv, NEW t \in Tasks, NEW place, Go(t, place),
           events' = events \/ Event,
           place \in {"event", "taken"} => at[t] = "event" \/ Event
    PROVE  SenderInv'
<1>1. /\ events \in Nat /\ MaxEvents \in Nat
      /\ at \in [Tasks -> AppPlaces \cup NetPlaces]
  BY MaxEventsAssumption DEF TypeInv, TypeOK, TaskTypeOK
<1>2. events' \in Nat /\ events' >= events /\ (Event => events' >= 1)
  BY <1>1 DEF Event
<1>3. ASSUME NEW u \in Tasks, at'[u] \in {"event", "taken"}  PROVE events' >= 1
  <2>1. CASE u = t
    <3>1. at'[u] = place
      BY <1>1, <2>1 DEF Go
    <3>2. at[t] = "event" \/ Event
      BY <1>3, <3>1
    <3> QED  BY <1>1, <1>2, <3>2 DEF SenderInv
  <2>2. CASE u # t
    <3>1. at'[u] = at[u]
      BY <1>1, <2>2 DEF Go
    <3> QED  BY <1>1, <1>2, <1>3, <3>1 DEF SenderInv
  <2> QED  BY <2>1, <2>2
<1> QED  BY <1>3 DEF SenderInv

LEMMA SendersKept ==
    ASSUME TypeInv, SenderInv, [Next]_vars
    PROVE  SenderInv'
<1>1. CASE Hardware \/ Environment \/ Isr \/ UNCHANGED vars
  <2>1. UNCHANGED at /\ (events' = events \/ Event)
    BY <1>1 DEF Hardware, HwTransmit, HwStoreBuffer, HwNoBuffer, Environment, LinkChange,
       HwFrameStart, Isr, IsrEnter, IsrClear, IsrNotify, vars, tasks
  <2>2. events' >= events /\ events \in Nat /\ events' \in Nat
    BY <2>1, MaxEventsAssumption DEF Event, TypeInv, TypeOK, TaskTypeOK
  <2> QED  BY <2>1, <2>2 DEF SenderInv
<1>2. CASE AppSend
  <2>1. "app" \in Tasks /\ Go("app", "event") /\ Event
    BY <1>2 DEF AppSend, Tasks
  <2> QED  BY <2>1, GoSender
<1>3. ASSUME NEW t \in Tasks, Send(t)  PROVE SenderInv'
  <2>1. UNCHANGED events
    BY <1>3 DEF Send, WaitTxEvent, SendTooLong, SendRefused, SendFrame, SendTail
  <2>2. CASE WaitTxEvent(t)
    <3>1. Go(t, "taken") /\ at[t] = "event"
      BY <2>2 DEF WaitTxEvent, Run
    <3> QED  BY <2>1, <3>1, GoSender
  <2>3. CASE ~WaitTxEvent(t)
    <3>1. PICK place \in {"idle", "timers", "process", "tail"} : Go(t, place)
      BY <1>3, <2>3 DEF Send, SendTooLong, SendRefused, SendFrame, SendTail, SendReturns
    <3>2. place \notin {"event", "taken"}
      OBVIOUS
    <3> QED  BY <2>1, <3>1, <3>2, GoSender
  <2> QED  BY <2>2, <2>3
<1>4. CASE Reply \/ TimerSends
  <2>1. "net" \in Tasks /\ Go("net", "event") /\ Event
    BY <1>4 DEF Reply, TimerSends, Tasks
  <2> QED  BY <2>1, GoSender
<1>5. CASE NetTask /\ ~Send("net") /\ ~Reply /\ ~TimerSends
  <2>1. UNCHANGED events
    BY <1>5 DEF NetTask, NetStart, NetWait, NetLock, CheckNicEvent, ReadReceiveStatus,
       ClearReceiveStatus, ReceivePacket, ProcessDone, CheckPhyEvent, NetUnlock, NicTick,
       NetTickDone
  <2>2. PICK place \in NetPlaces \ Sending : Go("net", place)
    BY <1>5 DEF NetTask, NetStart, NetWait, NetLock, CheckNicEvent, ReadReceiveStatus,
       ClearReceiveStatus, ReceivePacket, ProcessDone, CheckPhyEvent, NetUnlock, NicTick,
       NetTickDone, NetPlaces, Sending
  <2>3. "net" \in Tasks /\ place \notin {"event", "taken"}
    BY DEF Tasks, Sending
  <2> QED  BY <2>1, <2>2, <2>3, GoSender
<1> QED  BY <1>1, <1>2, <1>3, <1>4, <1>5 DEF Next, NetTask, Tasks

\* Every step keeps the rings in order and is one of NicService, or none.
LEMMA ServiceStep ==
    ASSUME TypeInv, ServiceInv, [Next]_vars
    PROVE  ServiceInv' /\ [Service!Next]_(Service!vars)
<1> USE DEF ServiceInv
<1>1. SenderInv'
  BY SendersKept
<1>2. CASE HwTransmit
  <2>1. TxInv' /\ Service!Next
    BY <1>2, TransmitsOldest DEF Service!Next
  <2>2. RxInv'
    BY <1>2, SameReceiving DEF HwTransmit, rxRing
  <2> QED  BY <1>1, <2>1, <2>2
<1>3. CASE HwStoreBuffer
  <2>1. TxInv'
    <3>1. UNCHANGED <<txRing, accepted, wire>>
      BY <1>3 DEF HwStoreBuffer
    <3> QED  BY <3>1, SameSending
  <2> QED  BY <1>1, <1>3, <2>1, StoreKeepsRing
<1>4. CASE ReceivePacket
  <2>1. TxInv'
    <3>1. UNCHANGED <<txRing, accepted, wire>>
      BY <1>4 DEF ReceivePacket
    <3> QED  BY <3>1, SameSending
  <2> QED  BY <1>1, <1>4, <2>1, ReceiveDelivers
<1>5. ASSUME NEW t \in Tasks, SendFrame(t)  PROVE ServiceInv' /\ Service!Next
  <2>1. TxInv' /\ Service!Next
    BY <1>5, AcceptsBehind DEF Service!Next
  <2>2. RxInv'
    BY <1>5, SameReceiving DEF SendFrame, rxRing
  <2> QED  BY <1>1, <2>1, <2>2
<1>6. CASE HwNoBuffer \/ \E len \in 1..MaxLen : HwFrameStart(len)
  <2>1. incoming \in [frame: 0..MaxEvents, part: 0..MaxLen, len: 1..MaxLen]
    BY DEF TypeInv, TypeOK, RxTypeOK
  <2>2. /\ incoming'.part \in {0, 1}
        /\ UNCHANGED <<rxBufferDesc, rxBufferIndex, hwRx, txRing, frames>>
    BY <1>6, <2>1 DEF HwNoBuffer, HwFrameStart
  <2>3. RxInv'
    BY <2>2, SameReceiving DEF frames
  <2> QED  BY <1>1, <2>2, <2>3, SameSending DEF frames, Service!vars
<1>7. CASE /\ ~HwTransmit /\ ~HwStoreBuffer /\ ~ReceivePacket
           /\ ~SendFrame("app") /\ ~SendFrame("net")
           /\ ~HwNoBuffer /\ ~\E len \in 1..MaxLen : HwFrameStart(len)
  <2>1. UNCHANGED <<txRing, rxRing, frames>>
    BY <1>7 DEF Next, vars, Hardware, Environment, LinkChange, Isr, IsrEnter, IsrClear, IsrNotify,
       AppSend, Send, WaitTxEvent, SendTooLong, SendRefused, SendTail, NetTask, NetStart,
       NetWait, NetLock, CheckNicEvent, ReadReceiveStatus, ClearReceiveStatus, Reply,
       ProcessDone, CheckPhyEvent, NetUnlock, NicTick, TimerSends, NetTickDone
  <2>2. RxInv'
    BY <2>1, SameReceiving DEF rxRing, frames
  <2> QED  BY <1>1, <2>1, <2>2, SameSending DEF frames, Service!vars
<1> QED  BY <1>2, <1>3, <1>4, <1>5, <1>6, <1>7 DEF Tasks

LEMMA InitService == Init => ServiceInv /\ Service!Init
<1> SUFFICES ASSUME Init  PROVE ServiceInv /\ Service!Init
  OBVIOUS
<1>1. Service!Init
  BY DEF Init, Service!Init
<1>2. TxInv
  <2>1. TxSlot(0) = 0 /\ \A i \in TxIndexes : TxSlot(i) \in TxIndexes
    BY TxCountAssumption DEF Init, TxSlot, TxIndexes
  <2>2. Pending(0)
    BY <2>1, TxCountAssumption DEF Init, Pending, TxIndexes
  <2> QED  BY <2>2, TxCountAssumption DEF TxInv
<1>3. SenderInv
  BY DEF Init, SenderInv, Tasks
<1>4. RxInv
  <2>1. 0 \in 0..RxCount /\ Filled(0)
    <3>1. RxSlot(0) = 0 /\ \A i \in RxIndexes : RxSlot(i) \in RxIndexes
      BY RxCountAssumption DEF Init, RxSlot, RxIndexes
    <3> QED  BY <3>1, RxCountAssumption DEF Init, Filled, RxEntry, RxIndexes
  <2>2. InOrder(0) /\ Arriving(0)
    BY DEF Init, InOrder, Arriving
  <2>3. FramesInRing(0)
    <3>1. PICK p \in [1..0 -> 0 .. 0 - 1] : TRUE
      <4>1. [j \in 1..0 |-> 0] \in [1..0 -> 0 .. 0 - 1]
        OBVIOUS
      <4> QED  BY <4>1
    <3>2. EndsAt(0, 0, p)
      BY DEF Init, EndsAt
    <3>3. 0 \in 0..Len(stored)
      BY DEF Init
    <3>4. \E m \in 0..Len(stored) : \E q \in [1..m -> 0 .. 0 - 1] : EndsAt(0, m, q)
      BY <3>2, <3>3, Zenon
    <3> QED  BY <3>4, Zenon DEF FramesInRing
  <2> QED  BY <2>1, <2>2, <2>3 DEF RxInv
<1> QED  BY <1>1, <1>2, <1>3, <1>4 DEF ServiceInv

\* ImplementsService: the driver is two reliable queues to the stack.  What
\* nicSendPacket accepts is sent and what the controller stores is given to
\* nicProcessPacket, whole, once and in order, also when a frame spans the end
\* of the ring or was cut because the ring was full.
THEOREM ServiceImplemented == Spec => ImplementsService
<1>1. Spec => [](TypeInv /\ ServiceInv)
  BY InitTypes, NextTypes, InitService, ServiceStep, PTL DEF Spec
<1>2. TypeInv /\ ServiceInv /\ [Next]_vars => [Service!Next]_(Service!vars)
  BY ServiceStep
<1> QED  BY <1>1, <1>2, InitService, PTL DEF Spec, ImplementsService

=============================================================================
