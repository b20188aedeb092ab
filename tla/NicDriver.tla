----------------------------- MODULE NicDriver ------------------------------
(***************************************************************************)
(* The path of Ethernet frames between the controller and the stack:       *)
(* same54_eth_driver.c, ksz8091_driver.c, nic.c and netTask of net.c.      *)
(* Four actors run concurrently: the controller and the link (hardware),   *)
(* the interrupt handler, the net task, and an application task that sends *)
(* through a socket.  The two tasks exclude each other by netMutex, except *)
(* that a task waits for nicTxEvent while it holds it.                     *)
(*                                                                         *)
(* A step of software is what happens between two accesses to state it     *)
(* shares with the hardware or with the handler.                           *)
(***************************************************************************)
EXTENDS Integers, Sequences, FiniteSets

CONSTANTS
    TxCount,         \* SAME54_ETH_TX_BUFFER_COUNT
    RxCount,         \* SAME54_ETH_RX_BUFFER_COUNT
    MaxLen,          \* buffers the longest frame takes
    MaxEvents        \* bound: frames sent, frames arriving and link changes

ASSUME TxCountAssumption == TxCount \in Nat \ {0}

\* The static check of SAME54_ETH_RX_BUFFER_COUNT: the longest frame fits.
ASSUME RxCountAssumption == RxCount \in Nat \ {0} /\ MaxLen \in 1..RxCount

ASSUME MaxEventsAssumption == MaxEvents \in Nat

VARIABLES
    txBufferDesc,    \* per TX buffer: GMAC_TX_USED, and the frame in it
    txBufferIndex,   \* where the driver writes the next frame
    rxBufferDesc,    \* per RX buffer: ownership, SOF, EOF, what is in it
    rxBufferIndex,   \* where the driver reads the next frame
    hwTx, hwRx,      \* the descriptors the controller is at
    incoming,        \* the frame that is arriving; part 0 when there is none
    isr,             \* an enabled cause is set in GMAC_ISR
    tsr, rsr,        \* GMAC_TSR and GMAC_RSR
    irq,             \* GMAC_IRQn is enabled
    isrAt,           \* where GMAC_Handler is
    isrTsr, isrRsr,  \* its locals tsr and rsr
    nicTxEvent,      \* binary semaphores
    netEvent,
    nicEvent, phyEvent,   \* the flags of NetInterface
    netMutex,        \* its holder
    at,              \* where the tasks are
    ticking,         \* the net task is in netTick
    rsrSeen,         \* the local rsr of same54EthEventHandler
    linkState,       \* interface->linkState
    phyLink,         \* the link
    bmsr,            \* the link status bit of BMSR, which latches low
    icsr,            \* a link change is flagged in ICSR
    events,          \* bound, and the numbers of frames
    unnoticed,       \* history: a link failure the stack was not told of
    accepted, wire, stored, delivered   \* history, as in NicService

txRing == <<txBufferDesc, txBufferIndex, hwTx>>
rxRing == <<rxBufferDesc, rxBufferIndex, hwRx, incoming>>
handler == <<isrAt, isrTsr, isrRsr>>
netFlags == <<netEvent, nicEvent, phyEvent>>
link == <<linkState, phyLink, bmsr, icsr, unnoticed>>
tasks == <<at, ticking, netMutex, rsrSeen, events>>
frames == <<accepted, wire, stored, delivered>>
vars == <<txRing, rxRing, isr, tsr, rsr, irq, handler, nicTxEvent, netFlags,
          link, tasks, frames>>

Tasks == {"app", "net"}

TxIndexes == 0 .. TxCount - 1
RxIndexes == 0 .. RxCount - 1

RxContents == [frame: 0..MaxEvents, part: 0..MaxLen]

\* What the stack is given: the frame, and whether it is all of it.
Received == [frame: 0..MaxEvents, whole: BOOLEAN]

Sending == {"event", "taken", "tail"}

AppPlaces == {"idle"} \cup Sending
NetPlaces == {"start", "wait", "lock", "nic", "disable", "clear", "receive",
              "process", "phy", "unlock", "tick", "timers"} \cup Sending

TxTypeOK ==
    /\ txBufferDesc \in [TxIndexes -> [used: BOOLEAN, frame: 0..MaxEvents]]
    /\ txBufferIndex \in TxIndexes /\ hwTx \in TxIndexes
    /\ accepted \in Seq(0..MaxEvents) /\ wire \in Seq(0..MaxEvents)

RxTypeOK ==
    /\ rxBufferDesc \in [RxIndexes -> [own: BOOLEAN, sof: BOOLEAN, eof: BOOLEAN,
                                       data: RxContents]]
    /\ rxBufferIndex \in RxIndexes /\ hwRx \in RxIndexes
    /\ incoming \in [frame: 0..MaxEvents, part: 0..MaxLen, len: 1..MaxLen]
    /\ stored \in Seq(Received) /\ delivered \in Seq(Received)

IrqTypeOK ==
    /\ isr \in BOOLEAN /\ irq \in BOOLEAN
    /\ tsr \subseteq {"TXCOMP"} /\ isrTsr \subseteq {"TXCOMP", "TXGO"}
    /\ rsr \subseteq {"REC", "BNA"}
    /\ isrRsr \subseteq {"REC", "BNA"} /\ rsrSeen \subseteq {"REC", "BNA"}
    /\ isrAt \in {"off", "clear", "notify"}

EventTypeOK ==
    /\ nicTxEvent \in BOOLEAN /\ netEvent \in BOOLEAN
    /\ nicEvent \in BOOLEAN /\ phyEvent \in BOOLEAN
    /\ linkState \in BOOLEAN /\ phyLink \in BOOLEAN
    /\ bmsr \in BOOLEAN /\ icsr \in BOOLEAN /\ unnoticed \in BOOLEAN

TaskTypeOK ==
    /\ netMutex \in Tasks \cup {"free"}
    /\ at \in [Tasks -> AppPlaces \cup NetPlaces]
    /\ at["app"] \in AppPlaces /\ at["net"] \in NetPlaces
    /\ ticking \in BOOLEAN /\ events \in 0..MaxEvents

TypeOK == TxTypeOK /\ RxTypeOK /\ IrqTypeOK /\ EventTypeOK /\ TaskTypeOK

\* netConfigInterface has returned and the kernel starts.  ksz8091Init asks
\* for a first look at the link.
Init ==
    /\ txBufferDesc = [i \in TxIndexes |-> [used |-> TRUE, frame |-> 0]]
    /\ txBufferIndex = 0 /\ hwTx = 0
    /\ rxBufferDesc = [i \in RxIndexes |-> [own |-> FALSE, sof |-> FALSE, eof |-> FALSE,
                                            data |-> [frame |-> 0, part |-> 0]]]
    /\ rxBufferIndex = 0 /\ hwRx = 0
    /\ incoming = [frame |-> 0, part |-> 0, len |-> 1]
    /\ isr = FALSE /\ tsr = {} /\ rsr = {} /\ irq = FALSE
    /\ isrAt = "off" /\ isrTsr = {} /\ isrRsr = {}
    /\ nicTxEvent = TRUE /\ netEvent = TRUE
    /\ nicEvent = FALSE /\ phyEvent = TRUE
    /\ netMutex = "free"
    /\ at = [app |-> "idle", net |-> "start"] /\ ticking = FALSE
    /\ rsrSeen = {} /\ events = 0
    /\ linkState = FALSE /\ phyLink = FALSE /\ bmsr = FALSE /\ icsr = FALSE
    /\ unnoticed = FALSE
    /\ accepted = <<>> /\ wire = <<>> /\ stored = <<>> /\ delivered = <<>>

Event == events < MaxEvents /\ events' = events + 1

-----------------------------------------------------------------------------
(* The controller and the link *)

NextTx(i) == IF i < TxCount - 1 THEN i + 1 ELSE 0
NextRx(i) == IF i < RxCount - 1 THEN i + 1 ELSE 0

\* A frame is sent and its descriptor given back.
HwTransmit ==
    /\ ~txBufferDesc[hwTx].used
    /\ wire' = Append(wire, txBufferDesc[hwTx].frame)
    /\ txBufferDesc' = [txBufferDesc EXCEPT ![hwTx].used = TRUE]
    /\ hwTx' = NextTx(hwTx)
    /\ tsr' = tsr \cup {"TXCOMP"}
    /\ isr' = TRUE
    /\ UNCHANGED <<txBufferIndex, rxRing, rsr, irq, handler, nicTxEvent, netFlags,
                   link, tasks, accepted, stored, delivered>>

HwFrameStart(len) ==
    /\ incoming.part = 0 /\ Event
    /\ incoming' = [frame |-> events', part |-> 1, len |-> len]
    /\ UNCHANGED <<txRing, rxBufferDesc, rxBufferIndex, hwRx, isr, tsr, rsr, irq,
                   handler, nicTxEvent, netFlags, link, at, ticking, netMutex, rsrSeen, frames>>

\* The next buffer is filled; the last one of a frame raises an interrupt.
HwStoreBuffer ==
    LET last == incoming.part = incoming.len
    IN  /\ incoming.part > 0 /\ ~rxBufferDesc[hwRx].own
        /\ rxBufferDesc' = [rxBufferDesc EXCEPT ![hwRx] =
               [own |-> TRUE, sof |-> incoming.part = 1, eof |-> last,
                data |-> [frame |-> incoming.frame, part |-> incoming.part]]]
        /\ hwRx' = NextRx(hwRx)
        /\ incoming' = [incoming EXCEPT !.part = IF last THEN 0 ELSE @ + 1]
        /\ rsr' = IF last THEN rsr \cup {"REC"} ELSE rsr
        /\ isr' = (isr \/ last)
        /\ stored' = IF last THEN Append(stored, [frame |-> incoming.frame, whole |-> TRUE])
                     ELSE stored
        /\ UNCHANGED <<txRing, rxBufferIndex, tsr, irq, handler, nicTxEvent, netFlags,
                       link, tasks, accepted, wire, delivered>>

\* The driver still owns the next buffer: the rest of the frame is dropped, and
\* what is already stored of it stays in the ring.
HwNoBuffer ==
    /\ incoming.part > 0 /\ rxBufferDesc[hwRx].own
    /\ incoming' = [incoming EXCEPT !.part = 0]
    /\ rsr' = rsr \cup {"BNA"}
    /\ isr' = TRUE
    /\ UNCHANGED <<txRing, rxBufferDesc, rxBufferIndex, hwRx, tsr, irq, handler,
                   nicTxEvent, netFlags, link, tasks, frames>>

LinkChange ==
    /\ Event
    /\ phyLink' = ~phyLink
    /\ icsr' = TRUE
    /\ bmsr' = (bmsr /\ ~phyLink)
    /\ unnoticed' = (unnoticed \/ (phyLink /\ linkState))
    /\ UNCHANGED <<txRing, rxRing, isr, tsr, rsr, irq, handler, nicTxEvent,
                   netFlags, linkState, at, ticking, netMutex, rsrSeen, frames>>

-----------------------------------------------------------------------------
(* GMAC_Handler *)

\* It reads the three status registers; reading GMAC_ISR clears it.  TXGO is
\* set while the controller is sending.
IsrEnter ==
    /\ isrAt = "off" /\ irq /\ isr
    /\ isr' = FALSE
    /\ isrTsr' = tsr \cup (IF txBufferDesc[hwTx].used THEN {} ELSE {"TXGO"})
    /\ isrRsr' = rsr
    /\ isrAt' = "clear"
    /\ UNCHANGED <<txRing, rxRing, tsr, rsr, irq, nicTxEvent, netFlags, link,
                   tasks, frames>>

\* Only the flags that were seen are cleared.
IsrClear ==
    /\ isrAt = "clear"
    /\ tsr' = tsr \ isrTsr
    /\ isrAt' = "notify"
    /\ UNCHANGED <<txRing, rxRing, isr, rsr, irq, isrTsr, isrRsr, nicTxEvent,
                   netFlags, link, tasks, frames>>

IsrNotify ==
    /\ isrAt = "notify"
    /\ nicTxEvent' = (nicTxEvent \/ (isrTsr # {} /\ txBufferDesc[txBufferIndex].used))
    /\ nicEvent' = (nicEvent \/ isrRsr # {})
    /\ netEvent' = (netEvent \/ isrRsr # {})
    /\ isrAt' = "off"
    /\ UNCHANGED <<txRing, rxRing, isr, tsr, rsr, irq, isrTsr, isrRsr, phyEvent,
                   link, tasks, frames>>

-----------------------------------------------------------------------------
(* nicSendPacket and same54EthSendPacket, for either task *)

\* A task runs only while the handler does not.
Run(t, place) == isrAt = "off" /\ at[t] = place

Go(t, place) == at' = [at EXCEPT ![t] = place]

\* A socket call takes netMutex and ends up in nicSendPacket.  The net task has
\* the higher priority and runs first.
AppSend ==
    /\ Run("app", "idle") /\ at["net"] # "start" /\ netMutex = "free" /\ Event
    /\ netMutex' = "app"
    /\ Go("app", "event")
    /\ UNCHANGED <<txRing, rxRing, isr, tsr, rsr, irq, handler, nicTxEvent,
                   netFlags, link, ticking, rsrSeen, frames>>

\* osWaitForEvent(&nicTxEvent, INFINITE_DELAY)
WaitTxEvent(t) ==
    /\ Run(t, "event") /\ nicTxEvent
    /\ nicTxEvent' = FALSE
    /\ Go(t, "taken")
    /\ UNCHANGED <<txRing, rxRing, isr, tsr, rsr, irq, handler, netFlags, link,
                   netMutex, ticking, rsrSeen, events, frames>>

\* nicSendPacket enables interrupts and returns: the net task to a timer or to
\* nicProcessPacket, the application to a function that releases netMutex.
SendReturns(t) ==
    /\ irq' = TRUE
    /\ Go(t, IF t = "app" THEN "idle" ELSE IF ticking THEN "timers" ELSE "process")
    /\ netMutex' = IF t = "app" THEN "free" ELSE netMutex

\* mutant: the event taken is not given back
SendTooLongSilent(t) ==
    /\ Run(t, "taken")
    /\ UNCHANGED nicTxEvent
    /\ SendReturns(t)
    /\ UNCHANGED <<txRing, rxRing, isr, tsr, rsr, handler, netFlags, link,
                   ticking, rsrSeen, events, frames>>

\* The frame is longer than a buffer: the transmitter stays available.
SendTooLong(t) ==
    /\ Run(t, "taken")
    /\ nicTxEvent' = TRUE
    /\ SendReturns(t)
    /\ UNCHANGED <<txRing, rxRing, isr, tsr, rsr, handler, netFlags, link,
                   ticking, rsrSeen, events, frames>>

\* ERROR_FAILURE: the buffer is not available for writing.
SendRefused(t) ==
    /\ Run(t, "taken") /\ ~txBufferDesc[txBufferIndex].used
    /\ SendReturns(t)
    /\ UNCHANGED <<txRing, rxRing, isr, tsr, rsr, handler, nicTxEvent, netFlags,
                   link, ticking, rsrSeen, events, frames>>

SendFrame(t) ==
    /\ Run(t, "taken") /\ txBufferDesc[txBufferIndex].used
    /\ irq' = FALSE
    /\ txBufferDesc' = [txBufferDesc EXCEPT ![txBufferIndex] = [used |-> FALSE, frame |-> events]]
    /\ txBufferIndex' = NextTx(txBufferIndex)
    /\ accepted' = Append(accepted, events)
    /\ Go(t, "tail")
    /\ UNCHANGED <<hwTx, rxRing, isr, tsr, rsr, handler, nicTxEvent, netFlags,
                   link, netMutex, ticking, rsrSeen, events, wire, stored, delivered>>

\* mutant: nobody looks at the next buffer
SendTailSilent(t) ==
    /\ Run(t, "tail")
    /\ UNCHANGED nicTxEvent
    /\ SendReturns(t)
    /\ UNCHANGED <<txRing, rxRing, isr, tsr, rsr, handler, netFlags, link,
                   ticking, rsrSeen, events, frames>>

\* TSTART is set; another frame is accepted if the next buffer is free.
SendTail(t) ==
    /\ Run(t, "tail")
    /\ nicTxEvent' = (nicTxEvent \/ txBufferDesc[txBufferIndex].used)
    /\ SendReturns(t)
    /\ UNCHANGED <<txRing, rxRing, isr, tsr, rsr, handler, netFlags, link,
                   ticking, rsrSeen, events, frames>>

Send(t) == WaitTxEvent(t) \/ SendTooLong(t) \/ SendRefused(t) \/ SendFrame(t) \/ SendTail(t)

-----------------------------------------------------------------------------
(* netTask and same54EthEventHandler *)

NetStart ==
    /\ Run("net", "start") /\ netMutex = "free"
    /\ irq' = TRUE
    /\ Go("net", "wait")
    /\ UNCHANGED <<txRing, rxRing, isr, tsr, rsr, handler, nicTxEvent, netFlags,
                   link, netMutex, ticking, rsrSeen, events, frames>>

\* osWaitForEvent(&netEvent, timeout), in time or not
NetWait ==
    /\ Run("net", "wait")
    /\ netEvent' = FALSE
    /\ Go("net", IF netEvent THEN "lock" ELSE "tick")
    /\ UNCHANGED <<txRing, rxRing, isr, tsr, rsr, irq, handler, nicTxEvent, nicEvent,
                   phyEvent, link, netMutex, ticking, rsrSeen, events, frames>>

NetLock ==
    /\ Run("net", "lock") /\ netMutex = "free"
    /\ netMutex' = "net"
    /\ Go("net", "nic")
    /\ UNCHANGED <<txRing, rxRing, isr, tsr, rsr, irq, handler, nicTxEvent, netFlags,
                   link, ticking, rsrSeen, events, frames>>

CheckNicEvent ==
    /\ Run("net", "nic")
    /\ nicEvent' = FALSE
    /\ Go("net", IF nicEvent THEN "disable" ELSE "phy")
    /\ UNCHANGED <<txRing, rxRing, isr, tsr, rsr, irq, handler, nicTxEvent, netEvent,
                   phyEvent, link, netMutex, ticking, rsrSeen, events, frames>>

\* The handler of NIC events runs with the interrupt disabled.
ReadReceiveStatus ==
    /\ Run("net", "disable")
    /\ rsrSeen' = rsr
    /\ irq' = (rsr = {})
    /\ Go("net", IF rsr = {} THEN "phy" ELSE "clear")
    /\ UNCHANGED <<txRing, rxRing, isr, tsr, rsr, handler, nicTxEvent, netFlags,
                   link, ticking, netMutex, events, frames>>

ClearReceiveStatus ==
    /\ Run("net", "clear")
    /\ rsr' = rsr \ rsrSeen
    /\ Go("net", "receive")
    /\ UNCHANGED <<txRing, rxRing, isr, tsr, irq, handler, nicTxEvent, netFlags,
                   link, netMutex, ticking, rsrSeen, events, frames>>

\* The i-th descriptor from rxBufferIndex on.
RxSlot(i) ==
    IF rxBufferIndex + i < RxCount THEN rxBufferIndex + i ELSE rxBufferIndex + i - RxCount

RxEntry(i) == rxBufferDesc[RxSlot(i)]

\* The descriptors up to the first one the controller owns.
Owned == {i \in RxIndexes : \A k \in 0..i : RxEntry(k).own}

Sofs == {i \in Owned : RxEntry(i).sof}

\* EOF flags that follow a SOF flag: the ends of complete frames.
FrameEnds == {e \in Owned : RxEntry(e).eof /\ \E s \in Sofs : s <= e}

\* mutant: the start of a frame that is still arriving is given back too
ReleasedTooEarly == {i \in Owned : \A e \in FrameEnds : i <= e}

\* The descriptors same54EthReceivePacket gives back: up to the end of the first
\* complete frame, else up to the start of one that is still arriving, else all.
Released ==
    {i \in Owned : /\ \A e \in FrameEnds : i <= e
                   /\ FrameEnds = {} /\ Sofs # {} => \E s \in Sofs : i < s}

\* The frame starts at the last SOF before its end.
FrameTaken ==
    LET e == Cardinality(Released) - 1
        f == RxEntry(e).data.frame
    IN  [frame |-> f,
         whole |-> \E s \in 0..e :
             /\ RxEntry(s).sof /\ \A i \in s + 1 .. e : ~RxEntry(i).sof
             /\ \A i \in s..e : RxEntry(i).data = [frame |-> f, part |-> i - s + 1]]

\* What is read is passed to nicProcessPacket, which enables the interrupt.
\* ERROR_BUFFER_EMPTY ends the handler, and netTask enables it.
ReceivePacket ==
    /\ Run("net", "receive")
    /\ rxBufferDesc' = [j \in RxIndexes |->
           [rxBufferDesc[j] EXCEPT !.own = @ /\ \A i \in Released : j # RxSlot(i)]]
    /\ rxBufferIndex' = RxSlot(Cardinality(Released))
    /\ delivered' = IF FrameEnds # {} THEN Append(delivered, FrameTaken) ELSE delivered
    /\ irq' = TRUE
    /\ Go("net", IF FrameEnds # {} THEN "process" ELSE "phy")
    /\ UNCHANGED <<txRing, hwRx, incoming, isr, tsr, rsr, handler, nicTxEvent,
                   netFlags, link, netMutex, ticking, rsrSeen, events, accepted, wire, stored>>

\* The stack answers a frame with another one, an ACK for instance.
Reply ==
    /\ Run("net", "process") /\ Event
    /\ Go("net", "event")
    /\ UNCHANGED <<txRing, rxRing, isr, tsr, rsr, irq, handler, nicTxEvent, netFlags,
                   link, netMutex, ticking, rsrSeen, frames>>

\* mutant: one packet per event
ProcessDoneOnce ==
    /\ Run("net", "process")
    /\ irq' = TRUE
    /\ Go("net", "phy")
    /\ UNCHANGED <<txRing, rxRing, isr, tsr, rsr, handler, nicTxEvent, netFlags,
                   link, netMutex, ticking, rsrSeen, events, frames>>

ProcessDone ==
    /\ Run("net", "process")
    /\ irq' = FALSE
    /\ Go("net", "receive")
    /\ UNCHANGED <<txRing, rxRing, isr, tsr, rsr, handler, nicTxEvent, netFlags,
                   link, netMutex, ticking, rsrSeen, events, frames>>

\* mutant: the NIC event is acknowledged after it is handled
CheckPhyEventLateAck ==
    /\ Run("net", "phy")
    /\ phyEvent' = FALSE /\ nicEvent' = FALSE
    /\ Go("net", "unlock")
    /\ icsr' = (icsr /\ ~phyEvent)
    /\ IF phyEvent /\ icsr
       THEN linkState' = phyLink /\ bmsr' = phyLink /\ unnoticed' = FALSE
       ELSE UNCHANGED <<linkState, bmsr, unnoticed>>
    /\ UNCHANGED <<txRing, rxRing, isr, tsr, rsr, irq, handler, nicTxEvent, netEvent,
                   phyLink, netMutex, ticking, rsrSeen, events, frames>>

\* ksz8091EventHandler: the flag in ICSR is cleared by the read, BMSR is read
\* twice, nicNotifyLinkChange tells the stack.
CheckPhyEvent ==
    /\ Run("net", "phy")
    /\ phyEvent' = FALSE
    /\ Go("net", "unlock")
    /\ icsr' = (icsr /\ ~phyEvent)
    /\ IF phyEvent /\ icsr
       THEN linkState' = phyLink /\ bmsr' = phyLink /\ unnoticed' = FALSE
       ELSE UNCHANGED <<linkState, bmsr, unnoticed>>
    /\ UNCHANGED <<txRing, rxRing, isr, tsr, rsr, irq, handler, nicTxEvent, netEvent,
                   nicEvent, phyLink, netMutex, ticking, rsrSeen, events, frames>>

\* A tick follows when it is time.
NetUnlock ==
    /\ Run("net", "unlock")
    /\ netMutex' = "free"
    /\ \E place \in {"wait", "tick"} : Go("net", place)
    /\ UNCHANGED <<txRing, rxRing, isr, tsr, rsr, irq, handler, nicTxEvent, netFlags,
                   link, ticking, rsrSeen, events, frames>>

\* mutant: BMSR is read twice
NicTickCurrent ==
    /\ Run("net", "tick") /\ netMutex = "free"
    /\ phyEvent' = (phyEvent \/ phyLink # linkState)
    /\ netEvent' = (netEvent \/ phyLink # linkState)
    /\ bmsr' = phyLink
    /\ irq' = TRUE
    /\ netMutex' = "net" /\ ticking' = TRUE
    /\ Go("net", "timers")
    /\ UNCHANGED <<txRing, rxRing, isr, tsr, rsr, handler, nicTxEvent, nicEvent,
                   linkState, phyLink, icsr, unnoticed, rsrSeen, events, frames>>

\* mutant: only a link that comes up is reported
NicTickUpOnly ==
    /\ Run("net", "tick") /\ netMutex = "free"
    /\ phyEvent' = (phyEvent \/ (bmsr /\ ~linkState))
    /\ netEvent' = (netEvent \/ (bmsr /\ ~linkState))
    /\ bmsr' = phyLink
    /\ irq' = TRUE
    /\ netMutex' = "net" /\ ticking' = TRUE
    /\ Go("net", "timers")
    /\ UNCHANGED <<txRing, rxRing, isr, tsr, rsr, handler, nicTxEvent, nicEvent,
                   linkState, phyLink, icsr, unnoticed, rsrSeen, events, frames>>

\* netTick, under netMutex, of which the driver's part is nicTick and ksz8091Tick.
NicTick ==
    /\ Run("net", "tick") /\ netMutex = "free"
    /\ phyEvent' = (phyEvent \/ bmsr # linkState)
    /\ netEvent' = (netEvent \/ bmsr # linkState)
    /\ bmsr' = phyLink
    /\ irq' = TRUE
    /\ netMutex' = "net" /\ ticking' = TRUE
    /\ Go("net", "timers")
    /\ UNCHANGED <<txRing, rxRing, isr, tsr, rsr, handler, nicTxEvent, nicEvent,
                   linkState, phyLink, icsr, unnoticed, rsrSeen, events, frames>>

\* A protocol's timer sends a frame: an ARP request, a retransmission.
TimerSends ==
    /\ Run("net", "timers") /\ Event
    /\ Go("net", "event")
    /\ UNCHANGED <<txRing, rxRing, isr, tsr, rsr, irq, handler, nicTxEvent, netFlags,
                   link, netMutex, ticking, rsrSeen, frames>>

NetTickDone ==
    /\ Run("net", "timers")
    /\ netMutex' = "free" /\ ticking' = FALSE
    /\ Go("net", "wait")
    /\ UNCHANGED <<txRing, rxRing, isr, tsr, rsr, irq, handler, nicTxEvent, netFlags,
                   link, rsrSeen, events, frames>>

-----------------------------------------------------------------------------

Hardware == HwTransmit \/ HwStoreBuffer \/ HwNoBuffer

Environment == LinkChange \/ \E len \in 1..MaxLen : HwFrameStart(len)

Isr == IsrEnter \/ IsrClear \/ IsrNotify

NetTask ==
    \/ Send("net") \/ NetStart \/ NetWait \/ NetLock
    \/ CheckNicEvent \/ ReadReceiveStatus \/ ClearReceiveStatus \/ ReceivePacket
    \/ Reply \/ ProcessDone \/ CheckPhyEvent \/ NetUnlock \/ NicTick
    \/ TimerSends \/ NetTickDone

Next == Hardware \/ Environment \/ Isr \/ AppSend \/ Send("app") \/ NetTask

Spec == Init /\ [][Next]_vars

\* The controller sends what it is given, interrupts are taken, and tasks that
\* can run do.
FairSpec ==
    /\ Spec
    /\ WF_vars(HwTransmit)
    /\ WF_vars(Isr)
    /\ WF_vars(Send("app"))
    /\ WF_vars(NetTask)

-----------------------------------------------------------------------------
(* Properties *)

Holder == \E t \in Tasks : at[t] \in {"taken", "tail"}

HandlerWillSignal(seen, reg) == (isrAt # "off" /\ seen # {}) \/ (isr /\ reg # {})

\* No wake-up of a sender is lost: when the next TX buffer is free, either the
\* event says so, or a task has just taken it, or the handler is about to set it.
TxWakeup ==
    txBufferDesc[txBufferIndex].used /\ ~nicTxEvent /\ ~Holder
        => HandlerWillSignal(isrTsr, tsr)

NicEventPending == nicEvent /\ (netEvent \/ at["net"] \in {"lock", "nic"})

Draining ==
    \/ at["net"] \in {"clear", "receive", "process"}
    \/ at["net"] \in Sending /\ ~ticking

\* No received frame is forgotten: while a complete frame is in the ring, the
\* net task is emptying the ring, or the receive status is still set and the
\* event that makes the task look at it is on its way.
RxWakeup ==
    FrameEnds # {} =>
        \/ Draining
        \/ rsr # {} /\ \/ isr
                       \/ isrAt # "off" /\ isrRsr # {}
                       \/ NicEventPending
                       \/ at["net"] = "disable"

\* The driver implements NicService: frames are not lost after they are
\* accepted or stored, nor reordered, repeated, mixed or cut.
Service == INSTANCE NicService WITH TxFrames <- 1..MaxEvents, RxFrames <- Received
ImplementsService == Service!Init /\ [][Service!Next]_(Service!vars)

\* And they move on: what is accepted is sent, what is stored is delivered.
ServesForever == WF_(Service!vars)(Service!Transmit) /\ WF_(Service!vars)(Service!Deliver)

\* A sender, which holds netMutex and waits without a timeout, always returns.
SendersReturn == at["app"] # "idle" ~> at["app"] = "idle"

\* The stack ends up with the state of the link.
LinkFollows == \A up \in BOOLEAN : <>[](phyLink = up) => <>[](linkState = up)

\* A link failure the stack can notice is notified, even when the link is back
\* before the next tick.
FlapNoticed == unnoticed ~> ~unnoticed

=============================================================================
