--------------------------- MODULE TcpConnection ---------------------------
(***************************************************************************)
(* One TCP connection between two hosts that run this stack: tcp.c over    *)
(* TcpSocket.  The client connects; the server listens, accepts once.  On  *)
(* each host run a task that calls the socket functions, and the net task  *)
(* that processes segments and timers.  They exclude each other by         *)
(* netMutex, which a call holds except while it waits for an event: a step *)
(* is what a task does between two waits, a segment, or a timer.           *)
(*                                                                         *)
(* The network (external) may lose, duplicate and delay segments.          *)
(***************************************************************************)
EXTENDS TcpSocket

CONSTANTS
    ClientIss, ServerIss,  \* netGetRand
    Units,                 \* bound: units each program writes
    Readers,               \* the hosts whose program reads
    WriteSizes,            \* sizes of the data given to socketSend
    ReadSizes,             \* sizes of the buffers given to socketReceive
    Hows,                  \* arguments of socketShutdown
    MaxFaults,             \* bound: faults of the network and of the hosts
    Weight                 \* for each kind of fault: how many it counts for

ASSUME SystemAssumption ==
    /\ ClientIss \in SeqNums /\ ServerIss \in SeqNums
    /\ Units \in [{"client", "server"} -> Nat]
    /\ Readers \subseteq {"client", "server"}
    /\ WriteSizes \subseteq Nat \ {0} /\ ReadSizes \subseteq Nat \ {0}
    /\ Hows \subseteq {"SEND", "RECEIVE", "BOTH"}
    /\ MaxFaults \in Nat
    /\ DOMAIN Weight \subseteq {"lose", "duplicate", "delay", "hurry", "timeout",
                               "abort", "memory", "refuses"}
    /\ \A kind \in DOMAIN Weight : Weight[kind] \in Nat \ {0}

VARIABLES
    sock,      \* the sockets: the client's, the listener and the accepted one
    task,      \* where the task of each host is
    net,       \* the segments on their way to each host
    faults,    \* faults so far, each counted by its weight
    written,   \* history: as in TcpService
    shut,
    read,
    ended,
    gaveUp     \* history: hosts that gave up though their peer had not

history == <<written, shut, read, ended, gaveUp>>
vars == <<sock, task, net, faults, history>>

Hosts == {"client", "server"}
Peer(h) == IF h = "client" THEN "server" ELSE "client"

Sockets == {"client", "listener", "server"}
HostOf(x) == IF x = "client" THEN "client" ELSE "server"

Waits == {"connect", "accept", "send", "receive", "flush", "drain", "fin", "end"}
Places == Waits \cup {"start", "idle", "closed"}

Tasks ==
    [at: Places, blocked: BOOLEAN,
     size: Nat,                            \* of the call: what is left of it
     how: {"SEND", "RECEIVE", "BOTH"},     \* the argument of socketShutdown
     finState: {"FIN_WAIT_1", "LAST_ACK"}, \* the branch tcpShutdown is in
     closing: BOOLEAN]                     \* the program will only close

Idle == [at |-> "idle", blocked |-> FALSE, size |-> 0, how |-> "BOTH",
         finState |-> "FIN_WAIT_1", closing |-> FALSE]

Start == [Idle EXCEPT !.at = "start"]

\* The socket the task of a host works on.
Own(h) == IF h = "server" /\ task[h].at \in {"start", "accept"} THEN "listener"
          ELSE h

Init ==
    /\ sock = [x \in Sockets |->
                IF x = "client" THEN Opened
                ELSE IF x = "listener" THEN [Opened EXCEPT !.state = "LISTEN"]
                ELSE Unused]
    /\ task = [h \in Hosts |-> Start]
    /\ net = [h \in Hosts |-> <<>>]
    /\ faults = 0
    /\ written = [h \in Hosts |-> 0]
    /\ shut = [h \in Hosts |-> FALSE]
    /\ read = [h \in Hosts |-> <<>>]
    /\ ended = [h \in Hosts |-> FALSE]
    /\ gaveUp = {}

(***************************************************************************)
(* Steps                                                                   *)
(***************************************************************************)
\* A task in a call that does not wait holds netMutex: it goes on first.
Running(h) == task[h].at \in Waits /\ ~task[h].blocked
NoneRuns == \A h \in Hosts : ~Running(h)

Fault(kind) ==
    /\ kind \in DOMAIN Weight /\ faults + Weight[kind] <= MaxFaults
    /\ faults' = faults + Weight[kind]

\* What becomes of the segments the step sends.
Nics == {"up", "memory", "refuses"}
Sends(nic) == IF nic = "up" THEN UNCHANGED faults ELSE Fault(nic)

\* The step takes socket x to s, and what it sent is under way.
Put(x, s) ==
    /\ sock' = [sock EXCEPT ![x] = [s EXCEPT !.out = <<>>, !.nic = "up"]]
    /\ net' = [net EXCEPT ![Peer(HostOf(x))] = @ \o s.out]

Goto(h, place) == [task[h] EXCEPT !.at = place, !.blocked = FALSE]

Become(h, t) == task' = [task EXCEPT ![h] = t]

\* Nobody looks at the events of a socket before the next wait sets them.
Unwatched(s) ==
    [s EXCEPT !.eventMask = {}, !.eventFlags = {}, !.event = FALSE]

\* The call returns and leaves the socket in s.
Returns(h, s, closing) ==
    /\ Put(Own(h), Unwatched(s))
    /\ Become(h, [Idle EXCEPT !.closing = closing])

Return(h, s) == Returns(h, s, FALSE)
ReturnError(h, s) == Returns(h, s, TRUE)

\* tcpWaitForEvents(s, mask) by a task in t.
Await(h, s, t, mask) ==
    LET w == WaitForEvents(s, mask)
    IN  /\ Put(Own(h), w)
        /\ Become(h, [t EXCEPT !.blocked = w.eventFlags = {}])

\* The wait is over, or there was none; or it times out.
Resumes(h, place, nic) ==
    /\ task[h].at = place
    /\ \/ Running(h) /\ Sends(nic)
       \/ NoneRuns /\ sock[Own(h)].event /\ Sends(nic)
       \/ NoneRuns /\ ~sock[Own(h)].event /\ Fault("timeout") /\ nic = "up"

Calls(h) == NoneRuns /\ task[h].at = "idle"

(***************************************************************************)
(* tcpConnect and tcpAccept                                                *)
(***************************************************************************)
Connect(nic) ==
    LET s == ActiveOpen([sock["client"] EXCEPT !.nic = nic], ClientIss)
    IN  /\ NoneRuns /\ task["client"].at = "start"
        /\ Sends(nic)
        /\ IF nic = "up"
           THEN Await("client", s, Goto("client", "connect"),
                      {"CONNECTED", "CLOSED"})
           ELSE ReturnError("client", s)
        /\ UNCHANGED history

ConnectReturns ==
    /\ Resumes("client", "connect", "up")
    /\ Returns("client", sock["client"],
               sock["client"].eventFlags # {"CONNECTED"})
    /\ UNCHANGED history

Accept ==
    LET s == sock["listener"]
    IN  /\ NoneRuns /\ task["server"].at = "start"
        /\ IF s.synQueue = <<>>
           THEN /\ Put("listener", [s EXCEPT !.eventMask = {"RX_READY"},
                                             !.event = FALSE])
                /\ Become("server", [Goto("server", "accept")
                                        EXCEPT !.blocked = TRUE])
           ELSE Become("server", Goto("server", "accept"))
                /\ UNCHANGED <<sock, net>>
        /\ UNCHANGED <<faults, history>>

\* The request is answered by a new socket, or dropped and the next awaited.
AcceptTurn(nic) ==
    LET s == sock["listener"]
        rest == [s EXCEPT !.synQueue = Tail(@)]
        new == PassiveOpen([Opened EXCEPT !.nic = nic], Head(s.synQueue), ServerIss)
    IN  /\ Resumes("server", "accept", nic)
        /\ IF s.synQueue = <<>>
           THEN Put("listener", Unwatched(s)) /\ Become("server", Start)
           ELSE IF nic = "up"
           THEN /\ sock' = [sock EXCEPT !["listener"] = Unwatched(rest),
                                        !["server"] = [new EXCEPT !.out = <<>>]]
                /\ net' = [net EXCEPT !["client"] = @ \o new.out]
                /\ Become("server", Idle)
           ELSE Put("listener", Unwatched(rest)) /\ Become("server", Start)
        /\ UNCHANGED history

(***************************************************************************)
(* tcpSend and tcpReceive                                                  *)
(***************************************************************************)
Send(h) ==
    /\ Calls(h) /\ ~task[h].closing
    /\ \E n \in {n \in WriteSizes : written[h] + n <= Units[h]} :
            Await(h, sock[h], [Goto(h, "send") EXCEPT !.size = n], {"TX_READY"})
    /\ UNCHANGED <<faults, history>>

SendTurn(h, nic) ==
    LET s == [sock[h] EXCEPT !.nic = nic]
        n == Least(RoomToWrite(s), task[h].size)
        t == WriteData(s, [k \in 1 .. n |-> written[h] + k])
        left == task[h].size - n
    IN  /\ Resumes(h, "send", nic)
        /\ IF \/ s.eventFlags # {"TX_READY"}
              \/ s.state \notin {"ESTABLISHED", "CLOSE_WAIT"}
              \/ RoomToWrite(s) <= 0
           THEN ReturnError(h, s) /\ UNCHANGED written
           ELSE /\ written' = [written EXCEPT ![h] = @ + n]
                /\ IF left = 0 THEN Return(h, t)
                   ELSE Await(h, t, [Goto(h, "send") EXCEPT !.size = left],
                              {"TX_READY"})
        /\ UNCHANGED <<shut, read, ended, gaveUp>>

Receive(h) ==
    /\ Calls(h) /\ ~task[h].closing /\ ~ended[h] /\ h \in Readers
    /\ \E n \in ReadSizes :
            Await(h, sock[h], [Goto(h, "receive") EXCEPT !.size = n], {"RX_READY"})
    /\ UNCHANGED <<faults, history>>

ReceiveTurn(h, nic) ==
    LET s == [sock[h] EXCEPT !.nic = nic]
        n == Least(s.rcvUser, task[h].size)
        open == s.state \in {"ESTABLISHED", "FIN_WAIT_1", "FIN_WAIT_2"}
        over == \/ s.state \in {"CLOSE_WAIT", "LAST_ACK", "CLOSING", "TIME_WAIT"}
                \/ s.state = "CLOSED" /\ ~s.resetFlag /\ s.closedFlag
    IN  /\ Resumes(h, "receive", nic)
        /\ IF s.eventFlags # {"RX_READY"}
           THEN Return(h, s) /\ UNCHANGED <<read, ended>>
           ELSE IF s.rcvUser > 0 /\ (open \/ over)
           THEN /\ Return(h, Consume(s, n))
                /\ read' = [read EXCEPT ![h] = @ \o ReadData(s, n)]
                /\ UNCHANGED ended
           ELSE IF over
           THEN /\ Return(h, s)
                /\ ended' = [ended EXCEPT ![h] = TRUE]
                /\ UNCHANGED read
           ELSE ReturnError(h, s) /\ UNCHANGED <<read, ended>>
        /\ UNCHANGED <<written, shut, gaveUp>>

(***************************************************************************)
(* tcpShutdown, in the order of its waits: for room in the send buffer     *)
(* (tcpSend without data), until all data are sent, until the FIN is       *)
(* acknowledged, until the FIN of the peer is received.                    *)
(***************************************************************************)
\* Who has shut down both directions has nothing to do but to close.
ShutdownReturns(h, s, how) == Returns(h, s, how = "BOTH")

\* The part of the call that disables reception.
DisableReception(h, s, how) ==
    IF /\ how # "SEND"
       /\ s.state \in {"SYN_SENT", "SYN_RECEIVED", "ESTABLISHED", "FIN_WAIT_1",
                       "FIN_WAIT_2"}
    THEN Await(h, s, [Goto(h, "end") EXCEPT !.how = how], {"RX_SHUTDOWN"})
    ELSE ShutdownReturns(h, s, how)

Shutdown(h) ==
    LET s == sock[h]
        Begin(place, how) == [Goto(h, place) EXCEPT !.how = how]
    IN  /\ Calls(h) /\ ~task[h].closing
        /\ \E how \in Hows :
            IF how = "RECEIVE" THEN DisableReception(h, s, how)
            ELSE IF s.state \in {"CLOSED", "LISTEN"}
            THEN ReturnError(h, s)
            ELSE IF s.state \in {"SYN_RECEIVED", "ESTABLISHED", "CLOSE_WAIT"}
            THEN Await(h, s,
                       [Begin("flush", how) EXCEPT !.finState =
                            IF s.state = "CLOSE_WAIT" THEN "LAST_ACK"
                            ELSE "FIN_WAIT_1"],
                       {"TX_READY"})
            ELSE IF s.state \in {"FIN_WAIT_1", "CLOSING", "LAST_ACK"}
            THEN Await(h, s, Begin("fin", how), {"TX_SHUTDOWN"})
            ELSE DisableReception(h, s, how)
        /\ UNCHANGED <<faults, history>>

FlushTurn(h, nic) ==
    LET s == [sock[h] EXCEPT !.nic = nic]
    IN  /\ Resumes(h, "flush", nic)
        /\ IF \/ s.eventFlags # {"TX_READY"}
              \/ s.state \notin {"ESTABLISHED", "CLOSE_WAIT"}
              \/ RoomToWrite(s) <= 0
           THEN ReturnError(h, s)
           ELSE Await(h, NagleAlgo(s, TRUE), Goto(h, "drain"), {"TX_DONE"})
        /\ UNCHANGED history

\* The state the connection is in now is not looked at.  A FIN that cannot be
\* sent now is in the retransmission queue unless there was no memory for it.
DrainTurn(h, nic) ==
    LET s == [sock[h] EXCEPT !.nic = nic]
        t == SendFin(s, task[h].finState)
        done == s.eventFlags = {"TX_DONE"}
    IN  /\ Resumes(h, "drain", nic)
        /\ IF ~done THEN ReturnError(h, s)
           ELSE IF nic = "up" THEN Await(h, t, Goto(h, "fin"), {"TX_SHUTDOWN"})
           ELSE ReturnError(h, t)
        /\ shut' = [shut EXCEPT ![h] = @ \/ (done /\ nic # "memory")]
        /\ UNCHANGED <<written, read, ended, gaveUp>>

FinTurn(h) ==
    /\ Resumes(h, "fin", "up")
    /\ IF sock[h].eventFlags # {"TX_SHUTDOWN"}
       THEN ReturnError(h, sock[h])
       ELSE DisableReception(h, sock[h], task[h].how)
    /\ UNCHANGED history

EndTurn(h) ==
    /\ Resumes(h, "end", "up")
    /\ IF sock[h].eventFlags = {"RX_SHUTDOWN"}
       THEN ShutdownReturns(h, sock[h], task[h].how)
       ELSE ReturnError(h, sock[h])
    /\ UNCHANGED history

\* socketClose: tcpAbort
Close(h, nic) ==
    /\ Calls(h)
    /\ \/ task[h].closing /\ Sends(nic)
       \/ ~task[h].closing /\ nic = "up" /\ Fault("abort")
    /\ Put(h, Abort([sock[h] EXCEPT !.nic = nic]))
    /\ Become(h, [Idle EXCEPT !.at = "closed"])
    /\ UNCHANGED history

(***************************************************************************)
(* The net task: tcpProcessSegment and tcpTick                             *)
(***************************************************************************)
\* The socket a segment for the host is given to; none if it has none.
Matching(h) ==
    IF sock[h].used THEN {h}
    ELSE IF h = "server" THEN {"listener"}
    ELSE {}

ProcessSegment(h, nic) ==
    LET seg == Head(net[h])
        rest == [net EXCEPT ![h] = Tail(@)]
        s == IF Matching(h) = {} THEN StateClosed([Unused EXCEPT !.nic = nic], seg)
             ELSE LET x == CHOOSE x \in Matching(h) : TRUE
                  IN  ProcessState([sock[x] EXCEPT !.nic = nic], Peer(h), seg)
    IN  /\ NoneRuns /\ net[h] # <<>> /\ Sends(nic)
        /\ sock' = [x \in Sockets |->
                        IF x \in Matching(h)
                        THEN [s EXCEPT !.out = <<>>, !.nic = "up"]
                        ELSE sock[x]]
        /\ net' = [rest EXCEPT ![Peer(h)] = @ \o s.out]
        /\ UNCHANGED <<task, history>>

\* Timers are long compared to the network: they elapse while a segment is
\* under way, or its SYN waits to be accepted, only by a fault.
Quiet ==
    /\ \A h \in Hosts : net[h] = <<>>
    /\ sock["listener"].synQueue = <<>>

Elapses(due, nic) ==
    /\ NoneRuns
    /\ \/ due /\ Sends(nic)
       \/ ~due /\ nic = "up" /\ Fault("hurry")

\* The time-out doubles with each retransmission: of the two ends the one that
\* has retransmitted more is not the next.
NotAhead(h) ==
    RetransmitTimerRuns(sock[Peer(h)]) =>
        sock[h].retransmitCount <= sock[Peer(h)].retransmitCount

HasPeer(h) == sock[Peer(h)].used /\ sock[Peer(h)].state # "CLOSED"

RetransmitTick(h, nic) ==
    LET s == [sock[h] EXCEPT !.nic = nic]
    IN  /\ RetransmitTimerRuns(s) /\ Elapses(Quiet /\ NotAhead(h), nic)
        /\ Put(h, RetransmitTimeout(s))
        /\ gaveUp' = IF s.retransmitCount = MaxRetries /\ HasPeer(h)
                     THEN gaveUp \cup {h} ELSE gaveUp
        /\ UNCHANGED <<task, written, shut, read, ended>>

PersistTick(h, nic) ==
    LET s == [sock[h] EXCEPT !.nic = nic]
    IN  /\ PersistTimerRuns(s) /\ Elapses(Quiet, nic)
        /\ Put(h, PersistTimeout(s))
        /\ UNCHANGED <<task, history>>

\* The override timer is short (500 ms): it may elapse at any time.
OverrideTick(h, nic) ==
    LET s == [sock[h] EXCEPT !.nic = nic]
    IN  /\ NoneRuns /\ OverrideTimerRuns(s) /\ UsableWindow(s) > 0 /\ Sends(nic)
        /\ Put(h, OverrideTimeout(s))
        /\ UNCHANGED <<task, history>>

FinWait2Tick(h) ==
    /\ sock[h].state = "FIN_WAIT_2" /\ Elapses(Quiet, "up")
    /\ Put(h, FinWait2Timeout(sock[h]))
    /\ UNCHANGED <<task, history>>

TimeWaitTick(h) ==
    /\ sock[h].state = "TIME_WAIT" /\ Elapses(Quiet, "up")
    /\ Put(h, TimeWaitTimeout(sock[h]))
    /\ UNCHANGED <<task, history>>

(***************************************************************************)
(* The network (external)                                                  *)
(***************************************************************************)
Lose(h) ==
    /\ NoneRuns /\ net[h] # <<>> /\ Fault("lose")
    /\ net' = [net EXCEPT ![h] = Tail(@)]
    /\ UNCHANGED <<sock, task, history>>

Duplicate(h) ==
    /\ NoneRuns /\ net[h] # <<>> /\ Fault("duplicate")
    /\ net' = [net EXCEPT ![h] = Append(@, Head(@))]
    /\ UNCHANGED <<sock, task, history>>

Delay(h) ==
    /\ NoneRuns /\ Len(net[h]) > 1 /\ Fault("delay")
    /\ net' = [net EXCEPT ![h] = Append(Tail(@), Head(@))]
    /\ UNCHANGED <<sock, task, history>>

Call(h) == Send(h) \/ Receive(h) \/ Shutdown(h)

Turn(h, nic) ==
    \/ SendTurn(h, nic)
    \/ ReceiveTurn(h, nic)
    \/ FlushTurn(h, nic)
    \/ DrainTurn(h, nic)
    \/ nic = "up" /\ (FinTurn(h) \/ EndTurn(h))

Tick(h, nic) ==
    \/ RetransmitTick(h, nic)
    \/ PersistTick(h, nic)
    \/ OverrideTick(h, nic)
    \/ nic = "up" /\ (FinWait2Tick(h) \/ TimeWaitTick(h))

Network(h) == Lose(h) \/ Duplicate(h) \/ Delay(h)

Next ==
    \/ \E nic \in Nics : Connect(nic) \/ AcceptTurn(nic)
    \/ ConnectReturns
    \/ Accept
    \/ \E h \in Hosts :
        \/ Call(h)
        \/ Network(h)
        \/ \E nic \in Nics :
            \/ Turn(h, nic)
            \/ Close(h, nic)
            \/ ProcessSegment(h, nic)
            \/ Tick(h, nic)

Spec == Init /\ [][Next]_vars

\* The tasks and the net task are scheduled: as long as one of them can go on,
\* one of them does; and the server's program accepts.  Nothing is assumed of
\* the network, nor of what else the programs do.  The first conjunct is
\* WF_vars(GoesOn), with the enabling condition spelt out: TLC would evaluate
\* ENABLED of the whole state machine in every state.
CanGoOn ==
    \E h \in Hosts :
        LET s == sock[h]
        IN  \/ Running(h)
            \/ NoneRuns /\ task[h].at \in Waits /\ sock[Own(h)].event
            \/ NoneRuns /\ net[h] # <<>>
            \/ NoneRuns /\ Quiet /\ RetransmitTimerRuns(s) /\ NotAhead(h)
            \/ NoneRuns /\ Quiet /\ PersistTimerRuns(s)
            \/ NoneRuns /\ Quiet /\ s.state \in {"FIN_WAIT_2", "TIME_WAIT"}
            \/ NoneRuns /\ OverrideTimerRuns(s) /\ UsableWindow(s) > 0

GoesOn ==
    \/ ConnectReturns
    \/ \E nic \in Nics : AcceptTurn(nic)
    \/ \E h \in Hosts, nic \in Nics :
            Turn(h, nic) \/ ProcessSegment(h, nic) \/ Tick(h, nic)

Fairness == (<>[]CanGoOn => []<><<GoesOn>>_vars) /\ WF_vars(Accept)

FairSpec == Spec /\ Fairness

(***************************************************************************)
(* Properties                                                              *)
(***************************************************************************)
\* The values the state ranges over: every sequence number is reduced, the
\* windows and buffers keep within their sizes, and a blocked task waits.
Headers ==
    [flags: SUBSET Flags, seq: SeqNums, ack: SeqNums, wnd: 0 .. RxBufferSize,
     length: 0 .. Mss]

IsSegment(seg) ==
    /\ seg.flags \subseteq Flags
    /\ seg.seq \in SeqNums /\ seg.ack \in SeqNums
    /\ seg.wnd \in 0 .. RxBufferSize
    /\ seg.data \in Seq(Nat) /\ Len(seg.data) <= Mss

SocketOK(s) ==
    /\ DOMAIN s = DOMAIN Unused
    /\ s.state \in States
    /\ {s.iss, s.irs, s.sndUna, s.sndNxt, s.sndWl1, s.sndWl2, s.rcvNxt,
        s.recover} \subseteq SeqNums
    /\ s.sndUser \in 0 .. TxBufferSize
    /\ {s.sndWnd, s.maxSndWnd, s.rcvWnd, s.rcvUser} \subseteq 0 .. RxBufferSize
    /\ s.cwnd \in 0 .. TxBufferSize
    /\ s.congestState \in {"IDLE", "RECOVERY", "LOSS_RECOVERY"}
    /\ s.dupAckCount \in 0 .. FastRetransmitThres
    /\ {s.retransmitCount, s.wndProbeCount} \subseteq 0 .. MaxRetries
    /\ \A i \in DOMAIN s.queue : s.queue[i] \in Headers
    /\ Len(s.sackBlock) <= MaxSackBlocks
    /\ Len(s.synQueue) <= SynQueueSize
    /\ s.eventMask \subseteq Events /\ s.eventFlags \subseteq s.eventMask
    /\ s.out = <<>> /\ s.nic = "up"

TypeOK ==
    /\ \A x \in Sockets : SocketOK(sock[x])
    /\ \A h \in Hosts :
        /\ task[h] \in Tasks
        /\ task[h].blocked => task[h].at \in Waits
        /\ \A i \in DOMAIN net[h] : IsSegment(net[h][i])
        /\ written[h] \in 0 .. Units[h]
    /\ faults \in 0 .. MaxFaults

\* The two programs see what TcpService promises: whatever the network loses,
\* duplicates or delays and whatever the hosts fail to send, what socketReceive
\* returns is what socketSend was given, in order and without a gap, and the
\* end of the stream comes behind its last unit (tcpProcessSegmentData,
\* tcpUpdateSackBlocks, tcpReceive and the FIN handling of tcp_fsm.c).
Service == INSTANCE TcpService WITH
               Units <- Most(Units["client"], Units["server"])

ImplementsService == Service!Spec

\* A task that waits in tcpWaitForEvents is signalled as soon as one of the
\* events it waits for holds: no change of a socket forgets tcpUpdateEvents.
Signalled(s) == EventsOf(s) \cap s.eventMask # {} => s.event

NoLostWakeup == \A h \in Hosts : task[h].blocked => Signalled(sock[Own(h)])

\* The socket h and the socket its peer has for the same connection.
Connected(h) ==
    LET s == sock[h]
        t == sock[Peer(h)]
    IN  /\ s.used /\ t.used /\ s.owned /\ t.owned
        /\ s.state # "CLOSED" /\ t.state \notin {"CLOSED", "SYN_SENT"}
        /\ t.irs = s.iss

\* What a sender takes as acknowledged, and forgets, its peer holds: those
\* units have been read or are in the receive buffer, each at its place, where
\* tcpReceive will find them (tcpProcessSegmentData, tcpUpdateReceiveWindow),
\* as long as the program may read, that is, has not begun to shut down.
MayRead(h) ==
    task[h].at \in {"connect", "send", "receive", "idle"} /\ ~task[h].closing

Acknowledged(h) == Least(Minus(sock[h].sndUna, sock[h].iss) - 1, written[h])

AckedIsKept ==
    \A h \in Hosts :
        LET t == sock[Peer(h)]
            n == Len(read[Peer(h)])
        IN  Connected(h) /\ MayRead(Peer(h)) =>
                /\ Acknowledged(h) <= n + t.rcvUser
                /\ ReadData(t, t.rcvUser) = [k \in 1 .. t.rcvUser |-> n + k]

\* What is in flight can be sent again: every sequence number from sndUna to
\* sndNxt is in a segment of the retransmission queue, until the connection is
\* over (tcpUpdateRetransmitQueue, tcpSendSegment).
Sequenced(s) == {Plus(s.sndUna, k) : k \in 0 .. InFlight(s) - 1}

Covers(h, x) == Minus(x, h.seq) < HeaderLength(h)

InFlightIsQueued ==
    \A h \in Hosts :
        sock[h].state \notin {"CLOSED", "TIME_WAIT"} =>
            \A x \in Sequenced(sock[h]) :
                \E i \in DOMAIN sock[h].queue : Covers(sock[h].queue[i], x)

\* And it is sent again as it was written: tcpSend never overwrites, in the
\* circular send buffer, data that a queued segment refers to.
ResendsWhatWasWritten ==
    \A h \in Hosts :
        LET s == sock[h]
        IN  \A i \in DOMAIN s.queue :
                s.queue[i].length > 0 =>
                    Segment(s, s.queue[i]).data =
                        [k \in 1 .. s.queue[i].length |->
                            Minus(s.queue[i].seq, s.iss) + k - 1]

\* A host gives up on a peer that has not only when MaxRetries things went
\* wrong, as long as it is not in LAST_ACK, where the acknowledgment of a part
\* of the data is ignored (closedFlag tells that it was).
GivenUpOnlyAfterLosses ==
    \A h \in gaveUp :
        sock[h].state = "CLOSED" /\ ~sock[h].closedFlag => faults >= MaxRetries

\* tcp.c:747: socketShutdown makes sure that all the data has been sent out
\* before it sends the FIN.
FinBehindData == \A h \in Hosts : shut[h] => sock[h].sndUser = 0

\* socketConnect, socketSend and socketShutdown return: whatever becomes of
\* the segments and of the peer, a call ends by success or by an error.  Only
\* to accept, to receive and to wait for the end of the stream of the peer
\* take as long as the peer likes.
MustReturn(h) ==
    \/ task[h].at \in {"connect", "send", "flush", "drain", "fin"}
    \/ task[h].at = "end" /\ task[h].how = "BOTH"

CallsReturn == \A h \in Hosts : MustReturn(h) ~> ~MustReturn(h)

=============================================================================
