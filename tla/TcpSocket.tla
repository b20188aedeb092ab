----------------------------- MODULE TcpSocket -----------------------------
(***************************************************************************)
(* The TCP control block and what the stack does to it: tcp_misc.c,        *)
(* tcp_fsm.c and tcp_timer.c.  A socket is a record; an operation is an    *)
(* operator from a socket to a socket.  Two of the fields belong to the    *)
(* step and not to the socket: out, the segments the step hands to the     *)
(* network layer, and nic, what becomes of them ("up", or the layer        *)
(* "refuses" them, or there is no "memory" for them).                      *)
(*                                                                         *)
(* Sequence numbers are numbers modulo SeqSpace (2^32 in the code), one    *)
(* unit of data stands for a byte; the k-th unit of a stream is k, 0 is    *)
(* not of a stream.  Both ends have the sizes below: smss = rmss = Mss.    *)
(*                                                                         *)
(* Times are abstracted: a running timer may elapse, so the round-trip     *)
(* measurement and rto are left out.  So is ssthresh: it is never below    *)
(* 2 * smss, that is, never below the size of the send buffer cwnd is cut  *)
(* to (TxBufferAssumption).                                                *)
(***************************************************************************)
EXTENDS Integers, Sequences, FiniteSets

CONSTANTS
    SeqSpace,              \* 2^32
    Mss,                   \* TCP_MAX_MSS
    TxBufferSize,          \* socket->txBufferSize
    RxBufferSize,          \* socket->rxBufferSize
    MaxRetries,            \* TCP_MAX_RETRIES
    MaxSackBlocks,         \* TCP_MAX_SACK_BLOCKS
    SynQueueSize           \* socket->synQueueSize

ASSUME SizesAssumption ==
    /\ Mss \in Nat \ {0}
    /\ RxBufferSize \in Nat /\ RxBufferSize >= Mss
    /\ MaxRetries \in Nat
    /\ MaxSackBlocks \in Nat \ {0}
    /\ SynQueueSize \in Nat \ {0}

\* net_config.h: TCP_DEFAULT_TX_BUFFER_SIZE is twice TCP_MAX_MSS.
ASSUME TxBufferAssumption == TxBufferSize \in Mss .. 2 * Mss

\* The windows are small parts of the sequence space.
ASSUME SeqSpaceAssumption ==
    SeqSpace \in Nat /\ SeqSpace > 4 * (TxBufferSize + RxBufferSize)

\* TCP_FAST_RETRANSMIT_THRES
FastRetransmitThres == 3

Least(a, b) == IF a <= b THEN a ELSE b
Most(a, b) == IF a >= b THEN a ELSE b

(***************************************************************************)
(* Unsigned arithmetic on sequence numbers, and TCP_CMP_SEQ: the sign of   *)
(* the difference.                                                         *)
(***************************************************************************)
SeqNums == 0 .. SeqSpace - 1
Plus(a, n) == (a + n) % SeqSpace
Minus(a, b) == (a - b) % SeqSpace

Before(a, b) == 2 * Minus(a, b) >= SeqSpace
After(a, b) == a # b /\ ~Before(a, b)

States == {"CLOSED", "LISTEN", "SYN_SENT", "SYN_RECEIVED", "ESTABLISHED",
           "CLOSE_WAIT", "LAST_ACK", "FIN_WAIT_1", "FIN_WAIT_2", "CLOSING",
           "TIME_WAIT"}

Events == {"CONNECTED", "CLOSED", "TX_READY", "TX_DONE", "TX_SHUTDOWN",
           "RX_READY", "RX_SHUTDOWN"}

Flags == {"SYN", "FIN", "RST", "ACK"}

(***************************************************************************)
(* A socket as socketOpen leaves it.                                       *)
(***************************************************************************)
Unused ==
    [used |-> FALSE, owned |-> FALSE, state |-> "CLOSED",
     iss |-> 0, irs |-> 0,
     sndUna |-> 0, sndNxt |-> 0, sndUser |-> 0,
     sndWnd |-> 0, maxSndWnd |-> 0, sndWl1 |-> 0, sndWl2 |-> 0,
     rcvNxt |-> 0, rcvUser |-> 0, rcvWnd |-> 0,
     cwnd |-> 0, congestState |-> "IDLE", recover |-> 0, dupAckCount |-> 0,
     queue |-> <<>>, retransmitTimer |-> FALSE, retransmitCount |-> 0,
     probing |-> FALSE, wndProbeCount |-> 0,
     sackBlock |-> <<>>, synQueue |-> <<>>,
     txBuffer |-> [i \in 0 .. TxBufferSize - 1 |-> 0],
     rxBuffer |-> [i \in 0 .. RxBufferSize - 1 |-> 0],
     closedFlag |-> FALSE, resetFlag |-> FALSE,
     eventMask |-> {}, eventFlags |-> {}, event |-> FALSE,
     out |-> <<>>, nic |-> "up"]

Opened == [Unused EXCEPT !.used = TRUE]

(***************************************************************************)
(* Events                                                                  *)
(***************************************************************************)
InFlight(s) == Minus(s.sndNxt, s.sndUna)

EventsOf(s) ==
    LET sending == s.state \in {"ESTABLISHED", "CLOSE_WAIT"}
        opening == s.state \in {"SYN_SENT", "SYN_RECEIVED"}
        ending == ~sending /\ ~opening /\ s.state # "LISTEN"
        Signalled(e) ==
            \/ /\ e = "CONNECTED"
               /\ s.state \in {"ESTABLISHED", "FIN_WAIT_1", "FIN_WAIT_2",
                               "CLOSE_WAIT", "LAST_ACK", "CLOSING"}
            \/ e = "CLOSED" /\ s.state \in {"TIME_WAIT", "CLOSED"}
            \/ /\ e = "TX_SHUTDOWN"
               /\ s.state \in {"FIN_WAIT_2", "TIME_WAIT", "CLOSED"}
            \/ /\ e = "RX_SHUTDOWN"
               /\ s.state \in {"CLOSE_WAIT", "LAST_ACK", "CLOSING",
                               "TIME_WAIT", "CLOSED"}
            \/ /\ e = "TX_READY"
               /\ \/ sending /\ s.sndUser + InFlight(s) < TxBufferSize
                  \/ ending
            \/ /\ e = "TX_DONE"
               /\ \/ opening
                  \/ sending /\ s.sndUser = 0
                  \/ ending
            \/ /\ e = "RX_READY"
               /\ \/ /\ s.state \in {"ESTABLISHED", "FIN_WAIT_1", "FIN_WAIT_2"}
                     /\ s.rcvUser > 0
                  \/ s.state = "LISTEN" /\ s.synQueue # <<>>
                  \/ s.state \in {"CLOSE_WAIT", "LAST_ACK", "CLOSING",
                                  "TIME_WAIT", "CLOSED"}
    IN  {e \in Events : Signalled(e)}

UpdateEvents(s) ==
    LET flags == EventsOf(s) \cap s.eventMask
    IN  [s EXCEPT !.eventFlags = flags, !.event = @ \/ flags # {}]

\* tcpWaitForEvents up to the wait: the caller waits if no flag is set.
WaitForEvents(s, mask) ==
    LET t == UpdateEvents([s EXCEPT !.eventMask = mask])
    IN  [t EXCEPT !.event = @ /\ t.eventFlags # {}]

\* Mutant: the waiting task is not told of the new state.
ChangeStateSilent(s, newState) ==
    [s EXCEPT !.closedFlag = @ \/ (newState = "CLOSED" /\ s.state = "LAST_ACK"),
              !.state = newState]

ChangeState(s, newState) ==
    LET proper == s.state \in {"LAST_ACK", "TIME_WAIT"}
    IN  UpdateEvents(
            [s EXCEPT !.closedFlag = @ \/ (newState = "CLOSED" /\ proper),
                      !.resetFlag = @ \/ (newState = "CLOSED" /\ ~proper),
                      !.state = newState])

(***************************************************************************)
(* Circular buffers.  A buffer that is released has no bytes to copy.      *)
(***************************************************************************)
Released == <<>>

WriteBuffer(buffer, origin, seqNum, data) ==
    IF buffer = Released THEN buffer
    ELSE LET size == Cardinality(DOMAIN buffer)
             start == Minus(seqNum, Plus(origin, 1))
         IN  [i \in DOMAIN buffer |->
                LET k == (i - start) % size
                IN  IF k < Len(data) THEN data[k + 1] ELSE buffer[i]]

ReadBuffer(buffer, origin, seqNum, length) ==
    IF buffer = Released THEN [k \in 1 .. length |-> 0]
    ELSE LET size == Cardinality(DOMAIN buffer)
             start == Minus(seqNum, Plus(origin, 1))
         IN  [k \in 1 .. length |-> buffer[(start + k - 1) % size]]

(***************************************************************************)
(* Sending.  The retransmission queue keeps the header of each segment,    *)
(* the data stay in the send buffer.                                       *)
(***************************************************************************)
Header(s, flags, seqNum, ackNum, length) ==
    [flags |-> flags, seq |-> seqNum,
     ack |-> IF "ACK" \in flags THEN ackNum ELSE 0,
     wnd |-> s.rcvWnd, length |-> length]

Segment(s, header) ==
    [flags |-> header.flags, seq |-> header.seq, ack |-> header.ack,
     wnd |-> header.wnd,
     data |-> ReadBuffer(s.txBuffer, s.iss, header.seq, header.length)]

Fails(s) == s.nic # "up"

\* tcpSendSegment.  A segment the network layer refuses stays queued.
SendSegment(s, flags, seqNum, ackNum, length, addToQueue) ==
    LET header == Header(s, flags, seqNum, ackNum, length)
        starts == addToQueue /\ ~s.retransmitTimer
    IN  IF s.nic = "memory" THEN s
        ELSE [s EXCEPT !.queue = IF addToQueue THEN Append(@, header) ELSE @,
                       !.retransmitTimer = @ \/ addToQueue,
                       !.retransmitCount = IF starts THEN 0 ELSE @,
                       !.out = IF Fails(s) THEN @
                               ELSE Append(@, Segment(s, header))]

SendAck(s) == SendSegment(s, {"ACK"}, s.sndNxt, s.rcvNxt, 0, FALSE)

\* tcpSendResetSegment: the reset that answers a segment no socket expects.
ResetSegment(seg) ==
    LET extra == IF seg.flags \cap {"SYN", "FIN"} = {} THEN 0 ELSE 1
        bare == [flags |-> {"RST"}, seq |-> seg.ack, ack |-> 0, wnd |-> 0,
                 data |-> <<>>]
    IN  IF "ACK" \in seg.flags THEN bare
        ELSE [bare EXCEPT !.flags = {"RST", "ACK"}, !.seq = 0,
                          !.ack = Plus(seg.seq, Len(seg.data) + extra)]

\* The reset a socket sends itself when a SYN is in its window (tcpCheckSyn).
ResetForSyn(s, seg) ==
    IF "ACK" \in seg.flags
    THEN SendSegment(s, {"RST"}, seg.ack, 0, 0, FALSE)
    ELSE SendSegment(s, {"RST", "ACK"}, 0, Plus(seg.seq, Len(seg.data) + 1),
                     0, FALSE)

\* tcpRetransmitSegment: from the head of the queue, at most one MSS of data.
RetransmitSegment(s) ==
    LET dataUpTo[k \in 0 .. Len(s.queue)] ==
            IF k = 0 THEN 0 ELSE dataUpTo[k - 1] + s.queue[k].length
        count == Cardinality({k \in DOMAIN s.queue : dataUpTo[k] <= Mss})
    IN  IF Fails(s) THEN s
        ELSE [s EXCEPT !.out =
                @ \o [k \in 1 .. count |-> Segment(s, s.queue[k])]]

HeaderLength(h) ==
    IF "SYN" \in h.flags THEN 1
    ELSE IF "FIN" \in h.flags THEN h.length + 1
    ELSE h.length

\* Mutant: the segment that begins at sndUna is removed.
UpdateRetransmitQueueOneMore(s) ==
    LET rest == SelectSeq(s.queue, LAMBDA h : Before(s.sndUna, h.seq))
    IN  [s EXCEPT !.queue = rest, !.retransmitTimer = rest # <<>>,
                  !.retransmitCount = 0]

\* Some of the segment is not acknowledged.
Pending(s, h) == Before(s.sndUna, Plus(h.seq, HeaderLength(h)))

PendingSegments(s) ==
    LET pending[i \in 0 .. Len(s.queue)] ==
            IF i = 0 THEN <<>>
            ELSE IF Pending(s, s.queue[i]) THEN Append(pending[i - 1], s.queue[i])
            ELSE pending[i - 1]
    IN  pending[Len(s.queue)]

UpdateRetransmitQueue(s) ==
    LET rest == PendingSegments(s)
        removed == rest # s.queue
    IN  [s EXCEPT !.queue = rest,
                  !.retransmitTimer = rest # <<>> /\ (@ \/ removed),
                  !.retransmitCount = IF removed THEN 0 ELSE @]

\* What the windows still allow; it may be negative.
UsableWindow(s) ==
    Least(Least(s.sndWnd, TxBufferSize), s.cwnd) - InFlight(s)

(***************************************************************************)
(* The segments of one turn of tcpNagleAlgo or of the override timer:      *)
(* amount units cut at the MSS.  The loop stops at the first that cannot   *)
(* be sent, and the pointers do not advance over that one.                 *)
(***************************************************************************)
SendData(s, amount) ==
    LET count == (amount + Mss - 1) \div Mss
        Data(i) == Header(s, {"ACK"}, Plus(s.sndNxt, (i - 1) * Mss), s.rcvNxt,
                          Least(Mss, amount - (i - 1) * Mss))
    IN  IF amount <= 0 THEN s
        ELSE IF Fails(s)
        THEN SendSegment(s, {"ACK"}, s.sndNxt, s.rcvNxt, Least(Mss, amount), TRUE)
        ELSE [s EXCEPT !.queue = @ \o [i \in 1 .. count |-> Data(i)],
                       !.retransmitTimer = TRUE,
                       !.retransmitCount = IF s.retransmitTimer THEN @ ELSE 0,
                       !.out = @ \o [i \in 1 .. count |-> Segment(s, Data(i))],
                       !.sndNxt = Plus(@, amount),
                       !.sndUser = @ - amount]

\* Full segments, and a short one if nothing is in flight and it ends the
\* data, or if it fills half of the largest window seen.
NagleAmount(s, noDelay) ==
    LET most == Least(s.sndUser, UsableWindow(s))
        full == Mss * (most \div Mss)
        last == most - full
    IN  IF most <= 0 THEN 0
        ELSE IF \/ noDelay
                \/ InFlight(s) = 0 /\ full = 0 /\ s.sndUser = most
                \/ last >= s.maxSndWnd \div 2
        THEN most
        ELSE full

\* tcpNagleAlgo returns before it updates the events when a segment fails.
NagleAlgo(s, noDelay) ==
    LET amount == NagleAmount(s, noDelay)
        t == SendData(s, amount)
    IN  IF amount > 0 /\ Fails(s) THEN t ELSE UpdateEvents(t)

(***************************************************************************)
(* Acknowledgments and congestion control                                  *)
(***************************************************************************)
IsDuplicateAck(s, seg) ==
    /\ s.queue # <<>>
    /\ seg.data = <<>>
    /\ seg.flags \cap {"SYN", "FIN"} = {}
    /\ seg.ack = s.sndUna
    /\ seg.wnd = s.sndWnd

UpdateSendWindow(s, seg) ==
    LET same == seg.seq = s.sndWl1 /\ seg.ack = s.sndWl2
        newer == ~Before(seg.seq, s.sndWl1) /\ ~Before(seg.ack, s.sndWl2)
        closes == ~same /\ seg.wnd = 0 /\ s.sndWnd > 0
    IN  IF (same /\ seg.wnd > s.sndWnd) \/ (~same /\ newer)
        THEN [s EXCEPT !.sndWnd = seg.wnd, !.sndWl1 = seg.seq,
                       !.sndWl2 = seg.ack,
                       !.maxSndWnd = Most(@, seg.wnd),
                       !.probing = @ \/ closes,
                       !.wndProbeCount = IF closes THEN 0 ELSE @]
        ELSE s

\* The initial update, when the connection is established.
InitSendWindow(s, seg) ==
    [s EXCEPT !.sndWnd = seg.wnd, !.sndWl1 = seg.seq, !.sndWl2 = seg.ack,
              !.maxSndWnd = seg.wnd]

\* Mutant: the congestion window grows past the send buffer.
CutCwndNever(s) == s

CutCwnd(s) == [s EXCEPT !.cwnd = Least(@, TxBufferSize)]

FastRetransmit(s) ==
    RetransmitSegment(
        [s EXCEPT !.recover = Minus(s.sndNxt, 1),
                  !.cwnd = TxBufferSize,
                  !.congestState = "RECOVERY"])

FastRecovery(s, seg, n) ==
    IF After(seg.ack, s.recover)
    THEN [s EXCEPT !.cwnd = TxBufferSize, !.congestState = "IDLE"]
    ELSE LET t == RetransmitSegment(s)
             deflated == IF t.cwnd > n THEN t.cwnd - n ELSE t.cwnd
         IN  [t EXCEPT !.cwnd = deflated + (IF n >= Mss THEN Mss ELSE 0)]

FastLossRecovery(s, seg) ==
    IF After(seg.ack, s.recover)
    THEN [s EXCEPT !.congestState = "IDLE"]
    ELSE RetransmitSegment(s)

\* The part of tcpCheckAck for an acknowledgment of new data.
AckNewData(s, seg) ==
    LET n == Minus(seg.ack, s.sndUna) - (IF s.sndUna = s.iss THEN 1 ELSE 0)
        t == UpdateRetransmitQueue([s EXCEPT !.sndUna = seg.ack])
        u == [t EXCEPT !.dupAckCount = 0]
        v == IF s.congestState = "LOSS_RECOVERY" THEN FastLossRecovery(u, seg)
             ELSE u
    IN  CutCwnd(IF s.congestState = "RECOVERY" THEN FastRecovery(t, seg, n)
                ELSE [v EXCEPT !.cwnd = @ + Least(n, Mss)])

\* The number of duplicates that makes a loss likely (RFC 5827).
DupAckThreshold(s) ==
    IF s.sndUser > 0 /\ s.sndWnd > InFlight(s) THEN FastRetransmitThres
    ELSE IF InFlight(s) <= 3 * Mss THEN 1
    ELSE IF InFlight(s) <= 4 * Mss THEN 2
    ELSE FastRetransmitThres

\* The part of tcpCheckAck for one that does not (dupAckCount saturates: it
\* is compared with the threshold and with 0 only).
AckOldData(s, seg, duplicate) ==
    LET t == [s EXCEPT !.dupAckCount =
                IF duplicate THEN Least(@ + 1, FastRetransmitThres) ELSE 0]
        lossLikely == /\ t.dupAckCount >= DupAckThreshold(t)
                      /\ After(seg.ack, Plus(t.recover, 1))
    IN  CutCwnd(IF s.congestState = "IDLE" /\ lossLikely THEN FastRetransmit(t)
                ELSE IF s.congestState = "RECOVERY" /\ duplicate
                THEN [t EXCEPT !.cwnd = @ + Mss]
                ELSE t)

\* tcpCheckAck returns an error ...
AckRefused(s, seg) ==
    \/ "ACK" \notin seg.flags
    \/ ~Before(seg.ack, s.sndUna) /\ After(seg.ack, s.sndNxt)

\* ... after an answer to what acknowledges something not yet sent;
RefuseAck(s, seg) == IF "ACK" \in seg.flags THEN SendAck(s) ELSE s

\* otherwise it processes the acknowledgment.
CheckAck(s, seg) ==
    LET t == UpdateSendWindow(s, seg)
    IN  IF Before(seg.ack, s.sndUna) THEN s
        ELSE UpdateEvents(
                IF After(seg.ack, s.sndUna) THEN AckNewData(t, seg)
                ELSE AckOldData(t, seg, IsDuplicateAck(s, seg)))

(***************************************************************************)
(* Receiving                                                               *)
(***************************************************************************)
InWindow(s, x) ==
    ~Before(x, s.rcvNxt) /\ Before(x, Plus(s.rcvNxt, s.rcvWnd))

\* tcpCheckSequenceNumber
Acceptable(s, seg) ==
    LET length == Len(seg.data)
    IN  \/ s.rcvWnd = 0 /\ length = 0 /\ seg.seq = s.rcvNxt
        \/ s.rcvWnd > 0 /\ InWindow(s, seg.seq)
        \/ /\ s.rcvWnd > 0 /\ length > 0
           /\ InWindow(s, Plus(seg.seq, length - 1))

\* The checks every synchronized state begins with: sequence number, RST, SYN.
Refused(s, seg) ==
    ~Acceptable(s, seg) \/ seg.flags \cap {"RST", "SYN"} # {}

\* Mutant: a segment outside the window is not answered.
RefuseSilently(s, seg) ==
    IF ~Acceptable(s, seg) THEN s
    ELSE IF "RST" \in seg.flags THEN ChangeState(s, "CLOSED")
    ELSE ResetForSyn(s, seg)

Refuse(s, seg) ==
    IF ~Acceptable(s, seg)
    THEN IF "RST" \in seg.flags THEN s ELSE SendAck(s)
    ELSE IF "RST" \in seg.flags THEN ChangeState(s, "CLOSED")
    ELSE ResetForSyn(s, seg)

\* Mutant: a hole before the new data is taken as filled.
UpdateSackBlocksOverHole(s, left, right) ==
    [left |-> s.rcvNxt, right |-> right, blocks |-> s.sackBlock]

\* A block that touches what was received is merged with it.  MIN and MAX
\* compare the numbers as they are.
Merge(m, b) ==
    IF ~Before(m.right, b.left) /\ ~After(m.left, b.right)
    THEN [m EXCEPT !.left = Least(@, b.left), !.right = Most(@, b.right)]
    ELSE [m EXCEPT !.others = Append(@, b)]

MergeBlocks(s, left, right) ==
    LET merged[i \in 0 .. Len(s.sackBlock)] ==
            IF i = 0 THEN [left |-> left, right |-> right, others |-> <<>>]
            ELSE Merge(merged[i - 1], s.sackBlock[i])
    IN  merged[Len(s.sackBlock)]

\* tcpUpdateSackBlocks
UpdateSackBlocks(s, left, right) ==
    LET merged == MergeBlocks(s, left, right)
        block == [left |-> merged.left, right |-> merged.right]
        blocks == <<block>> \o merged.others
    IN  [left |-> merged.left, right |-> merged.right,
         blocks |-> IF After(merged.left, s.rcvNxt)
                    THEN SubSeq(blocks, 1, Least(Len(blocks), MaxSackBlocks))
                    ELSE merged.others]

\* What follows the hole is kept; what follows rcvNxt is for the user.
TakeData(s, got) ==
    IF After(got.left, s.rcvNxt) THEN SendAck(s)
    ELSE UpdateEvents(SendAck(
            [s EXCEPT !.rcvNxt = Plus(@, Minus(got.right, got.left)),
                      !.rcvUser = @ + Minus(got.right, got.left),
                      !.rcvWnd = @ - Minus(got.right, got.left)]))

StoreData(s, left, data, got) ==
    TakeData([s EXCEPT !.rxBuffer = WriteBuffer(@, s.irs, left, data),
                       !.sackBlock = got.blocks],
             got)

\* The data are trimmed to the window.
ProcessSegmentData(s, seg) ==
    LET end == Plus(seg.seq, Len(seg.data))
        limit == Plus(s.rcvNxt, s.rcvWnd)
        left == IF Before(seg.seq, s.rcvNxt) THEN s.rcvNxt ELSE seg.seq
        right == IF After(end, limit) THEN limit ELSE end
        skipped == Minus(left, seg.seq)
        data == SubSeq(seg.data, skipped + 1, skipped + Minus(right, left))
    IN  StoreData(s, left, data, UpdateSackBlocks(s, left, right))

ReceiveText(s, seg) ==
    IF seg.data = <<>> THEN s ELSE ProcessSegmentData(s, seg)

\* Mutant: a FIN counts whatever is missing before it.
FinReceivedEarly(s, seg) == "FIN" \in seg.flags

\* A FIN counts when all the data before it have been received.
FinReceived(s, seg) ==
    "FIN" \in seg.flags /\ s.rcvNxt = Plus(seg.seq, Len(seg.data))

AckFin(s) == SendAck([s EXCEPT !.rcvNxt = Plus(@, 1)])

DeleteControlBlock(s) ==
    [s EXCEPT !.queue = <<>>, !.retransmitTimer = FALSE, !.synQueue = <<>>,
              !.txBuffer = Released, !.rxBuffer = Released]

EnterTimeWait(s) == ChangeState(DeleteControlBlock(s), "TIME_WAIT")

\* tcpUpdateReceiveWindow: small windows are not advertised.
UpdateReceiveWindow(s) ==
    LET threshold == Least(Mss, RxBufferSize \div 2)
        opened == [s EXCEPT !.rcvWnd = RxBufferSize - s.rcvUser]
    IN  IF opened.rcvWnd < threshold THEN s
        ELSE IF s.rcvWnd < threshold THEN SendAck(opened)
        ELSE opened

(***************************************************************************)
(* The state machine: tcpStateListen ... tcpStateTimeWait                  *)
(***************************************************************************)
StateListen(s, src, seg) ==
    IF "RST" \in seg.flags THEN s
    ELSE IF "ACK" \in seg.flags
    THEN IF Fails(s) THEN s ELSE [s EXCEPT !.out = Append(@, ResetSegment(seg))]
    ELSE IF /\ "SYN" \in seg.flags
            /\ s.synQueue = <<>> \/ Len(s.synQueue) < SynQueueSize
            /\ \A i \in DOMAIN s.synQueue : s.synQueue[i].src # src
    THEN UpdateEvents([s EXCEPT !.synQueue =
                            Append(@, [src |-> src, isn |-> seg.seq])])
    ELSE s

StateSynSent(s, seg) ==
    LET acked == "ACK" \in seg.flags
        t == UpdateRetransmitQueue(
                [s EXCEPT !.irs = seg.seq, !.rcvNxt = Plus(seg.seq, 1),
                          !.sndUna = IF acked THEN seg.ack ELSE @])
        u == [t EXCEPT !.cwnd = Least(3 * Mss, TxBufferSize)]
    IN  IF acked /\ seg.ack # s.sndNxt
        THEN IF "RST" \in seg.flags THEN s
             ELSE SendSegment(s, {"RST"}, seg.ack, 0, 0, FALSE)
        ELSE IF "RST" \in seg.flags
        THEN IF acked THEN ChangeState(s, "CLOSED") ELSE s
        ELSE IF "SYN" \notin seg.flags THEN s
        ELSE IF After(u.sndUna, u.iss)
        THEN ChangeState(SendAck(InitSendWindow(u, seg)), "ESTABLISHED")
        ELSE ChangeState(SendSegment(u, {"SYN", "ACK"}, u.iss, u.rcvNxt, 0, TRUE),
                         "SYN_RECEIVED")

\* What is unsent goes out at once when a duplicate was just counted.
SendPending(s) == NagleAlgo(s, s.dupAckCount > 0)

FinOfEstablished(s, seg) ==
    IF FinReceived(s, seg) THEN ChangeState(AckFin(s), "CLOSE_WAIT") ELSE s

StateEstablished(s, seg) ==
    IF Refused(s, seg) THEN Refuse(s, seg)
    ELSE IF AckRefused(s, seg) THEN RefuseAck(s, seg)
    ELSE SendPending(FinOfEstablished(ReceiveText(CheckAck(s, seg), seg), seg))

StateSynReceived(s, seg) ==
    IF Refused(s, seg) THEN Refuse(s, seg)
    ELSE IF "ACK" \notin seg.flags THEN s
    ELSE IF seg.ack # s.sndNxt
    THEN SendSegment(s, {"RST"}, seg.ack, 0, 0, FALSE)
    ELSE StateEstablished(ChangeState(InitSendWindow(s, seg), "ESTABLISHED"), seg)

StateCloseWait(s, seg) ==
    IF Refused(s, seg) THEN Refuse(s, seg)
    ELSE IF AckRefused(s, seg) THEN RefuseAck(s, seg)
    ELSE SendPending(CheckAck(s, seg))

StateLastAck(s, seg) ==
    IF Refused(s, seg) THEN Refuse(s, seg)
    ELSE IF "ACK" \in seg.flags /\ seg.ack = s.sndNxt
    THEN ChangeState(s, "CLOSED")
    ELSE s

FinIsAcked(s, seg) == seg.ack = s.sndNxt

AckInFinWait1(s, seg) ==
    IF FinIsAcked(s, seg) THEN ChangeState(s, "FIN_WAIT_2") ELSE s

FinInFinWait1(s, seg) ==
    IF ~FinReceived(s, seg) THEN s
    ELSE IF FinIsAcked(s, seg) THEN EnterTimeWait(AckFin(s))
    ELSE ChangeState(AckFin(s), "CLOSING")

StateFinWait1(s, seg) ==
    IF Refused(s, seg) THEN Refuse(s, seg)
    ELSE IF AckRefused(s, seg) THEN RefuseAck(s, seg)
    ELSE FinInFinWait1(
            ReceiveText(AckInFinWait1(CheckAck(s, seg), seg), seg), seg)

FinInFinWait2(s, seg) ==
    IF FinReceived(s, seg) THEN EnterTimeWait(AckFin(s)) ELSE s

StateFinWait2(s, seg) ==
    IF Refused(s, seg) THEN Refuse(s, seg)
    ELSE IF AckRefused(s, seg) THEN RefuseAck(s, seg)
    ELSE FinInFinWait2(ReceiveText(CheckAck(s, seg), seg), seg)

AckInClosing(s, seg) == IF FinIsAcked(s, seg) THEN EnterTimeWait(s) ELSE s

StateClosing(s, seg) ==
    IF Refused(s, seg) THEN Refuse(s, seg)
    ELSE IF AckRefused(s, seg) THEN RefuseAck(s, seg)
    ELSE AckInClosing(CheckAck(s, seg), seg)

\* Mark the socket as closed; what socketOpen does to it is done here.
Free(s) == [Unused EXCEPT !.out = s.out, !.nic = s.nic]

\* A socket its user has closed is disposed of when it leaves TIME_WAIT.
Dispose(s) == IF s.owned THEN s ELSE Free(s)

StateTimeWait(s, seg) ==
    IF Refused(s, seg)
    THEN IF Acceptable(s, seg) /\ "RST" \in seg.flags
         THEN Dispose(ChangeState(s, "CLOSED"))
         ELSE Refuse(s, seg)
    ELSE IF {"ACK", "FIN"} \subseteq seg.flags THEN SendAck(s)
    ELSE s

\* The segment no socket matches, or a closed one does.
StateClosed(s, seg) ==
    IF "RST" \in seg.flags \/ Fails(s) THEN s
    ELSE [s EXCEPT !.out = Append(@, ResetSegment(seg))]

ProcessState(s, src, seg) ==
    CASE s.state = "CLOSED" -> StateClosed(s, seg)
      [] s.state = "LISTEN" -> StateListen(s, src, seg)
      [] s.state = "SYN_SENT" -> StateSynSent(s, seg)
      [] s.state = "SYN_RECEIVED" -> StateSynReceived(s, seg)
      [] s.state = "ESTABLISHED" -> StateEstablished(s, seg)
      [] s.state = "CLOSE_WAIT" -> StateCloseWait(s, seg)
      [] s.state = "LAST_ACK" -> StateLastAck(s, seg)
      [] s.state = "FIN_WAIT_1" -> StateFinWait1(s, seg)
      [] s.state = "FIN_WAIT_2" -> StateFinWait2(s, seg)
      [] s.state = "CLOSING" -> StateClosing(s, seg)
      [] s.state = "TIME_WAIT" -> StateTimeWait(s, seg)
      [] OTHER -> ChangeState(s, "CLOSED")

(***************************************************************************)
(* The timers: tcpTick                                                     *)
(***************************************************************************)
RetransmitTimerRuns(s) ==
    s.state # "CLOSED" /\ s.queue # <<>> /\ s.retransmitTimer

RetransmitTimeout(s) ==
    LET t == [s EXCEPT !.cwnd = Least(Mss, TxBufferSize),
                       !.recover = Minus(s.sndNxt, 1),
                       !.congestState = "LOSS_RECOVERY"]
    IN  IF s.retransmitCount < MaxRetries
        THEN [RetransmitSegment(t) EXCEPT !.retransmitCount = @ + 1]
        ELSE [ChangeState(t, "CLOSED") EXCEPT !.retransmitTimer = FALSE]

\* Mutant: one probe is sent.
PersistTimerRunsOnce(s) ==
    s.state # "CLOSED" /\ s.sndWnd = 0 /\ s.probing /\ s.wndProbeCount = 0

PersistTimerRuns(s) == s.state # "CLOSED" /\ s.sndWnd = 0 /\ s.probing

PersistTimeout(s) ==
    LET probe == SendSegment(s, {"ACK"}, Minus(s.sndNxt, 1), s.rcvNxt, 0, FALSE)
    IN  IF s.wndProbeCount < MaxRetries
        THEN [probe EXCEPT !.wndProbeCount = @ + 1]
        ELSE ChangeState(s, "CLOSED")

\* It runs whenever data wait to be sent.
OverrideTimerRuns(s) ==
    s.state \in {"ESTABLISHED", "CLOSE_WAIT"} /\ s.sndUser > 0

OverrideTimeout(s) ==
    UpdateEvents(SendData(s, Least(s.sndUser, UsableWindow(s))))

FinWait2Timeout(s) == ChangeState(s, "CLOSED")

TimeWaitTimeout(s) == Dispose(ChangeState(s, "CLOSED"))

(***************************************************************************)
(* What the user's calls do between two waits                              *)
(***************************************************************************)
Allocated(size) == [i \in 0 .. size - 1 |-> 0]

InitControlBlock(s, iss) ==
    [s EXCEPT !.owned = TRUE,
              !.txBuffer = Allocated(TxBufferSize),
              !.rxBuffer = Allocated(RxBufferSize),
              !.iss = iss, !.sndUna = iss, !.sndNxt = Plus(iss, 1),
              !.rcvUser = 0, !.rcvWnd = RxBufferSize,
              !.congestState = "IDLE", !.recover = iss,
              !.cwnd = Least(3 * Mss, TxBufferSize)]

\* tcpConnect up to its wait.  When the SYN cannot be sent it stays queued.
ActiveOpen(s, iss) ==
    LET t == SendSegment(InitControlBlock(s, iss), {"SYN"}, iss, 0, 0, TRUE)
    IN  IF Fails(s) THEN t ELSE ChangeState(t, "SYN_SENT")

\* tcpAccept: the new socket for an item of the SYN queue.
PassiveOpen(s, item, iss) ==
    LET t == [InitControlBlock(s, iss) EXCEPT !.irs = item.isn,
                                              !.rcvNxt = Plus(item.isn, 1)]
        u == SendSegment(t, {"SYN", "ACK"}, iss, t.rcvNxt, 0, TRUE)
    IN  IF Fails(s) THEN Free(u) ELSE ChangeState(u, "SYN_RECEIVED")

\* tcpSend: data copied to the send buffer, then as much sent as may be.
WriteData(s, data) ==
    LET t == [s EXCEPT !.txBuffer = WriteBuffer(@, s.iss,
                                        Plus(s.sndNxt, s.sndUser), data),
                       !.sndUser = @ + Len(data)]
    IN  NagleAlgo(UpdateEvents(t), FALSE)

\* Mutant: off by one.
RoomToWriteOneMore(s) == TxBufferSize - (s.sndUser + InFlight(s)) + 1

RoomToWrite(s) == TxBufferSize - (s.sndUser + InFlight(s))

\* tcpReceive: the sequence number of the first byte not read yet.
ReadPosition(s) ==
    IF s.state \in {"ESTABLISHED", "FIN_WAIT_1", "FIN_WAIT_2"}
    THEN Minus(s.rcvNxt, s.rcvUser)
    ELSE Minus(Minus(s.rcvNxt, 1), s.rcvUser)

ReadData(s, n) == ReadBuffer(s.rxBuffer, s.irs, ReadPosition(s), n)

Consume(s, n) == UpdateEvents(UpdateReceiveWindow([s EXCEPT !.rcvUser = @ - n]))

\* tcpShutdown: the FIN.
SendFin(s, newState) ==
    LET t == SendSegment(s, {"FIN", "ACK"}, s.sndNxt, s.rcvNxt, 0, TRUE)
    IN  IF Fails(s) THEN t
        ELSE ChangeState([t EXCEPT !.sndNxt = Plus(@, 1)], newState)

\* tcpAbort
Abort(s) ==
    CASE s.state \in {"SYN_RECEIVED", "ESTABLISHED", "FIN_WAIT_1",
                      "FIN_WAIT_2", "CLOSE_WAIT"}
            -> Free(SendSegment(s, {"RST"}, s.sndNxt, 0, 0, FALSE))
      [] s.state = "TIME_WAIT" -> [s EXCEPT !.owned = FALSE]
      [] OTHER -> Free(s)

=============================================================================
