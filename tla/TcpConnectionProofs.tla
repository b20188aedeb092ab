------------------------ MODULE TcpConnectionProofs ------------------------
(***************************************************************************)
(* Three invariants of TcpConnection, for windows, buffers and sequence    *)
(* spaces of any size, any number of segments and faults.                  *)
(*                                                                         *)
(* No wake-up of a task that waits on a socket is lost: an operation that  *)
(* changes what the events depend on ends in tcpUpdateEvents, every other  *)
(* leaves those fields as they are.                                        *)
(*                                                                         *)
(* And the state keeps its types.  Fit is what the operations keep of a    *)
(* socket.  It goes further than SocketOK in what SocketOK depends on: the *)
(* window never reaches over what is left of the receive buffer, and what  *)
(* was received out of order is in the window and in separate blocks, or   *)
(* merging it would move rcvNxt past the window.                           *)
(*                                                                         *)
(* And what is in flight is queued.  QueuesFit bounds it by the send       *)
(* buffer: only numbers that few are told apart from those before sndUna   *)
(* by the signed comparison that empties the queue.  Progress says that an *)
(* operation keeps it so, StillQueued that it leaves the queue alone.      *)
(*                                                                         *)
(* The last sections are for TcpStreamProofs: which fields an operation    *)
(* leaves alone, where data are in a circular buffer, and what happens to  *)
(* blocks received out of order.                                           *)
(***************************************************************************)
EXTENDS TcpConnection, TLAPS, FiniteSetTheorems, SequenceTheorems

-----------------------------------------------------------------------------
(* Sockets *)

\* The fields the events depend on, and those the steps overwrite.
Keys == {"state", "sndUser", "sndNxt", "sndUna", "rcvUser", "synQueue",
         "eventMask", "eventFlags", "event", "out", "nic"}

IsSocket(s) == Keys \subseteq DOMAIN s

\* A socket whose waiting task, if any, is told of its events.
Told(s) == IsSocket(s) /\ Signalled(s)

\* t has the same events as s, and so has the same duty to signal them.
SameEvents(s, t) ==
    /\ DOMAIN t = DOMAIN s
    /\ t.state = s.state /\ t.synQueue = s.synQueue
    /\ t.sndUser = s.sndUser /\ t.sndNxt = s.sndNxt /\ t.sndUna = s.sndUna
    /\ t.rcvUser = s.rcvUser
    /\ t.eventMask = s.eventMask /\ t.event = s.event

LEMMA SameEventsTold ==
    ASSUME NEW s, NEW t, SameEvents(s, t), Told(s)
    PROVE  Told(t)
<1>1. EventsOf(t) = EventsOf(s)
  BY DEF SameEvents, EventsOf, InFlight
<1> QED  BY <1>1 DEF SameEvents, Told, IsSocket, Signalled

LEMMA UpdateEventsTold ==
    ASSUME NEW s, IsSocket(s)
    PROVE  Told(UpdateEvents(s))
<1> DEFINE flags == EventsOf(s) \cap s.eventMask
           t == [s EXCEPT !.eventFlags = flags, !.event = @ \/ flags # {}]
<1>1. UpdateEvents(s) = t
  BY DEF UpdateEvents
<1>2. DOMAIN t = DOMAIN s
  OBVIOUS
<1>3. /\ t.state = s.state /\ t.synQueue = s.synQueue
      /\ t.sndUser = s.sndUser /\ t.sndNxt = s.sndNxt /\ t.sndUna = s.sndUna
      /\ t.rcvUser = s.rcvUser /\ t.eventMask = s.eventMask
  BY DEF IsSocket, Keys
<1>4. t.event = (s.event \/ flags # {})
  BY DEF IsSocket, Keys
<1> HIDE DEF t
<1>5. EventsOf(t) = EventsOf(s)
  BY <1>3 DEF EventsOf, InFlight
<1> QED  BY <1>1, <1>2, <1>3, <1>4, <1>5 DEF Told, IsSocket, Signalled

LEMMA ChangeStateTold ==
    ASSUME NEW s, IsSocket(s), NEW newState
    PROVE  Told(ChangeState(s, newState))
<1> DEFINE proper == s.state \in {"LAST_ACK", "TIME_WAIT"}
           t == [s EXCEPT !.closedFlag = @ \/ (newState = "CLOSED" /\ proper),
                          !.resetFlag = @ \/ (newState = "CLOSED" /\ ~proper),
                          !.state = newState]
<1>1. IsSocket(t)
  BY DEF IsSocket
<1>2. ChangeState(s, newState) = UpdateEvents(t)
  BY DEF ChangeState
<1> QED  BY <1>1, <1>2, UpdateEventsTold

LEMMA WaitForEventsTold ==
    ASSUME NEW s, IsSocket(s), NEW mask
    PROVE  Told(WaitForEvents(s, mask))
<1> DEFINE r == [s EXCEPT !.eventMask = mask]
           t == UpdateEvents(r)
           w == [t EXCEPT !.event = @ /\ t.eventFlags # {}]
<1>1. IsSocket(r) /\ WaitForEvents(s, mask) = w
  BY DEF WaitForEvents, IsSocket
<1>2. Told(t) /\ t.eventFlags = EventsOf(r) \cap r.eventMask
  BY <1>1, UpdateEventsTold DEF UpdateEvents, IsSocket, Keys
<1>3. /\ DOMAIN t = DOMAIN r
      /\ t.state = r.state /\ t.synQueue = r.synQueue
      /\ t.sndUser = r.sndUser /\ t.sndNxt = r.sndNxt /\ t.sndUna = r.sndUna
      /\ t.rcvUser = r.rcvUser /\ t.eventMask = r.eventMask
  BY <1>1 DEF UpdateEvents, IsSocket, Keys
<1> HIDE DEF t, r
<1>4. /\ DOMAIN w = DOMAIN t
      /\ w.state = t.state /\ w.synQueue = t.synQueue
      /\ w.sndUser = t.sndUser /\ w.sndNxt = t.sndNxt /\ w.sndUna = t.sndUna
      /\ w.rcvUser = t.rcvUser /\ w.eventMask = t.eventMask
      /\ w.event = (t.event /\ t.eventFlags # {})
  BY <1>2 DEF Told, IsSocket, Keys
<1> HIDE DEF w
<1>5. EventsOf(w) = EventsOf(r) /\ EventsOf(t) = EventsOf(r)
  BY <1>3, <1>4 DEF EventsOf, InFlight
<1>6. IsSocket(w)
  BY <1>1, <1>3, <1>4 DEF IsSocket
<1>7. EventsOf(w) \cap w.eventMask # {} => w.event
  BY <1>2, <1>3, <1>4, <1>5 DEF Told, Signalled
<1> QED  BY <1>1, <1>6, <1>7 DEF Told, Signalled

\* A socket nobody waits on, or that is free, has nothing to signal.
LEMMA UnwatchedTold ==
    ASSUME NEW s, IsSocket(s)
    PROVE  Told(Unwatched(s)) /\ Unwatched(s).state = s.state
<1>1. DOMAIN Unwatched(s) = DOMAIN s /\ Unwatched(s).eventMask = {}
  BY DEF Unwatched, IsSocket, Keys
<1>2. Unwatched(s).state = s.state
  BY DEF Unwatched, IsSocket, Keys
<1> QED  BY <1>1, <1>2 DEF Told, IsSocket, Signalled

LEMMA UnusedIsSocket == IsSocket(Unused) /\ Unused.eventMask = {}
BY DEF Unused, IsSocket, Keys

LEMMA OpenedIsSocket == IsSocket(Opened) /\ Opened.eventMask = {}
BY UnusedIsSocket DEF Opened, IsSocket, Keys

LEMMA FreeTold ==
    ASSUME NEW s
    PROVE  Told(Free(s))
<1>1. DOMAIN Free(s) = DOMAIN Unused /\ Free(s).eventMask = {}
  BY UnusedIsSocket DEF Free, IsSocket, Keys
<1> QED  BY <1>1, UnusedIsSocket DEF Told, IsSocket, Signalled

-----------------------------------------------------------------------------
(* Sending *)

LEMMA SendSegmentSame ==
    ASSUME NEW s, IsSocket(s), NEW flags, NEW seqNum, NEW ackNum, NEW length,
           NEW addToQueue
    PROVE  SameEvents(s, SendSegment(s, flags, seqNum, ackNum, length, addToQueue))
BY DEF SendSegment, SameEvents, IsSocket, Keys

LEMMA SendAckSame ==
    ASSUME NEW s, IsSocket(s)
    PROVE  SameEvents(s, SendAck(s))
BY SendSegmentSame DEF SendAck

LEMMA RetransmitSegmentSame ==
    ASSUME NEW s, IsSocket(s)
    PROVE  SameEvents(s, RetransmitSegment(s))
BY DEF RetransmitSegment, SameEvents, IsSocket, Keys

LEMMA UpdateRetransmitQueueSame ==
    ASSUME NEW s, IsSocket(s)
    PROVE  SameEvents(s, UpdateRetransmitQueue(s))
BY DEF UpdateRetransmitQueue, SameEvents, IsSocket, Keys

\* tcpNagleAlgo may return early, but then it has sent nothing.
LEMMA SendDataSame ==
    ASSUME NEW s, IsSocket(s), NEW amount
    PROVE  /\ IsSocket(SendData(s, amount))
           /\ Fails(s) => SameEvents(s, SendData(s, amount))
<1>1. CASE amount <= 0
  BY <1>1 DEF SendData, SameEvents
<1>2. CASE ~(amount <= 0) /\ Fails(s)
  <2>1. SendData(s, amount) = SendSegment(s, {"ACK"}, s.sndNxt, s.rcvNxt, Least(Mss, amount), TRUE)
    BY <1>2 DEF SendData
  <2>2. SameEvents(s, SendData(s, amount))
    BY <2>1, SendSegmentSame
  <2> QED  BY <2>2 DEF SameEvents, IsSocket
<1>3. CASE ~(amount <= 0) /\ ~Fails(s)
  <2>1. DOMAIN SendData(s, amount) = DOMAIN s
    BY <1>3 DEF SendData
  <2> QED  BY <2>1, <1>3 DEF IsSocket
<1> QED  BY <1>1, <1>2, <1>3

LEMMA NagleAlgoTold ==
    ASSUME NEW s, Told(s), NEW noDelay
    PROVE  Told(NagleAlgo(s, noDelay))
<1> DEFINE amount == NagleAmount(s, noDelay)
           t == SendData(s, amount)
<1>1. NagleAlgo(s, noDelay) = IF amount > 0 /\ Fails(s) THEN t ELSE UpdateEvents(t)
  BY DEF NagleAlgo
<1>2. IsSocket(t) /\ (Fails(s) => SameEvents(s, t))
  BY SendDataSame DEF Told
<1> HIDE DEF t, amount
<1>3. CASE amount > 0 /\ Fails(s)
  BY <1>1, <1>2, <1>3, SameEventsTold
<1>4. CASE ~(amount > 0 /\ Fails(s))
  BY <1>1, <1>2, <1>4, UpdateEventsTold
<1> QED  BY <1>3, <1>4

-----------------------------------------------------------------------------
(* Acknowledgments *)

LEMMA UpdateSendWindowSame ==
    ASSUME NEW s, IsSocket(s), NEW seg
    PROVE  SameEvents(s, UpdateSendWindow(s, seg))
BY DEF UpdateSendWindow, SameEvents, IsSocket, Keys

LEMMA InitSendWindowSame ==
    ASSUME NEW s, IsSocket(s), NEW seg
    PROVE  SameEvents(s, InitSendWindow(s, seg))
BY DEF InitSendWindow, SameEvents, IsSocket, Keys

LEMMA FastRecoveryIsSocket ==
    ASSUME NEW s, IsSocket(s), NEW seg, NEW n
    PROVE  IsSocket(FastRecovery(s, seg, n))
<1>1. IsSocket(RetransmitSegment(s))
  BY RetransmitSegmentSame DEF SameEvents, IsSocket
<1>2. DOMAIN FastRecovery(s, seg, n) \in {DOMAIN s, DOMAIN RetransmitSegment(s)}
  BY DEF FastRecovery
<1> QED  BY <1>1, <1>2 DEF IsSocket

LEMMA FastLossRecoveryIsSocket ==
    ASSUME NEW s, IsSocket(s), NEW seg
    PROVE  IsSocket(FastLossRecovery(s, seg))
<1>1. IsSocket(RetransmitSegment(s))
  BY RetransmitSegmentSame DEF SameEvents, IsSocket
<1>2. DOMAIN FastLossRecovery(s, seg) \in {DOMAIN s, DOMAIN RetransmitSegment(s)}
  BY DEF FastLossRecovery
<1> QED  BY <1>1, <1>2 DEF IsSocket

LEMMA CutCwndIsSocket ==
    ASSUME NEW s, IsSocket(s)
    PROVE  IsSocket(CutCwnd(s))
BY DEF CutCwnd, IsSocket

LEMMA AckNewDataIsSocket ==
    ASSUME NEW s, IsSocket(s), NEW seg
    PROVE  IsSocket(AckNewData(s, seg))
<1> DEFINE n == Minus(seg.ack, s.sndUna) - (IF s.sndUna = s.iss THEN 1 ELSE 0)
           r == [s EXCEPT !.sndUna = seg.ack]
           t == UpdateRetransmitQueue(r)
           u == [t EXCEPT !.dupAckCount = 0]
           v == IF s.congestState = "LOSS_RECOVERY" THEN FastLossRecovery(u, seg) ELSE u
           w == [v EXCEPT !.cwnd = @ + Least(n, Mss)]
           x == IF s.congestState = "RECOVERY" THEN FastRecovery(t, seg, n) ELSE w
<1>1. AckNewData(s, seg) = CutCwnd(x)
  BY DEF AckNewData
<1>2. IsSocket(r)
  BY DEF IsSocket
<1>3. IsSocket(t)
  BY <1>2, UpdateRetransmitQueueSame DEF SameEvents, IsSocket
<1> HIDE DEF n, t
<1>4. IsSocket(u)
  BY <1>3 DEF IsSocket
<1> HIDE DEF u
<1>5. IsSocket(v)
  BY <1>4, FastLossRecoveryIsSocket
<1> HIDE DEF v
<1>6. IsSocket(w)
  BY <1>5 DEF IsSocket
<1> HIDE DEF w
<1>7. IsSocket(x)
  BY <1>3, <1>6, FastRecoveryIsSocket
<1> QED  BY <1>1, <1>7, CutCwndIsSocket

LEMMA AckOldDataIsSocket ==
    ASSUME NEW s, IsSocket(s), NEW seg, NEW duplicate
    PROVE  IsSocket(AckOldData(s, seg, duplicate))
<1> DEFINE t == [s EXCEPT !.dupAckCount =
                    IF duplicate THEN Least(@ + 1, FastRetransmitThres) ELSE 0]
           lossLikely == /\ t.dupAckCount >= DupAckThreshold(t)
                         /\ After(seg.ack, Plus(t.recover, 1))
           r == [t EXCEPT !.recover = Minus(t.sndNxt, 1),
                          !.cwnd = TxBufferSize,
                          !.congestState = "RECOVERY"]
           grown == [t EXCEPT !.cwnd = @ + Mss]
           x == IF s.congestState = "IDLE" /\ lossLikely THEN FastRetransmit(t)
                ELSE IF s.congestState = "RECOVERY" /\ duplicate THEN grown
                ELSE t
<1>1. AckOldData(s, seg, duplicate) = CutCwnd(x)
  BY DEF AckOldData
<1>2. IsSocket(t)
  BY DEF IsSocket
<1> HIDE DEF t
<1>3. IsSocket(r) /\ IsSocket(grown)
  BY <1>2 DEF IsSocket
<1>4. FastRetransmit(t) = RetransmitSegment(r)
  BY DEF FastRetransmit
<1>5. IsSocket(FastRetransmit(t))
  BY <1>3, <1>4, RetransmitSegmentSame DEF SameEvents, IsSocket
<1> HIDE DEF grown, lossLikely
<1>6. IsSocket(x)
  BY <1>2, <1>3, <1>5
<1> QED  BY <1>1, <1>6, CutCwndIsSocket

LEMMA CheckAckTold ==
    ASSUME NEW s, Told(s), NEW seg
    PROVE  Told(CheckAck(s, seg))
<1> DEFINE t == UpdateSendWindow(s, seg)
           x == IF After(seg.ack, s.sndUna) THEN AckNewData(t, seg)
                ELSE AckOldData(t, seg, IsDuplicateAck(s, seg))
<1>1. CheckAck(s, seg) = IF Before(seg.ack, s.sndUna) THEN s ELSE UpdateEvents(x)
  BY DEF CheckAck
<1>2. IsSocket(t)
  BY UpdateSendWindowSame DEF Told, SameEvents, IsSocket
<1> HIDE DEF t
<1>3. IsSocket(x)
  BY <1>2, AckNewDataIsSocket, AckOldDataIsSocket
<1> HIDE DEF x
<1> QED  BY <1>1, <1>3, UpdateEventsTold

LEMMA RefuseAckTold ==
    ASSUME NEW s, Told(s), NEW seg
    PROVE  Told(RefuseAck(s, seg))
<1>1. Told(SendAck(s))
  BY SendAckSame, SameEventsTold DEF Told
<1> QED  BY <1>1 DEF RefuseAck

LEMMA RefuseTold ==
    ASSUME NEW s, Told(s), NEW seg
    PROVE  Told(Refuse(s, seg))
<1>1. IsSocket(s) /\ Told(SendAck(s)) /\ Told(ChangeState(s, "CLOSED"))
  BY SendAckSame, SameEventsTold, ChangeStateTold DEF Told
<1>2. SameEvents(s, ResetForSyn(s, seg))
  BY <1>1, SendSegmentSame DEF ResetForSyn
<1>3. Told(ResetForSyn(s, seg))
  BY <1>2, SameEventsTold
<1> QED  BY <1>1, <1>3 DEF Refuse

-----------------------------------------------------------------------------
(* Receiving *)

LEMMA TakeDataTold ==
    ASSUME NEW s, Told(s), NEW got
    PROVE  Told(TakeData(s, got))
<1> DEFINE length == Minus(got.right, got.left)
           t == [s EXCEPT !.rcvNxt = Plus(@, length),
                          !.rcvUser = @ + length,
                          !.rcvWnd = @ - length]
<1>1. TakeData(s, got) = IF After(got.left, s.rcvNxt) THEN SendAck(s)
                         ELSE UpdateEvents(SendAck(t))
  BY DEF TakeData
<1> HIDE DEF length
<1>2. IsSocket(t)
  BY DEF Told, IsSocket
<1> HIDE DEF t
<1>3. Told(SendAck(s))
  BY SendAckSame, SameEventsTold DEF Told
<1>4. IsSocket(SendAck(t))
  BY <1>2, SendAckSame DEF SameEvents, IsSocket
<1> QED  BY <1>1, <1>3, <1>4, UpdateEventsTold

LEMMA StoreDataTold ==
    ASSUME NEW s, Told(s), NEW left, NEW data, NEW got
    PROVE  Told(StoreData(s, left, data, got))
<1> DEFINE t == [s EXCEPT !.rxBuffer = WriteBuffer(@, s.irs, left, data),
                          !.sackBlock = got.blocks]
<1>1. StoreData(s, left, data, got) = TakeData(t, got)
  BY DEF StoreData
<1>2. SameEvents(s, t)
  BY DEF SameEvents, Told, IsSocket, Keys
<1> HIDE DEF t
<1> QED  BY <1>1, <1>2, SameEventsTold, TakeDataTold

LEMMA ProcessSegmentDataTold ==
    ASSUME NEW s, Told(s), NEW seg
    PROVE  Told(ProcessSegmentData(s, seg))
BY StoreDataTold DEF ProcessSegmentData

LEMMA ReceiveTextTold ==
    ASSUME NEW s, Told(s), NEW seg
    PROVE  Told(ReceiveText(s, seg))
BY ProcessSegmentDataTold DEF ReceiveText

LEMMA AckFinIsSocket ==
    ASSUME NEW s, IsSocket(s)
    PROVE  IsSocket(AckFin(s))
<1> DEFINE t == [s EXCEPT !.rcvNxt = Plus(@, 1)]
<1>1. AckFin(s) = SendAck(t) /\ IsSocket(t)
  BY DEF AckFin, IsSocket
<1> QED  BY <1>1, SendAckSame DEF SameEvents, IsSocket

LEMMA EnterTimeWaitTold ==
    ASSUME NEW s, IsSocket(s)
    PROVE  Told(EnterTimeWait(s))
<1>1. IsSocket(DeleteControlBlock(s))
  BY DEF DeleteControlBlock, IsSocket
<1> QED  BY <1>1, ChangeStateTold DEF EnterTimeWait

LEMMA UpdateReceiveWindowIsSocket ==
    ASSUME NEW s, IsSocket(s)
    PROVE  IsSocket(UpdateReceiveWindow(s))
<1> DEFINE opened == [s EXCEPT !.rcvWnd = RxBufferSize - s.rcvUser]
<1>1. IsSocket(opened)
  BY DEF IsSocket
<1>2. IsSocket(SendAck(opened))
  BY <1>1, SendAckSame DEF SameEvents, IsSocket
<1>3. UpdateReceiveWindow(s) \in {s, opened, SendAck(opened)}
  BY DEF UpdateReceiveWindow
<1> QED  BY <1>1, <1>2, <1>3

-----------------------------------------------------------------------------
(* The state machine *)

LEMMA StateClosedTold ==
    ASSUME NEW s, Told(s), NEW seg
    PROVE  Told(StateClosed(s, seg))
<1>1. SameEvents(s, StateClosed(s, seg))
  BY DEF StateClosed, SameEvents, Told, IsSocket, Keys
<1> QED  BY <1>1, SameEventsTold

LEMMA StateListenTold ==
    ASSUME NEW s, Told(s), NEW src, NEW seg, s.state = "LISTEN"
    PROVE  Told(StateListen(s, src, seg)) /\ StateListen(s, src, seg).state = "LISTEN"
<1> DEFINE answered == [s EXCEPT !.out = Append(@, ResetSegment(seg))]
           queued == [s EXCEPT !.synQueue = Append(@, [src |-> src, isn |-> seg.seq])]
<1>1. StateListen(s, src, seg) \in {s, answered, UpdateEvents(queued)}
  BY DEF StateListen
<1>2. SameEvents(s, answered)
  BY DEF SameEvents, Told, IsSocket, Keys
<1>3. IsSocket(queued) /\ queued.state = "LISTEN"
  BY DEF Told, IsSocket, Keys
<1> HIDE DEF answered, queued
<1>4. Told(answered) /\ answered.state = "LISTEN"
  BY <1>2, SameEventsTold DEF SameEvents
<1>5. Told(UpdateEvents(queued)) /\ UpdateEvents(queued).state = "LISTEN"
  <2>1. UpdateEvents(queued).state = queued.state
    BY <1>3 DEF UpdateEvents, IsSocket, Keys
  <2> QED  BY <1>3, <2>1, UpdateEventsTold
<1> QED  BY <1>1, <1>4, <1>5

LEMMA StateSynSentTold ==
    ASSUME NEW s, Told(s), NEW seg
    PROVE  Told(StateSynSent(s, seg))
<1> DEFINE acked == "ACK" \in seg.flags
           r == [s EXCEPT !.irs = seg.seq, !.rcvNxt = Plus(seg.seq, 1),
                          !.sndUna = IF acked THEN seg.ack ELSE @]
           t == UpdateRetransmitQueue(r)
           u == [t EXCEPT !.cwnd = Least(3 * Mss, TxBufferSize)]
           reset == SendSegment(s, {"RST"}, seg.ack, 0, 0, FALSE)
           established == ChangeState(SendAck(InitSendWindow(u, seg)), "ESTABLISHED")
           synReceived ==
               ChangeState(SendSegment(u, {"SYN", "ACK"}, u.iss, u.rcvNxt, 0, TRUE),
                           "SYN_RECEIVED")
<1>1. StateSynSent(s, seg) \in {s, reset, ChangeState(s, "CLOSED"), established, synReceived}
  BY DEF StateSynSent
<1>2. IsSocket(s) /\ IsSocket(r)
  BY DEF Told, IsSocket
<1> HIDE DEF r
<1>3. IsSocket(t)
  BY <1>2, UpdateRetransmitQueueSame DEF SameEvents, IsSocket
<1> HIDE DEF t
<1>4. IsSocket(u)
  BY <1>3 DEF IsSocket
<1> HIDE DEF u
<1>5. Told(reset)
  BY <1>2, SendSegmentSame, SameEventsTold
<1>6. Told(established)
  <2>1. IsSocket(InitSendWindow(u, seg))
    BY <1>4, InitSendWindowSame DEF SameEvents, IsSocket
  <2>2. IsSocket(SendAck(InitSendWindow(u, seg)))
    BY <2>1, SendAckSame DEF SameEvents, IsSocket
  <2> QED  BY <2>2, ChangeStateTold
<1>7. Told(synReceived)
  <2>1. SameEvents(u, SendSegment(u, {"SYN", "ACK"}, u.iss, u.rcvNxt, 0, TRUE))
    BY <1>4, SendSegmentSame
  <2>2. IsSocket(SendSegment(u, {"SYN", "ACK"}, u.iss, u.rcvNxt, 0, TRUE))
    BY <1>4, <2>1 DEF SameEvents, IsSocket
  <2> QED  BY <2>2, ChangeStateTold
<1>8. Told(ChangeState(s, "CLOSED"))
  BY <1>2, ChangeStateTold
<1> HIDE DEF reset, established, synReceived
<1> QED  BY <1>1, <1>5, <1>6, <1>7, <1>8

LEMMA SendPendingTold ==
    ASSUME NEW s, Told(s)
    PROVE  Told(SendPending(s))
BY NagleAlgoTold DEF SendPending

LEMMA FinOfEstablishedTold ==
    ASSUME NEW s, Told(s), NEW seg
    PROVE  Told(FinOfEstablished(s, seg))
BY AckFinIsSocket, ChangeStateTold DEF FinOfEstablished, Told

LEMMA StateEstablishedTold ==
    ASSUME NEW s, Told(s), NEW seg
    PROVE  Told(StateEstablished(s, seg))
<1> DEFINE t == FinOfEstablished(ReceiveText(CheckAck(s, seg), seg), seg)
<1>1. StateEstablished(s, seg) \in
        {Refuse(s, seg), RefuseAck(s, seg), SendPending(t)}
  BY DEF StateEstablished
<1>2. Told(t)
  BY CheckAckTold, ReceiveTextTold, FinOfEstablishedTold
<1> HIDE DEF t
<1> QED  BY <1>1, <1>2, SendPendingTold, RefuseTold, RefuseAckTold

LEMMA StateSynReceivedTold ==
    ASSUME NEW s, Told(s), NEW seg
    PROVE  Told(StateSynReceived(s, seg))
<1> DEFINE reset == SendSegment(s, {"RST"}, seg.ack, 0, 0, FALSE)
           established == ChangeState(InitSendWindow(s, seg), "ESTABLISHED")
<1>1. StateSynReceived(s, seg) \in
        {s, Refuse(s, seg), reset, StateEstablished(established, seg)}
  BY DEF StateSynReceived
<1>2. IsSocket(s) /\ IsSocket(InitSendWindow(s, seg))
  BY InitSendWindowSame DEF Told, SameEvents, IsSocket
<1>3. Told(reset)
  BY <1>2, SendSegmentSame, SameEventsTold
<1>4. Told(established)
  BY <1>2, ChangeStateTold
<1> HIDE DEF reset, established
<1> QED  BY <1>1, <1>3, <1>4, RefuseTold, StateEstablishedTold

LEMMA StateCloseWaitTold ==
    ASSUME NEW s, Told(s), NEW seg
    PROVE  Told(StateCloseWait(s, seg))
BY CheckAckTold, SendPendingTold, RefuseTold, RefuseAckTold DEF StateCloseWait

LEMMA StateLastAckTold ==
    ASSUME NEW s, Told(s), NEW seg
    PROVE  Told(StateLastAck(s, seg))
<1>1. StateLastAck(s, seg) \in {s, Refuse(s, seg), ChangeState(s, "CLOSED")}
  BY DEF StateLastAck
<1> QED  BY <1>1, RefuseTold, ChangeStateTold DEF Told

LEMMA AckInFinWait1Told ==
    ASSUME NEW s, Told(s), NEW seg
    PROVE  Told(AckInFinWait1(s, seg))
BY ChangeStateTold DEF AckInFinWait1, Told

LEMMA FinInFinWait1Told ==
    ASSUME NEW s, Told(s), NEW seg
    PROVE  Told(FinInFinWait1(s, seg))
<1>1. IsSocket(AckFin(s))
  BY AckFinIsSocket DEF Told
<1> QED  BY <1>1, EnterTimeWaitTold, ChangeStateTold DEF FinInFinWait1

LEMMA StateFinWait1Told ==
    ASSUME NEW s, Told(s), NEW seg
    PROVE  Told(StateFinWait1(s, seg))
<1> DEFINE t == ReceiveText(AckInFinWait1(CheckAck(s, seg), seg), seg)
<1>1. StateFinWait1(s, seg) \in
        {Refuse(s, seg), RefuseAck(s, seg), FinInFinWait1(t, seg)}
  BY DEF StateFinWait1
<1>2. Told(t)
  BY CheckAckTold, AckInFinWait1Told, ReceiveTextTold
<1> HIDE DEF t
<1> QED  BY <1>1, <1>2, FinInFinWait1Told, RefuseTold, RefuseAckTold

LEMMA FinInFinWait2Told ==
    ASSUME NEW s, Told(s), NEW seg
    PROVE  Told(FinInFinWait2(s, seg))
BY AckFinIsSocket, EnterTimeWaitTold DEF FinInFinWait2, Told

LEMMA StateFinWait2Told ==
    ASSUME NEW s, Told(s), NEW seg
    PROVE  Told(StateFinWait2(s, seg))
<1> DEFINE t == ReceiveText(CheckAck(s, seg), seg)
<1>1. StateFinWait2(s, seg) \in
        {Refuse(s, seg), RefuseAck(s, seg), FinInFinWait2(t, seg)}
  BY DEF StateFinWait2
<1>2. Told(t)
  BY CheckAckTold, ReceiveTextTold
<1> HIDE DEF t
<1> QED  BY <1>1, <1>2, FinInFinWait2Told, RefuseTold, RefuseAckTold

LEMMA AckInClosingTold ==
    ASSUME NEW s, Told(s), NEW seg
    PROVE  Told(AckInClosing(s, seg))
BY EnterTimeWaitTold DEF AckInClosing, Told

LEMMA StateClosingTold ==
    ASSUME NEW s, Told(s), NEW seg
    PROVE  Told(StateClosing(s, seg))
BY CheckAckTold, AckInClosingTold, RefuseTold, RefuseAckTold DEF StateClosing

LEMMA DisposeTold ==
    ASSUME NEW s, Told(s)
    PROVE  Told(Dispose(s))
BY FreeTold DEF Dispose

LEMMA StateTimeWaitTold ==
    ASSUME NEW s, Told(s), NEW seg
    PROVE  Told(StateTimeWait(s, seg))
<1>1. StateTimeWait(s, seg) \in
        {s, Dispose(ChangeState(s, "CLOSED")), Refuse(s, seg), SendAck(s)}
  BY DEF StateTimeWait
<1>2. Told(SendAck(s)) /\ Told(ChangeState(s, "CLOSED"))
  BY SendAckSame, SameEventsTold, ChangeStateTold DEF Told
<1> QED  BY <1>1, <1>2, RefuseTold, DisposeTold

LEMMA ProcessStateTold ==
    ASSUME NEW s, Told(s), NEW src, NEW seg
    PROVE  /\ Told(ProcessState(s, src, seg))
           /\ s.state = "LISTEN" => ProcessState(s, src, seg).state = "LISTEN"
<1>1. CASE s.state = "LISTEN"
  <2>1. ProcessState(s, src, seg) = StateListen(s, src, seg)
    BY <1>1 DEF ProcessState
  <2> QED  BY <1>1, <2>1, StateListenTold
<1>2. CASE s.state # "LISTEN"
  <2>1. ProcessState(s, src, seg) \in
          {StateClosed(s, seg), StateSynSent(s, seg), StateSynReceived(s, seg),
           StateEstablished(s, seg), StateCloseWait(s, seg), StateLastAck(s, seg),
           StateFinWait1(s, seg), StateFinWait2(s, seg), StateClosing(s, seg),
           StateTimeWait(s, seg), ChangeState(s, "CLOSED")}
    BY <1>2 DEF ProcessState
  <2>2. Told(ChangeState(s, "CLOSED"))
    BY ChangeStateTold DEF Told
  <2> QED  BY <1>2, <2>1, <2>2, StateClosedTold, StateSynSentTold, StateSynReceivedTold,
              StateEstablishedTold, StateCloseWaitTold, StateLastAckTold,
              StateFinWait1Told, StateFinWait2Told, StateClosingTold,
              StateTimeWaitTold
<1> QED  BY <1>1, <1>2

-----------------------------------------------------------------------------
(* Timers *)

LEMMA RetransmitTimeoutTold ==
    ASSUME NEW s, Told(s)
    PROVE  Told(RetransmitTimeout(s))
<1> DEFINE t == [s EXCEPT !.cwnd = Least(Mss, TxBufferSize),
                          !.recover = Minus(s.sndNxt, 1),
                          !.congestState = "LOSS_RECOVERY"]
           resent == [RetransmitSegment(t) EXCEPT !.retransmitCount = @ + 1]
           closed == [ChangeState(t, "CLOSED") EXCEPT !.retransmitTimer = FALSE]
<1>1. RetransmitTimeout(s) \in {resent, closed}
  BY DEF RetransmitTimeout
<1>2. SameEvents(s, t)
  BY DEF SameEvents, Told, IsSocket, Keys
<1> HIDE DEF t
<1>3. Told(t)
  BY <1>2, SameEventsTold
<1>4. Told(RetransmitSegment(t)) /\ Told(ChangeState(t, "CLOSED"))
  BY <1>3, RetransmitSegmentSame, SameEventsTold, ChangeStateTold DEF Told
<1>5. SameEvents(RetransmitSegment(t), resent)
  BY <1>4 DEF SameEvents, Told, IsSocket, Keys
<1>6. SameEvents(ChangeState(t, "CLOSED"), closed)
  BY <1>4 DEF SameEvents, Told, IsSocket, Keys
<1> HIDE DEF resent, closed
<1> QED  BY <1>1, <1>4, <1>5, <1>6, SameEventsTold

LEMMA PersistTimeoutTold ==
    ASSUME NEW s, Told(s)
    PROVE  Told(PersistTimeout(s))
<1> DEFINE probe == SendSegment(s, {"ACK"}, Minus(s.sndNxt, 1), s.rcvNxt, 0, FALSE)
           probed == [probe EXCEPT !.wndProbeCount = @ + 1]
<1>1. PersistTimeout(s) \in {probed, ChangeState(s, "CLOSED")}
  BY DEF PersistTimeout
<1>2. Told(probe) /\ Told(ChangeState(s, "CLOSED"))
  BY SendSegmentSame, SameEventsTold, ChangeStateTold DEF Told
<1> HIDE DEF probe
<1>3. SameEvents(probe, probed)
  BY <1>2 DEF SameEvents, Told, IsSocket, Keys
<1> HIDE DEF probed
<1> QED  BY <1>1, <1>2, <1>3, SameEventsTold

LEMMA OverrideTimeoutTold ==
    ASSUME NEW s, IsSocket(s)
    PROVE  Told(OverrideTimeout(s))
BY SendDataSame, UpdateEventsTold DEF OverrideTimeout

LEMMA OtherTimeoutsTold ==
    ASSUME NEW s, IsSocket(s)
    PROVE  Told(FinWait2Timeout(s)) /\ Told(TimeWaitTimeout(s))
BY ChangeStateTold, DisposeTold DEF FinWait2Timeout, TimeWaitTimeout

-----------------------------------------------------------------------------
(* The user's calls *)

LEMMA InitControlBlockIsSocket ==
    ASSUME NEW s, IsSocket(s), NEW iss
    PROVE  IsSocket(InitControlBlock(s, iss))
BY DEF InitControlBlock, IsSocket

LEMMA ActiveOpenIsSocket ==
    ASSUME NEW s, IsSocket(s), NEW iss
    PROVE  IsSocket(ActiveOpen(s, iss))
<1> DEFINE r == InitControlBlock(s, iss)
           t == SendSegment(r, {"SYN"}, iss, 0, 0, TRUE)
<1>1. ActiveOpen(s, iss) \in {t, ChangeState(t, "SYN_SENT")}
  BY DEF ActiveOpen
<1>2. IsSocket(r)
  BY InitControlBlockIsSocket
<1> HIDE DEF r
<1>3. SameEvents(r, t)
  BY <1>2, SendSegmentSame
<1>4. IsSocket(t)
  BY <1>2, <1>3 DEF SameEvents, IsSocket
<1> QED  BY <1>1, <1>4, ChangeStateTold DEF Told

LEMMA PassiveOpenTold ==
    ASSUME NEW s, IsSocket(s), NEW item, NEW iss
    PROVE  Told(PassiveOpen(s, item, iss))
<1> DEFINE r == InitControlBlock(s, iss)
           t == [r EXCEPT !.irs = item.isn, !.rcvNxt = Plus(item.isn, 1)]
           u == SendSegment(t, {"SYN", "ACK"}, iss, t.rcvNxt, 0, TRUE)
<1>1. PassiveOpen(s, item, iss) \in {Free(u), ChangeState(u, "SYN_RECEIVED")}
  BY DEF PassiveOpen
<1>2. IsSocket(r)
  BY InitControlBlockIsSocket
<1> HIDE DEF r
<1>3. IsSocket(t)
  BY <1>2 DEF IsSocket
<1> HIDE DEF t
<1>4. SameEvents(t, u)
  BY <1>3, SendSegmentSame
<1>5. IsSocket(u)
  BY <1>3, <1>4 DEF SameEvents, IsSocket
<1> HIDE DEF u
<1> QED  BY <1>1, <1>5, FreeTold, ChangeStateTold

LEMMA WriteDataTold ==
    ASSUME NEW s, IsSocket(s), NEW data
    PROVE  Told(WriteData(s, data))
<1> DEFINE t == [s EXCEPT !.txBuffer = WriteBuffer(@, s.iss,
                                           Plus(s.sndNxt, s.sndUser), data),
                          !.sndUser = @ + Len(data)]
<1>1. WriteData(s, data) = NagleAlgo(UpdateEvents(t), FALSE)
  BY DEF WriteData
<1>2. IsSocket(t)
  BY DEF IsSocket
<1> HIDE DEF t
<1> QED  BY <1>1, <1>2, UpdateEventsTold, NagleAlgoTold

LEMMA ConsumeTold ==
    ASSUME NEW s, IsSocket(s), NEW n
    PROVE  Told(Consume(s, n))
<1> DEFINE t == [s EXCEPT !.rcvUser = @ - n]
<1>1. IsSocket(t) /\ Consume(s, n) = UpdateEvents(UpdateReceiveWindow(t))
  BY DEF Consume, IsSocket
<1> HIDE DEF t
<1> QED  BY <1>1, UpdateReceiveWindowIsSocket, UpdateEventsTold

LEMMA SendFinIsSocket ==
    ASSUME NEW s, IsSocket(s), NEW newState
    PROVE  IsSocket(SendFin(s, newState))
<1> DEFINE t == SendSegment(s, {"FIN", "ACK"}, s.sndNxt, s.rcvNxt, 0, TRUE)
           u == [t EXCEPT !.sndNxt = Plus(@, 1)]
<1>1. SendFin(s, newState) \in {t, ChangeState(u, newState)}
  BY DEF SendFin
<1>2. SameEvents(s, t)
  BY SendSegmentSame
<1>3. IsSocket(t)
  BY <1>2 DEF SameEvents, IsSocket
<1> HIDE DEF t
<1>4. IsSocket(u)
  BY <1>3 DEF IsSocket
<1> QED  BY <1>1, <1>3, <1>4, ChangeStateTold DEF Told

LEMMA AbortTold ==
    ASSUME NEW s, Told(s)
    PROVE  Told(Abort(s))
<1> DEFINE reset == SendSegment(s, {"RST"}, s.sndNxt, 0, 0, FALSE)
           disowned == [s EXCEPT !.owned = FALSE]
<1>1. Abort(s) \in {Free(reset), disowned, Free(s)}
  BY DEF Abort
<1>2. SameEvents(s, disowned)
  BY DEF SameEvents, Told, IsSocket, Keys
<1> HIDE DEF reset, disowned
<1> QED  BY <1>1, <1>2, FreeTold, SameEventsTold

-----------------------------------------------------------------------------
(* The steps *)

\* Every socket tells its task of its events, also those nobody waits on; and
\* the listener listens, so that no event but a request is due to it.
Good(sockets) ==
    /\ DOMAIN sockets = Sockets
    /\ \A x \in Sockets : Told(sockets[x])
    /\ sockets["listener"].state = "LISTEN"

AllTold == Good(sock)

LEMMA GoodUpdate ==
    ASSUME AllTold, NEW x \in Sockets, NEW s, Told(s),
           x = "listener" => s.state = "LISTEN",
           sock' = [sock EXCEPT ![x] = s]
    PROVE  AllTold'
<1>1. DOMAIN sock' = Sockets
  BY DEF AllTold, Good
<1>2. ASSUME NEW y \in Sockets  PROVE sock'[y] = IF y = x THEN s ELSE sock[y]
  BY DEF AllTold, Good
<1>3. \A y \in Sockets : Told(sock'[y])
  BY <1>2 DEF AllTold, Good
<1>4. sock'["listener"].state = "LISTEN"
  BY <1>2 DEF AllTold, Good, Sockets
<1> QED  BY <1>1, <1>3, <1>4 DEF AllTold, Good

\* What Put leaves out of a socket is not among what its events depend on.
LEMMA SentTold ==
    ASSUME NEW s, Told(s)
    PROVE  /\ Told([s EXCEPT !.out = <<>>, !.nic = "up"])
           /\ [s EXCEPT !.out = <<>>, !.nic = "up"].state = s.state
           /\ Told([s EXCEPT !.out = <<>>])
<1>1. /\ SameEvents(s, [s EXCEPT !.out = <<>>, !.nic = "up"])
      /\ SameEvents(s, [s EXCEPT !.out = <<>>])
  BY DEF SameEvents, Told, IsSocket, Keys
<1>2. [s EXCEPT !.out = <<>>, !.nic = "up"].state = s.state
  BY DEF Told, IsSocket, Keys
<1> QED  BY <1>1, <1>2, SameEventsTold

LEMMA NicTold ==
    ASSUME NEW s, Told(s), NEW nic
    PROVE  /\ Told([s EXCEPT !.nic = nic]) /\ IsSocket([s EXCEPT !.nic = nic])
           /\ [s EXCEPT !.nic = nic].state = s.state
<1>1. SameEvents(s, [s EXCEPT !.nic = nic])
  BY DEF SameEvents, Told, IsSocket, Keys
<1> QED  BY <1>1, SameEventsTold DEF SameEvents, Told

LEMMA PutTold ==
    ASSUME AllTold, NEW x \in Sockets, NEW s, Told(s),
           x = "listener" => s.state = "LISTEN",
           Put(x, s)
    PROVE  AllTold'
<1> DEFINE t == [s EXCEPT !.out = <<>>, !.nic = "up"]
<1>1. Told(t) /\ t.state = s.state
  BY SentTold
<1>2. sock' = [sock EXCEPT ![x] = t]
  BY DEF Put
<1> HIDE DEF t
<1> QED  BY <1>1, <1>2, GoodUpdate

\* The socket of a host whose task is neither about to accept nor accepting.
LEMMA OwnSocket ==
    ASSUME NEW h \in Hosts, ~(task[h].at \in {"start", "accept"}) \/ h = "client"
    PROVE  Own(h) = h /\ h \in Sockets /\ h # "listener"
BY DEF Own, Hosts, Sockets

LEMMA AwaitTold ==
    ASSUME AllTold, NEW h \in Hosts, NEW s, IsSocket(s), NEW t, NEW mask,
           ~(task[h].at \in {"start", "accept"}) \/ h = "client",
           Await(h, s, t, mask)
    PROVE  AllTold'
<1>1. Told(WaitForEvents(s, mask))
  BY WaitForEventsTold
<1>2. Put(h, WaitForEvents(s, mask))
  BY OwnSocket DEF Await
<1> QED  BY <1>1, <1>2, OwnSocket, PutTold

LEMMA ReturnsTold ==
    ASSUME AllTold, NEW h \in Hosts, NEW s, IsSocket(s), NEW closing,
           ~(task[h].at \in {"start", "accept"}) \/ h = "client",
           Returns(h, s, closing)
    PROVE  AllTold'
<1>1. Put(h, Unwatched(s))
  BY OwnSocket DEF Returns
<1> QED  BY <1>1, OwnSocket, UnwatchedTold, PutTold

LEMMA ConnectTold ==
    ASSUME AllTold, NEW nic, Connect(nic)
    PROVE  AllTold'
<1> DEFINE c == [sock["client"] EXCEPT !.nic = nic]
           s == ActiveOpen(c, ClientIss)
<1>1. "client" \in Sockets /\ "client" \in Hosts
  BY DEF Sockets, Hosts
<1>2. IsSocket(c)
  BY <1>1, NicTold DEF AllTold, Good
<1> HIDE DEF c
<1>3. IsSocket(s)
  BY <1>2, ActiveOpenIsSocket
<1> HIDE DEF s
<1>4. \/ Await("client", s, Goto("client", "connect"), {"CONNECTED", "CLOSED"})
      \/ Returns("client", s, TRUE)
  BY DEF Connect, ReturnError, s, c
<1> QED  BY <1>1, <1>3, <1>4, AwaitTold, ReturnsTold

LEMMA ConnectReturnsTold ==
    ASSUME AllTold, ConnectReturns
    PROVE  AllTold'
<1>1. "client" \in Sockets /\ "client" \in Hosts /\ IsSocket(sock["client"])
  BY DEF Sockets, Hosts, AllTold, Good, Told
<1> QED  BY <1>1, ReturnsTold DEF ConnectReturns

LEMMA AcceptTold ==
    ASSUME AllTold, Accept
    PROVE  AllTold'
<1> DEFINE s == sock["listener"]
           t == [s EXCEPT !.eventMask = {"RX_READY"}, !.event = FALSE]
<1>1. "listener" \in Sockets /\ IsSocket(s) /\ s.state = "LISTEN"
  BY DEF Sockets, AllTold, Good, Told
<1>2. CASE s.synQueue = <<>>
  <2>1. /\ DOMAIN t = DOMAIN s /\ t.state = "LISTEN" /\ t.synQueue = <<>>
        /\ t.eventMask = {"RX_READY"}
    BY <1>1, <1>2 DEF IsSocket, Keys
  <2>2. Put("listener", t)
    BY <1>2 DEF Accept
  <2> HIDE DEF t
  <2>3. "RX_READY" \notin EventsOf(t)
    BY <2>1 DEF EventsOf
  <2>4. Told(t)
    BY <1>1, <2>1, <2>3 DEF Told, IsSocket, Signalled
  <2> QED  BY <1>1, <2>1, <2>2, <2>4, PutTold
<1>3. CASE s.synQueue # <<>>
  BY <1>3 DEF Accept, AllTold
<1> QED  BY <1>2, <1>3

LEMMA AcceptTurnTold ==
    ASSUME AllTold, NEW nic, AcceptTurn(nic)
    PROVE  AllTold'
<1> DEFINE s == sock["listener"]
           rest == [s EXCEPT !.synQueue = Tail(@)]
           o == [Opened EXCEPT !.nic = nic]
           new == PassiveOpen(o, Head(s.synQueue), ServerIss)
           first == [sock EXCEPT !["listener"] = Unwatched(rest)]
           sent == [new EXCEPT !.out = <<>>]
<1>1. /\ "listener" \in Sockets /\ "server" \in Sockets
      /\ IsSocket(s) /\ s.state = "LISTEN"
  BY DEF Sockets, AllTold, Good, Told
<1>2. IsSocket(rest) /\ rest.state = "LISTEN"
  BY <1>1 DEF IsSocket, Keys
<1>3. IsSocket(o)
  BY OpenedIsSocket DEF IsSocket
<1>4. \/ Put("listener", Unwatched(s)) \/ Put("listener", Unwatched(rest))
      \/ sock' = [sock EXCEPT !["listener"] = Unwatched(rest), !["server"] = sent]
  BY DEF AcceptTurn
<1> HIDE DEF rest, o
<1>5. Told(new)
  BY <1>3, PassiveOpenTold
<1> HIDE DEF new
<1>6. Told(sent)
  BY <1>5, SentTold
<1> HIDE DEF sent
<1>7. /\ Told(Unwatched(s)) /\ Unwatched(s).state = "LISTEN"
      /\ Told(Unwatched(rest)) /\ Unwatched(rest).state = "LISTEN"
  BY <1>1, <1>2, UnwatchedTold
<1>8. CASE sock' = [sock EXCEPT !["listener"] = Unwatched(rest), !["server"] = sent]
  <2>1. DOMAIN sock' = Sockets
    BY <1>8 DEF AllTold, Good
  <2>2. ASSUME NEW y \in Sockets
        PROVE sock'[y] = IF y = "server" THEN sent
                         ELSE IF y = "listener" THEN Unwatched(rest) ELSE sock[y]
    BY <1>8 DEF AllTold, Good
  <2>3. \A y \in Sockets : Told(sock'[y])
    BY <2>2, <1>6, <1>7 DEF AllTold, Good
  <2>4. sock'["listener"].state = "LISTEN"
    BY <1>1, <1>7, <2>2
  <2> QED  BY <2>1, <2>3, <2>4 DEF AllTold, Good
<1> QED  BY <1>1, <1>4, <1>7, <1>8, PutTold

\* The calls begin when the task is idle, so on the socket of the host.
LEMMA CallTold ==
    ASSUME AllTold, NEW h \in Hosts, Call(h)
    PROVE  AllTold'
<1>1. task[h].at = "idle"
  BY DEF Call, Send, Receive, Shutdown, Calls
<1>2. ~(task[h].at \in {"start", "accept"})
  BY <1>1
<1>3. h \in Sockets /\ IsSocket(sock[h])
  BY <1>2, OwnSocket DEF AllTold, Good, Told
<1>4. CASE Send(h)
  BY <1>2, <1>3, <1>4, AwaitTold DEF Send
<1>5. CASE Receive(h)
  BY <1>2, <1>3, <1>5, AwaitTold DEF Receive
<1>6. CASE Shutdown(h)
  BY <1>2, <1>3, <1>6, AwaitTold, ReturnsTold
     DEF Shutdown, DisableReception, ShutdownReturns, ReturnError
<1> QED  BY <1>4, <1>5, <1>6 DEF Call

LEMMA SendTurnTold ==
    ASSUME AllTold, NEW h \in Hosts, NEW nic, SendTurn(h, nic)
    PROVE  AllTold'
<1> DEFINE s == [sock[h] EXCEPT !.nic = nic]
           n == Least(RoomToWrite(s), task[h].size)
           data == [k \in 1 .. n |-> written[h] + k]
           t == WriteData(s, data)
<1>1. ~(task[h].at \in {"start", "accept"})
  BY DEF SendTurn, Resumes
<1>2. h \in Sockets /\ IsSocket(s)
  BY <1>1, OwnSocket, NicTold DEF AllTold, Good
<1>3. \/ Returns(h, s, TRUE) \/ Returns(h, t, FALSE)
      \/ \E q : Await(h, t, q, {"TX_READY"})
  BY DEF SendTurn, Return, ReturnError
<1> HIDE DEF s, data
<1>4. IsSocket(t)
  BY <1>2, WriteDataTold DEF Told
<1> HIDE DEF t
<1> QED  BY <1>1, <1>2, <1>3, <1>4, AwaitTold, ReturnsTold

LEMMA ReceiveTurnTold ==
    ASSUME AllTold, NEW h \in Hosts, NEW nic, ReceiveTurn(h, nic)
    PROVE  AllTold'
<1> DEFINE s == [sock[h] EXCEPT !.nic = nic]
           n == Least(s.rcvUser, task[h].size)
<1>1. ~(task[h].at \in {"start", "accept"})
  BY DEF ReceiveTurn, Resumes
<1>2. h \in Sockets /\ IsSocket(s)
  BY <1>1, OwnSocket, NicTold DEF AllTold, Good
<1>3. \E closing : Returns(h, s, closing) \/ Returns(h, Consume(s, n), closing)
  BY DEF ReceiveTurn, Return, ReturnError
<1> HIDE DEF s, n
<1>4. IsSocket(Consume(s, n))
  BY <1>2, ConsumeTold DEF Told
<1> QED  BY <1>1, <1>2, <1>3, <1>4, ReturnsTold

LEMMA ShutdownTurnTold ==
    ASSUME AllTold, NEW h \in Hosts, NEW nic,
           FlushTurn(h, nic) \/ DrainTurn(h, nic) \/ FinTurn(h) \/ EndTurn(h)
    PROVE  AllTold'
<1> DEFINE s == [sock[h] EXCEPT !.nic = nic]
           flushed == NagleAlgo(s, TRUE)
           fin == SendFin(s, task[h].finState)
<1>1. ~(task[h].at \in {"start", "accept"})
  BY DEF FlushTurn, DrainTurn, FinTurn, EndTurn, Resumes
<1>2. h \in Sockets /\ IsSocket(sock[h]) /\ Told(s)
  BY <1>1, OwnSocket, NicTold DEF AllTold, Good, Told
<1>3. CASE FlushTurn(h, nic)
  <2>1. Returns(h, s, TRUE) \/ Await(h, flushed, Goto(h, "drain"), {"TX_DONE"})
    BY <1>3 DEF FlushTurn, ReturnError
  <2> HIDE DEF s
  <2>2. Told(flushed)
    BY <1>2, NagleAlgoTold
  <2> HIDE DEF flushed
  <2> QED  BY <1>1, <1>2, <2>1, <2>2, AwaitTold, ReturnsTold DEF Told
<1>4. CASE DrainTurn(h, nic)
  <2>1. \/ Returns(h, s, TRUE) \/ Returns(h, fin, TRUE)
        \/ Await(h, fin, Goto(h, "fin"), {"TX_SHUTDOWN"})
    BY <1>4 DEF DrainTurn, ReturnError
  <2> HIDE DEF s
  <2>2. IsSocket(fin)
    BY <1>2, SendFinIsSocket DEF Told
  <2> HIDE DEF fin
  <2> QED  BY <1>1, <1>2, <2>1, <2>2, AwaitTold, ReturnsTold DEF Told
<1>5. CASE FinTurn(h) \/ EndTurn(h)
  BY <1>1, <1>2, <1>5, AwaitTold, ReturnsTold
     DEF FinTurn, EndTurn, DisableReception, ShutdownReturns, ReturnError
<1> QED  BY <1>3, <1>4, <1>5

LEMMA CloseTold ==
    ASSUME AllTold, NEW h \in Hosts, NEW nic, Close(h, nic)
    PROVE  AllTold'
<1> DEFINE s == [sock[h] EXCEPT !.nic = nic]
<1>1. h \in Sockets /\ h # "listener"
  BY DEF Hosts, Sockets
<1>2. Told(s) /\ Put(h, Abort(s))
  BY <1>1, NicTold DEF AllTold, Good, Close
<1> HIDE DEF s
<1> QED  BY <1>1, <1>2, AbortTold, PutTold

LEMMA ProcessSegmentTold ==
    ASSUME AllTold, NEW h \in Hosts, NEW nic, ProcessSegment(h, nic)
    PROVE  AllTold'
<1>1. CASE Matching(h) = {}
  <2>1. DOMAIN sock' = Sockets /\ \A y \in Sockets : sock'[y] = sock[y]
    BY <1>1 DEF ProcessSegment
  <2> QED  BY <2>1 DEF AllTold, Good, Sockets
<1>2. CASE Matching(h) # {}
  <2>1. PICK x \in Sockets : Matching(h) = {x}
    BY <1>2 DEF Matching, Hosts, Sockets
  <2> DEFINE c == [sock[x] EXCEPT !.nic = nic]
             s == ProcessState(c, Peer(h), Head(net[h]))
             t == [s EXCEPT !.out = <<>>, !.nic = "up"]
  <2>2. (CHOOSE y \in Matching(h) : TRUE) = x
    BY <2>1
  <2>3. sock' = [y \in Sockets |-> IF y \in Matching(h) THEN t ELSE sock[y]]
    BY <1>2, <2>2 DEF ProcessSegment
  <2>4. Told(c) /\ c.state = sock[x].state
    BY NicTold DEF AllTold, Good
  <2> HIDE DEF c
  <2>5. Told(s) /\ (c.state = "LISTEN" => s.state = "LISTEN")
    BY <2>4, ProcessStateTold
  <2> HIDE DEF s
  <2>6. Told(t) /\ t.state = s.state
    BY <2>5, SentTold
  <2> HIDE DEF t
  <2>7. DOMAIN sock' = Sockets /\ \A y \in Sockets : Told(sock'[y])
    BY <2>3, <2>6 DEF AllTold, Good
  <2>8. sock'["listener"].state = "LISTEN"
    <3>1. sock'["listener"] = IF "listener" = x THEN t ELSE sock["listener"]
      BY <2>1, <2>3 DEF Sockets
    <3> QED  BY <3>1, <2>4, <2>5, <2>6 DEF AllTold, Good
  <2> QED  BY <2>7, <2>8 DEF AllTold, Good
<1> QED  BY <1>1, <1>2

LEMMA TickTold ==
    ASSUME AllTold, NEW h \in Hosts, NEW nic, Tick(h, nic)
    PROVE  AllTold'
<1> DEFINE s == [sock[h] EXCEPT !.nic = nic]
<1>1. h \in Sockets /\ h # "listener"
  BY DEF Hosts, Sockets
<1>2. Told(s) /\ IsSocket(s) /\ IsSocket(sock[h])
  BY <1>1, NicTold DEF AllTold, Good, Told
<1>3. \/ Put(h, RetransmitTimeout(s)) \/ Put(h, PersistTimeout(s))
      \/ Put(h, OverrideTimeout(s)) \/ Put(h, FinWait2Timeout(sock[h]))
      \/ Put(h, TimeWaitTimeout(sock[h]))
  BY DEF Tick, RetransmitTick, PersistTick, OverrideTick, FinWait2Tick, TimeWaitTick
<1> HIDE DEF s
<1>4. /\ Told(RetransmitTimeout(s)) /\ Told(PersistTimeout(s))
      /\ Told(OverrideTimeout(s)) /\ Told(FinWait2Timeout(sock[h]))
      /\ Told(TimeWaitTimeout(sock[h]))
  BY <1>2, RetransmitTimeoutTold, PersistTimeoutTold, OverrideTimeoutTold,
     OtherTimeoutsTold
<1> QED  BY <1>1, <1>3, <1>4, PutTold

LEMMA InitTold == Init => AllTold
<1> SUFFICES ASSUME Init  PROVE AllTold
  OBVIOUS
<1> DEFINE listener == [Opened EXCEPT !.state = "LISTEN"]
<1>1. /\ DOMAIN sock = Sockets
      /\ \A x \in Sockets : sock[x] \in {Opened, listener, Unused}
      /\ sock["listener"] = listener
  BY DEF Init, Sockets
<1>2. IsSocket(listener) /\ listener.eventMask = {} /\ listener.state = "LISTEN"
  BY OpenedIsSocket DEF IsSocket, Keys
<1> HIDE DEF listener
<1>3. Told(Opened) /\ Told(listener) /\ Told(Unused)
  BY <1>2, OpenedIsSocket, UnusedIsSocket DEF Told, Signalled
<1> QED  BY <1>1, <1>2, <1>3 DEF AllTold, Good

LEMMA NextTold == AllTold /\ [Next]_vars => AllTold'
<1> SUFFICES ASSUME AllTold, [Next]_vars  PROVE AllTold'
  OBVIOUS
<1>1. CASE UNCHANGED vars
  BY <1>1 DEF vars, AllTold
<1>2. CASE \E nic \in Nics : Connect(nic) \/ AcceptTurn(nic)
  BY <1>2, ConnectTold, AcceptTurnTold
<1>3. CASE ConnectReturns \/ Accept
  BY <1>3, ConnectReturnsTold, AcceptTold
<1>4. ASSUME NEW h \in Hosts, Call(h)  PROVE AllTold'
  BY <1>4, CallTold
<1>5. ASSUME NEW h \in Hosts, Network(h)  PROVE AllTold'
  BY <1>5 DEF Network, Lose, Duplicate, Delay, AllTold
<1>6. ASSUME NEW h \in Hosts, NEW nic \in Nics, Turn(h, nic)  PROVE AllTold'
  BY <1>6, SendTurnTold, ReceiveTurnTold, ShutdownTurnTold DEF Turn
<1>7. ASSUME NEW h \in Hosts, NEW nic \in Nics,
             Close(h, nic) \/ ProcessSegment(h, nic) \/ Tick(h, nic)
      PROVE AllTold'
  BY <1>7, CloseTold, ProcessSegmentTold, TickTold
<1> QED  BY <1>1, <1>2, <1>3, <1>4, <1>5, <1>6, <1>7 DEF Next

LEMMA ToldNoLostWakeup == AllTold => NoLostWakeup
<1> SUFFICES ASSUME AllTold, NEW h \in Hosts  PROVE Signalled(sock[Own(h)])
  BY DEF NoLostWakeup
<1>1. Own(h) \in Sockets
  BY DEF Own, Hosts, Sockets
<1> QED  BY <1>1 DEF AllTold, Good, Told

\* A task that waits for an event of a socket is signalled as soon as one of
\* the events it waits for holds, whatever segments, timers and calls change
\* the socket (tcpUpdateEvents, tcpWaitForEvents).
THEOREM WaitersAreTold == Spec => []NoLostWakeup
<1>1. Spec => []AllTold
  BY InitTold, NextTold, PTL DEF Spec
<1> QED  BY <1>1, ToldNoLostWakeup, PTL

-----------------------------------------------------------------------------
(* Sequence numbers *)

LEMMA Sizes ==
    /\ Mss \in Nat /\ Mss >= 1 /\ MaxRetries \in Nat
    /\ TxBufferSize \in Nat /\ Mss <= TxBufferSize /\ TxBufferSize <= 2 * Mss
    /\ RxBufferSize \in Nat /\ Mss <= RxBufferSize
    /\ SeqSpace \in Nat /\ SeqSpace > 4 * (TxBufferSize + RxBufferSize)
    /\ MaxSackBlocks \in Nat /\ MaxSackBlocks >= 1
    /\ SynQueueSize \in Nat /\ SynQueueSize >= 1
BY SizesAssumption, TxBufferAssumption, SeqSpaceAssumption

LEMMA ModOf ==
    ASSUME NEW n \in Nat \ {0}, NEW x \in Int
    PROVE  /\ x % n \in 0 .. n - 1
           /\ x \in 0 .. n - 1 => x % n = x
           /\ x \in n .. 2 * n - 1 => x % n = x - n
           /\ x \in -n .. -1 => x % n = x + n
<1>1. x % n \in 0 .. n - 1
  OBVIOUS
<1>2. x \in 0 .. n - 1 => x % n = x
  OBVIOUS
<1>3. x \in n .. 2 * n - 1 => x % n = x - n
  OBVIOUS
<1>4. x \in -n .. -1 => x % n = x + n
  OBVIOUS
<1> QED BY <1>1, <1>2, <1>3, <1>4

LEMMA SeqNumsAreNats == SeqNums \subseteq Nat
BY Sizes DEF SeqNums

LEMMA PlusOf ==
    ASSUME NEW a \in SeqNums, NEW n \in Int
    PROVE  /\ Plus(a, n) \in SeqNums
           /\ n \in 0 .. SeqSpace => Plus(a, n) = IF a + n < SeqSpace THEN a + n ELSE a + n - SeqSpace
<1>1. SeqSpace \in Nat \ {0} /\ a + n \in Int /\ a \in 0 .. SeqSpace - 1
  BY Sizes DEF SeqNums
<1>2. Plus(a, n) = (a + n) % SeqSpace
  BY DEF Plus
<1>3. (a + n) % SeqSpace \in SeqNums
  BY <1>1, ModOf DEF SeqNums
<1>4. ASSUME n \in 0 .. SeqSpace
      PROVE  (a + n) % SeqSpace = IF a + n < SeqSpace THEN a + n ELSE a + n - SeqSpace
  <2>1. CASE a + n < SeqSpace
    <3>1. a + n \in 0 .. SeqSpace - 1
      BY <1>1, <1>4, <2>1
    <3> QED BY <1>1, <2>1, <3>1, ModOf
  <2>2. CASE ~(a + n < SeqSpace)
    <3>1. a + n \in SeqSpace .. 2 * SeqSpace - 1
      BY <1>1, <1>4, <2>2
    <3> DEFINE x == a + n
    <3>2. x \in Int /\ x \in SeqSpace .. 2 * SeqSpace - 1
      BY <1>1, <3>1
    <3> HIDE DEF x
    <3>3. x % SeqSpace = x - SeqSpace
      BY <1>1, <3>2, ModOf
    <3>4. x - SeqSpace = a + n - SeqSpace
      BY <1>1 DEF x
    <3> QED BY <2>2, <3>3, <3>4 DEF x
  <2> QED BY <2>1, <2>2
<1> QED BY <1>2, <1>3, <1>4

LEMMA MinusOf ==
    ASSUME NEW a \in SeqNums, NEW b \in Int
    PROVE  /\ Minus(a, b) \in SeqNums
           /\ b \in SeqNums => Minus(a, b) = IF a >= b THEN a - b ELSE a - b + SeqSpace
<1>1. SeqSpace \in Nat \ {0} /\ a - b \in Int /\ a \in 0 .. SeqSpace - 1
  BY Sizes DEF SeqNums
<1>2. Minus(a, b) = (a - b) % SeqSpace
  BY DEF Minus
<1>3. (a - b) % SeqSpace \in SeqNums
  BY <1>1, ModOf DEF SeqNums
<1>4. ASSUME b \in SeqNums
      PROVE  (a - b) % SeqSpace = IF a >= b THEN a - b ELSE a - b + SeqSpace
  <2>1. b \in 0 .. SeqSpace - 1
    BY <1>4 DEF SeqNums
  <2>2. CASE a >= b
    <3>1. a - b \in 0 .. SeqSpace - 1
      BY <1>1, <2>1, <2>2
    <3> QED BY <1>1, <2>2, <3>1, ModOf
  <2>3. CASE ~(a >= b)
    <3>1. a - b \in -SeqSpace .. -1
      BY <1>1, <2>1, <2>3
    <3> QED BY <1>1, <2>3, <3>1, ModOf
  <2> QED BY <2>2, <2>3
<1> QED BY <1>2, <1>3, <1>4

\* Two numbers that are not far behind a third one compare as their distances do.
LEMMA OrderOf ==
    ASSUME NEW r \in SeqNums, NEW x \in SeqNums, NEW y \in SeqNums, NEW w \in Nat, 2 * w < SeqSpace,
           Minus(x, r) <= w, Minus(y, r) <= w
    PROVE  /\ Before(x, y) <=> Minus(x, r) < Minus(y, r)
           /\ After(x, y) <=> Minus(y, r) < Minus(x, r)
           /\ Minus(x, r) <= Minus(y, r) => Minus(y, x) = Minus(y, r) - Minus(x, r)
<1>1. /\ SeqSpace \in Nat /\ r \in 0 .. SeqSpace - 1 /\ x \in 0 .. SeqSpace - 1 /\ y \in 0 .. SeqSpace - 1
      /\ SeqNums \subseteq Int
  BY Sizes DEF SeqNums
<1>2. /\ Minus(x, r) = IF x >= r THEN x - r ELSE x - r + SeqSpace
      /\ Minus(y, r) = IF y >= r THEN y - r ELSE y - r + SeqSpace
      /\ Minus(x, y) = IF x >= y THEN x - y ELSE x - y + SeqSpace
      /\ Minus(y, x) = IF y >= x THEN y - x ELSE y - x + SeqSpace
  BY <1>1, MinusOf
<1>3. Before(x, y) <=> Minus(x, r) < Minus(y, r)
  BY <1>1, <1>2 DEF Before
<1>4. After(x, y) <=> Minus(y, r) < Minus(x, r)
  BY <1>1, <1>2, <1>3 DEF After
<1>5. Minus(x, r) <= Minus(y, r) => Minus(y, x) = Minus(y, r) - Minus(x, r)
  BY <1>1, <1>2
<1> QED BY <1>3, <1>4, <1>5

-----------------------------------------------------------------------------
(* The values of a socket *)

SocketFields ==
    {"used", "owned", "state", "iss", "irs", "sndUna", "sndNxt", "sndUser",
     "sndWnd", "maxSndWnd", "sndWl1", "sndWl2", "rcvNxt", "rcvUser", "rcvWnd",
     "cwnd", "congestState", "recover", "dupAckCount", "queue",
     "retransmitTimer", "retransmitCount", "probing", "wndProbeCount",
     "sackBlock", "synQueue", "txBuffer", "rxBuffer", "closedFlag",
     "resetFlag", "eventMask", "eventFlags", "event", "out", "nic"}

Segments ==
    [flags: SUBSET Flags, seq: SeqNums, ack: SeqNums, wnd: 0 .. RxBufferSize,
     data: {d \in Seq(Nat) : Len(d) <= Mss}]

Blocks == [left: SeqNums, right: SeqNums]
Buffers == {Released} \cup [0 .. TxBufferSize - 1 -> Nat]
Requests == [src: Hosts, isn: SeqNums]

Offset(s, x) == Minus(x, s.rcvNxt)

Interval(s, b) ==
    Offset(s, b.left) <= Offset(s, b.right) /\ Offset(s, b.right) <= s.rcvWnd

Clear(s, a, b) ==
    \/ Offset(s, a.right) < Offset(s, b.left)
    \/ Offset(s, b.right) < Offset(s, a.left)

\* The blocks received out of order are in the window, at least low numbers
\* behind rcvNxt, and do not touch each other.
Apart(s, low) ==
    LET b == s.sackBlock
    IN  /\ \A i \in 1 .. Len(b) : low <= Offset(s, b[i].left) /\ Interval(s, b[i])
        /\ \A i, j \in 1 .. Len(b) : i # j => Clear(s, b[i], b[j])

SendOK(s) ==
    /\ s.iss \in SeqNums /\ s.sndUna \in SeqNums /\ s.sndNxt \in SeqNums
    /\ s.sndWl1 \in SeqNums /\ s.sndWl2 \in SeqNums /\ s.recover \in SeqNums
    /\ s.sndUser \in 0 .. TxBufferSize
    /\ s.sndWnd \in 0 .. RxBufferSize /\ s.maxSndWnd \in 0 .. RxBufferSize
    /\ s.cwnd \in Nat
    /\ s.congestState \in {"IDLE", "RECOVERY", "LOSS_RECOVERY"}
    /\ s.dupAckCount \in 0 .. FastRetransmitThres
    /\ s.retransmitCount \in 0 .. MaxRetries
    /\ s.wndProbeCount \in 0 .. MaxRetries
    /\ s.queue \in Seq(Headers)
    /\ s.txBuffer \in Buffers
    /\ s.out \in Seq(Segments)
    /\ s.nic \in Nics

ReceiveOK(s) ==
    /\ s.irs \in SeqNums /\ s.rcvNxt \in SeqNums
    /\ s.rcvUser \in Nat /\ s.rcvWnd \in Nat
    /\ s.rcvUser + s.rcvWnd <= RxBufferSize
    /\ s.sackBlock \in Seq(Blocks) /\ Len(s.sackBlock) <= MaxSackBlocks

\* What each state knows of the blocks.
BlocksOK(s) ==
    /\ s.state = "SYN_SENT" => s.sackBlock = <<>>
    /\ s.state \in {"SYN_RECEIVED", "ESTABLISHED"} => Apart(s, 1)
    /\ s.state \in {"CLOSE_WAIT", "FIN_WAIT_1", "FIN_WAIT_2"} => Apart(s, 0)

WaitOK(s) ==
    /\ DOMAIN s = SocketFields
    /\ s.state \in States
    /\ s.synQueue \in Seq(Requests) /\ Len(s.synQueue) <= SynQueueSize
    /\ s.eventMask \subseteq Events /\ s.eventFlags \subseteq s.eventMask

Loose(s) == SendOK(s) /\ ReceiveOK(s) /\ WaitOK(s)

\* tcpCheckAck leaves the bound of cwnd and restores it at its end; when a FIN
\* counts the blocks are not those of the state that is about to be left.
Bounded(s) == Loose(s) /\ s.cwnd <= TxBufferSize

Fit(s) == Bounded(s) /\ BlocksOK(s)

\* The two sides of a socket; t may differ from s in the other.
SameSender(s, t) ==
    /\ DOMAIN t = DOMAIN s
    /\ t.iss = s.iss /\ t.sndUna = s.sndUna /\ t.sndNxt = s.sndNxt
    /\ t.sndWl1 = s.sndWl1 /\ t.sndWl2 = s.sndWl2 /\ t.recover = s.recover
    /\ t.sndUser = s.sndUser
    /\ t.sndWnd = s.sndWnd /\ t.maxSndWnd = s.maxSndWnd
    /\ t.cwnd = s.cwnd /\ t.congestState = s.congestState
    /\ t.dupAckCount = s.dupAckCount
    /\ t.retransmitCount = s.retransmitCount
    /\ t.wndProbeCount = s.wndProbeCount
    /\ t.queue = s.queue /\ t.txBuffer = s.txBuffer
    /\ t.out = s.out /\ t.nic = s.nic

SameBlocks(s, t) ==
    t.rcvNxt = s.rcvNxt /\ t.rcvWnd = s.rcvWnd /\ t.sackBlock = s.sackBlock

SameReceiver(s, t) ==
    /\ SameBlocks(s, t)
    /\ t.irs = s.irs /\ t.rcvUser = s.rcvUser

SameWaiter(s, t) ==
    /\ DOMAIN t = DOMAIN s
    /\ t.state = s.state /\ t.synQueue = s.synQueue
    /\ t.eventMask = s.eventMask /\ t.eventFlags = s.eventFlags

LEMMA SameSenderOK ==
    ASSUME NEW s, NEW t, SendOK(s), SameSender(s, t)
    PROVE  SendOK(t)
BY DEF SendOK, SameSender

LEMMA SameBlocksApart ==
    ASSUME NEW s, NEW t, SameBlocks(s, t), NEW low
    PROVE  Apart(t, low) <=> Apart(s, low)
BY DEF SameBlocks, Apart, Interval, Clear, Offset

LEMMA SameReceiverOK ==
    ASSUME NEW s, NEW t, SameReceiver(s, t)
    PROVE  /\ ReceiveOK(s) => ReceiveOK(t)
           /\ t.state = s.state /\ BlocksOK(s) => BlocksOK(t)
<1>1. (Apart(t, 1) <=> Apart(s, 1)) /\ (Apart(t, 0) <=> Apart(s, 0))
  BY SameBlocksApart DEF SameReceiver
<1> QED BY <1>1 DEF ReceiveOK, BlocksOK, SameReceiver, SameBlocks

LEMMA SameWaiterOK ==
    ASSUME NEW s, NEW t, WaitOK(s), SameWaiter(s, t)
    PROVE  WaitOK(t)
BY DEF WaitOK, SameWaiter

LEMMA UnusedFits ==
    /\ DOMAIN Unused = SocketFields
    /\ Fit(Unused) /\ Unused.state = "CLOSED" /\ Unused.sackBlock = <<>>
    /\ Unused.eventMask = {} /\ Unused.out = <<>> /\ Unused.nic = "up"
<1>1. DOMAIN Unused = SocketFields
  BY DEF Unused, SocketFields
<1>2. /\ Unused.state = "CLOSED" /\ Unused.sackBlock = <<>>
      /\ Unused.eventMask = {} /\ Unused.out = <<>> /\ Unused.nic = "up"
      /\ Unused.cwnd = 0
  BY DEF Unused
<1>3. SendOK(Unused)
  <2>1. [i \in 0 .. TxBufferSize - 1 |-> 0] \in [0 .. TxBufferSize - 1 -> Nat]
    OBVIOUS
  <2>2. 0 \in SeqNums
    BY Sizes DEF SeqNums
  <2> QED BY <2>1, <2>2, Sizes DEF SendOK, Unused, Nics, Buffers, FastRetransmitThres
<1>4. ReceiveOK(Unused)
  BY Sizes DEF ReceiveOK, Unused, SeqNums
<1>6. BlocksOK(Unused)
  BY DEF BlocksOK, Unused
<1>5. WaitOK(Unused)
  BY <1>1, Sizes DEF WaitOK, Unused, States
<1> QED BY <1>1, <1>2, <1>3, <1>4, <1>5, <1>6, Sizes DEF Fit, Bounded, Loose
-----------------------------------------------------------------------------
(* Events and buffers *)

LEMMA UpdateEventsFits ==
    ASSUME NEW s, Loose(s)
    PROVE  LET t == UpdateEvents(s)
           IN  /\ Loose(t) /\ t.cwnd = s.cwnd /\ t.state = s.state
               /\ SameSender(s, t) /\ SameReceiver(s, t)
               /\ t.eventMask = s.eventMask
<1> DEFINE t == UpdateEvents(s)
<1>1. DOMAIN s = SocketFields
  BY DEF Loose, WaitOK
<1>2. SameSender(s, t)
  BY <1>1 DEF UpdateEvents, SameSender, SocketFields
<1>3. SameReceiver(s, t)
  BY <1>1 DEF UpdateEvents, SameReceiver, SameBlocks, SocketFields
<1>4. /\ t.state = s.state /\ t.synQueue = s.synQueue
      /\ t.eventMask = s.eventMask /\ DOMAIN t = DOMAIN s
      /\ t.eventFlags = EventsOf(s) \cap s.eventMask
  BY <1>1 DEF UpdateEvents, SocketFields
<1> HIDE DEF t
<1>5. SendOK(t) /\ ReceiveOK(t)
  BY <1>2, <1>3, <1>4, SameSenderOK, SameReceiverOK DEF Loose
<1>6. WaitOK(t)
  BY <1>4 DEF Loose, WaitOK
<1>7. t.cwnd = s.cwnd
  BY <1>2 DEF SameSender
<1> QED BY <1>2, <1>3, <1>4, <1>5, <1>6, <1>7 DEF Loose, t

\* The state a socket may enter depends on what it has received.
MayEnter(s, newState) ==
    /\ newState \in States
    /\ newState = "SYN_SENT" => s.sackBlock = <<>>
    /\ newState \in {"SYN_RECEIVED", "ESTABLISHED"} => Apart(s, 1)
    /\ newState \in {"CLOSE_WAIT", "FIN_WAIT_1", "FIN_WAIT_2"} => Apart(s, 0)

LEMMA ChangeStateFits ==
    ASSUME NEW s, Loose(s), NEW newState, MayEnter(s, newState)
    PROVE  LET t == ChangeState(s, newState)
           IN  /\ Loose(t) /\ BlocksOK(t) /\ t.cwnd = s.cwnd /\ t.state = newState
               /\ SameSender(s, t) /\ SameReceiver(s, t)
               /\ t.eventMask = s.eventMask
<1> DEFINE proper == s.state \in {"LAST_ACK", "TIME_WAIT"}
           r == [s EXCEPT !.closedFlag = @ \/ (newState = "CLOSED" /\ proper),
                          !.resetFlag = @ \/ (newState = "CLOSED" /\ ~proper),
                          !.state = newState]
<1>1. DOMAIN s = SocketFields
  BY DEF Loose, WaitOK
<1>2. SameSender(s, r)
  BY <1>1 DEF SameSender, SocketFields
<1>3. SameReceiver(s, r)
  BY <1>1 DEF SameReceiver, SameBlocks, SocketFields
<1>4. /\ r.state = newState /\ r.synQueue = s.synQueue
      /\ r.eventMask = s.eventMask /\ r.eventFlags = s.eventFlags
      /\ DOMAIN r = DOMAIN s
  BY <1>1 DEF SocketFields
<1>5. ChangeState(s, newState) = UpdateEvents(r)
  BY DEF ChangeState
<1> HIDE DEF r
<1>6. SendOK(r)
  BY <1>2, SameSenderOK DEF Loose
<1>7. WaitOK(r)
  BY <1>4 DEF Loose, WaitOK, MayEnter
<1>8. ReceiveOK(r) /\ BlocksOK(r)
  <2>1. (Apart(r, 1) <=> Apart(s, 1)) /\ (Apart(r, 0) <=> Apart(s, 0))
    BY <1>3, SameBlocksApart DEF SameReceiver
  <2> QED BY <1>3, <1>4, <2>1 DEF Loose, ReceiveOK, BlocksOK, MayEnter, SameReceiver, SameBlocks
<1>9. Loose(r)
  BY <1>6, <1>7, <1>8 DEF Loose
<1> DEFINE t == UpdateEvents(r)
<1>10. /\ Loose(t) /\ t.cwnd = r.cwnd /\ t.state = r.state
       /\ SameSender(r, t) /\ SameReceiver(r, t) /\ t.eventMask = r.eventMask
  BY <1>9, UpdateEventsFits
<1> HIDE DEF t
<1>11. SameSender(s, t) /\ SameReceiver(s, t)
  BY <1>2, <1>3, <1>10 DEF SameSender, SameReceiver, SameBlocks
<1>12. t.cwnd = s.cwnd
  BY <1>11 DEF SameSender
<1>13. BlocksOK(t)
  BY <1>8, <1>10, SameReceiverOK
<1> QED BY <1>4, <1>5, <1>10, <1>11, <1>12, <1>13 DEF t

LEMMA BufferSize ==
    ASSUME NEW buffer \in [0 .. TxBufferSize - 1 -> Nat]
    PROVE  Cardinality(DOMAIN buffer) = TxBufferSize
<1>1. Cardinality(0 .. TxBufferSize - 1) = TxBufferSize
  BY Sizes, FS_Interval
<1> QED BY <1>1

LEMMA ReadBufferOf ==
    ASSUME NEW buffer \in Buffers, NEW origin \in SeqNums, NEW seqNum \in SeqNums,
           NEW length \in Nat
    PROVE  LET d == ReadBuffer(buffer, origin, seqNum, length)
           IN  d \in Seq(Nat) /\ Len(d) = length
<1> DEFINE d == ReadBuffer(buffer, origin, seqNum, length)
           start == Minus(seqNum, Plus(origin, 1))
<1>1. d \in [1 .. length -> Nat]
  <2>1. CASE buffer = Released
    BY <2>1 DEF ReadBuffer
  <2>2. CASE buffer # Released
    <3>1. buffer \in [0 .. TxBufferSize - 1 -> Nat]
      BY <2>2 DEF Buffers
    <3>2. d = [k \in 1 .. length |-> buffer[(start + k - 1) % TxBufferSize]]
      BY <2>2, <3>1, BufferSize DEF ReadBuffer
    <3>3. start \in Int
      BY PlusOf, MinusOf DEF SeqNums
    <3> HIDE DEF start
    <3>4. ASSUME NEW k \in 1 .. length
          PROVE  (start + k - 1) % TxBufferSize \in 0 .. TxBufferSize - 1
      <4>1. start + k - 1 \in Int /\ TxBufferSize \in Nat \ {0}
        BY <3>3, Sizes
      <4> QED BY <4>1, ModOf
    <3> QED BY <3>1, <3>2, <3>4
  <2> QED BY <2>1, <2>2
<1> HIDE DEF d
<1>2. d \in Seq(Nat) /\ Len(d) = length
  BY <1>1
<1> QED BY <1>2 DEF d

LEMMA WriteBufferOf ==
    ASSUME NEW buffer \in Buffers, NEW origin \in SeqNums, NEW seqNum \in SeqNums,
           NEW data \in Seq(Nat)
    PROVE  WriteBuffer(buffer, origin, seqNum, data) \in Buffers
<1>1. CASE buffer = Released
  BY <1>1 DEF WriteBuffer, Buffers
<1>2. CASE buffer # Released
  <2> DEFINE start == Minus(seqNum, Plus(origin, 1))
             t == [i \in 0 .. TxBufferSize - 1 |->
                    LET k == (i - start) % TxBufferSize
                    IN  IF k < Len(data) THEN data[k + 1] ELSE buffer[i]]
  <2>1. buffer \in [0 .. TxBufferSize - 1 -> Nat]
    BY <1>2 DEF Buffers
  <2>2. WriteBuffer(buffer, origin, seqNum, data) = t
    BY <1>2, <2>1, BufferSize DEF WriteBuffer
  <2>3. start \in Int
    BY PlusOf, MinusOf DEF SeqNums
  <2> HIDE DEF start
  <2>4. ASSUME NEW i \in 0 .. TxBufferSize - 1
        PROVE  (i - start) % TxBufferSize \in Nat
    <3>1. i - start \in Int /\ TxBufferSize \in Nat \ {0}
      BY <2>3, Sizes
    <3> QED BY <3>1, ModOf
  <2>5. ASSUME NEW i \in 0 .. TxBufferSize - 1, NEW k \in Nat
        PROVE  (IF k < Len(data) THEN data[k + 1] ELSE buffer[i]) \in Nat
    BY <2>1
  <2>6. t \in [0 .. TxBufferSize - 1 -> Nat]
    BY <2>4, <2>5
  <2> QED BY <2>2, <2>6 DEF Buffers
<1> QED BY <1>1, <1>2

-----------------------------------------------------------------------------
(* Recursion up to a number *)

LEMMA UpTo ==
    ASSUME NEW n \in Nat, NEW T, 0 \in T, \A i \in 1 .. n : i - 1 \in T => i \in T
    PROVE  0 .. n \subseteq T
<1> DEFINE Missing == {i \in 0 .. n : i \notin T}
<1>1. ASSUME Missing # {}
      PROVE  FALSE
  <2>1. Missing \subseteq Nat
    OBVIOUS
  <2>2. PICK c \in Missing : \A k \in Missing : ~ (<<k, c>> \in OpToRel(<, Nat))
    BY <1>1, <2>1, WFMin, NatLessThanWellFounded, Zenon
  <2>3. ASSUME NEW k \in Missing
        PROVE  ~(k < c)
    <3> DEFINE p == <<k, c>>
    <3>1. p \in Nat \X Nat /\ p[1] = k /\ p[2] = c
      OBVIOUS
    <3>2. p \notin OpToRel(<, Nat)
      BY <2>2
    <3> HIDE DEF p
    <3> QED BY <3>1, <3>2 DEF OpToRel
  <2>4. c \in 1 .. n
    OBVIOUS
  <2>5. c - 1 \in T
    BY <2>3, <2>4
  <2> QED BY <2>4, <2>5
<1> QED BY <1>1

\* F is defined by recursion up to n.
Recurs(F, n, start, step) ==
    F[0] = start /\ \A i \in 1 .. n : F[i] = step[i][F[i - 1]]

LEMMA RecursionOf ==
    ASSUME NEW n \in Nat, NEW S, NEW start \in S, NEW step \in [1 .. n -> [S -> S]]
    PROVE  \E F \in [0 .. n -> S] : Recurs(F, n, start, step)
<1> USE DEF Recurs
<1> DEFINE Fits(F, m) == Recurs(F, m, start, step)
           T == {m \in 0 .. n : \E F \in [0 .. m -> S] : Fits(F, m)}
<1>1. 0 \in T
  <2> DEFINE F == [i \in 0 .. 0 |-> start]
  <2>1. F \in [0 .. 0 -> S] /\ F[0] = start
    OBVIOUS
  <2> HIDE DEF F
  <2>2. \E G \in [0 .. 0 -> S] : Fits(G, 0)
    BY <2>1
  <2> QED BY <2>2
<1>2. ASSUME NEW m \in 1 .. n, m - 1 \in T
      PROVE  m \in T
  <2>1. PICK F \in [0 .. m - 1 -> S] : Fits(F, m - 1)
    BY <1>2
  <2> DEFINE G == [i \in 0 .. m |-> IF i = m THEN step[m][F[m - 1]] ELSE F[i]]
  <2>2. F[m - 1] \in S /\ step[m][F[m - 1]] \in S
    OBVIOUS
  <2>3. G \in [0 .. m -> S]
    BY <2>2
  <2>4. G[0] = start
    BY <2>1
  <2>5. \A i \in 1 .. m : G[i] = step[i][G[i - 1]]
    BY <2>1
  <2> HIDE DEF G
  <2>6. \E F1 \in [0 .. m -> S] : Fits(F1, m)
    BY <2>3, <2>4, <2>5
  <2>7. m \in 0 .. n
    OBVIOUS
  <2> HIDE DEF Fits
  <2> QED BY <2>6, <2>7
<1> HIDE DEF T
<1>3. \A i \in 1 .. n : i - 1 \in T => i \in T
  BY <1>2
<1>4. n \in 0 .. n
  OBVIOUS
<1>5. n \in T
  BY <1>1, <1>3, <1>4, UpTo
<1> QED BY <1>5 DEF T

-----------------------------------------------------------------------------
(* Sending *)

LEMMA HeaderOf ==
    ASSUME NEW s, s.rcvWnd \in 0 .. RxBufferSize, NEW flags \in SUBSET Flags,
           NEW seqNum \in SeqNums, NEW ackNum \in SeqNums, NEW length \in 0 .. Mss
    PROVE  Header(s, flags, seqNum, ackNum, length) \in Headers
<1>1. 0 \in SeqNums
  BY Sizes DEF SeqNums
<1> QED BY <1>1 DEF Header, Headers

LEMMA SegmentOf ==
    ASSUME NEW s, s.txBuffer \in Buffers, s.iss \in SeqNums, NEW header \in Headers
    PROVE  Segment(s, header) \in Segments
<1>1. header.seq \in SeqNums /\ header.length \in Nat /\ header.length <= Mss
  BY Sizes DEF Headers
<1>2. /\ ReadBuffer(s.txBuffer, s.iss, header.seq, header.length) \in Seq(Nat)
      /\ Len(ReadBuffer(s.txBuffer, s.iss, header.seq, header.length)) <= Mss
  BY <1>1, ReadBufferOf
<1> QED BY <1>2 DEF Segment, Segments, Headers

\* What an operation of the sending side leaves alone.
SameRest(s, t) == SameReceiver(s, t) /\ SameWaiter(s, t)

LEMMA SameRestFits ==
    ASSUME NEW s, NEW t, Loose(s), SendOK(t), SameRest(s, t)
    PROVE  Loose(t) /\ (BlocksOK(s) => BlocksOK(t))
BY SameReceiverOK, SameWaiterOK DEF Loose, SameRest, SameWaiter

LEMMA SameRestOfSame ==
    ASSUME NEW s, NEW t, NEW u, SameRest(s, t), SameRest(t, u)
    PROVE  SameRest(s, u)
BY DEF SameRest, SameReceiver, SameBlocks, SameWaiter

LEMMA SendSegmentFits ==
    ASSUME NEW s, Loose(s), NEW flags \in SUBSET Flags, NEW seqNum \in SeqNums,
           NEW ackNum \in SeqNums, NEW length \in 0 .. Mss, NEW addToQueue \in BOOLEAN
    PROVE  LET t == SendSegment(s, flags, seqNum, ackNum, length, addToQueue)
           IN  Loose(t) /\ SameRest(s, t) /\ t.cwnd = s.cwnd
<1> DEFINE t == SendSegment(s, flags, seqNum, ackNum, length, addToQueue)
           h == Header(s, flags, seqNum, ackNum, length)
<1>1. DOMAIN s = SocketFields
  BY DEF Loose, WaitOK
<1>2. h \in Headers /\ Segment(s, h) \in Segments
  <2>1. s.rcvWnd \in 0 .. RxBufferSize
    BY Sizes DEF Loose, ReceiveOK
  <2> QED BY <2>1, HeaderOf, SegmentOf DEF Loose, SendOK
<1> HIDE DEF h
<1>3. CASE s.nic = "memory"
  BY <1>3 DEF SendSegment, SameRest, SameReceiver, SameBlocks, SameWaiter
<1>4. CASE s.nic # "memory"
  <2> DEFINE starts == addToQueue /\ ~s.retransmitTimer
  <2>1. t = [s EXCEPT !.queue = IF addToQueue THEN Append(@, h) ELSE @,
                      !.retransmitTimer = @ \/ addToQueue,
                      !.retransmitCount = IF starts THEN 0 ELSE @,
                      !.out = IF Fails(s) THEN @ ELSE Append(@, Segment(s, h))]
    BY <1>4 DEF SendSegment, h
  <2> HIDE DEF t
  <2>2. SameRest(s, t) /\ t.cwnd = s.cwnd
    BY <1>1, <2>1 DEF SameRest, SameReceiver, SameBlocks, SameWaiter, SocketFields
  <2>3. /\ t.queue = IF addToQueue THEN Append(s.queue, h) ELSE s.queue
        /\ t.retransmitCount = IF starts THEN 0 ELSE s.retransmitCount
        /\ t.out = IF Fails(s) THEN s.out ELSE Append(s.out, Segment(s, h))
    BY <1>1, <2>1 DEF SocketFields
  <2>4. /\ t.iss = s.iss /\ t.sndUna = s.sndUna /\ t.sndNxt = s.sndNxt
        /\ t.sndWl1 = s.sndWl1 /\ t.sndWl2 = s.sndWl2 /\ t.recover = s.recover
        /\ t.sndUser = s.sndUser
        /\ t.sndWnd = s.sndWnd /\ t.maxSndWnd = s.maxSndWnd
        /\ t.congestState = s.congestState
        /\ t.dupAckCount = s.dupAckCount
        /\ t.wndProbeCount = s.wndProbeCount
        /\ t.txBuffer = s.txBuffer /\ t.nic = s.nic
    BY <1>1, <2>1 DEF SocketFields
  <2> HIDE DEF starts
  <2>5. /\ t.queue \in Seq(Headers) /\ t.out \in Seq(Segments)
        /\ t.retransmitCount \in 0 .. MaxRetries
    <3>1. s.queue \in Seq(Headers) /\ s.out \in Seq(Segments)
      BY DEF Loose, SendOK
    <3>2. Append(s.queue, h) \in Seq(Headers) /\ Append(s.out, Segment(s, h)) \in Seq(Segments)
      BY <1>2, <3>1, AppendProperties
    <3>3. 0 \in 0 .. MaxRetries /\ s.retransmitCount \in 0 .. MaxRetries
      BY Sizes DEF Loose, SendOK
    <3> QED BY <2>3, <3>1, <3>2, <3>3
  <2>6. SendOK(t)
    BY <2>2, <2>4, <2>5 DEF Loose, SendOK
  <2> QED BY <2>2, <2>6, SameRestFits DEF t
<1> QED BY <1>3, <1>4

LEMMA SendAckFits ==
    ASSUME NEW s, Loose(s)
    PROVE  LET t == SendAck(s) IN Loose(t) /\ SameRest(s, t) /\ t.cwnd = s.cwnd
<1> DEFINE ack == {"ACK"}
           seqNum == s.sndNxt
           ackNum == s.rcvNxt
           none == 0
           queued == FALSE
           t == SendSegment(s, ack, seqNum, ackNum, none, queued)
<1>1. seqNum \in SeqNums /\ ackNum \in SeqNums /\ none \in 0 .. Mss
  BY Sizes DEF Loose, SendOK, ReceiveOK
<1>2. ack \in SUBSET Flags /\ queued \in BOOLEAN
  BY DEF Flags
<1>3. SendAck(s) = t
  BY DEF SendAck
<1> HIDE DEF ack, seqNum, ackNum, none, queued
<1>4. Loose(t) /\ SameRest(s, t) /\ t.cwnd = s.cwnd
  BY <1>1, <1>2, SendSegmentFits
<1> QED BY <1>3, <1>4

LEMMA RetransmitSegmentFits ==
    ASSUME NEW s, Loose(s)
    PROVE  LET t == RetransmitSegment(s)
           IN  /\ Loose(t) /\ SameRest(s, t) /\ t.cwnd = s.cwnd
               /\ t.congestState = s.congestState
               /\ t.retransmitCount = s.retransmitCount
<1> DEFINE dataUpTo[k \in 0 .. Len(s.queue)] ==
               IF k = 0 THEN 0 ELSE dataUpTo[k - 1] + s.queue[k].length
           sent == {k \in DOMAIN s.queue : dataUpTo[k] <= Mss}
           resent == [k \in 1 .. Cardinality(sent) |-> Segment(s, s.queue[k])]
           t == [s EXCEPT !.out = @ \o resent]
<1>1. RetransmitSegment(s) = IF Fails(s) THEN s ELSE t
  BY DEF RetransmitSegment
<1> HIDE DEF dataUpTo
<1>2. s.queue \in Seq(Headers) /\ DOMAIN s.queue = 1 .. Len(s.queue)
  BY DEF Loose, SendOK
<1>3. Cardinality(sent) \in Nat /\ Cardinality(sent) <= Len(s.queue)
  <2>1. /\ IsFiniteSet(1 .. Len(s.queue))
        /\ Cardinality(1 .. Len(s.queue)) = Len(s.queue)
    BY <1>2, FS_Interval
  <2>2. sent \in SUBSET (1 .. Len(s.queue))
    BY <1>2
  <2> HIDE DEF sent
  <2> QED BY <2>1, <2>2, FS_Subset, FS_CardinalityType
<1> HIDE DEF sent
<1>4. resent \in Seq(Segments)
  <2>1. \A k \in 1 .. Cardinality(sent) : Segment(s, s.queue[k]) \in Segments
    BY <1>2, <1>3, SegmentOf DEF Loose, SendOK
  <2> QED BY <1>3, <2>1
<1> HIDE DEF resent
<1>5. s.out \o resent \in Seq(Segments)
  BY <1>4, ConcatProperties DEF Loose, SendOK
<1>6. DOMAIN s = SocketFields
  BY DEF Loose, WaitOK
<1>7. SendOK(t)
  BY <1>5, <1>6 DEF Loose, SendOK, SocketFields
<1>8. /\ SameRest(s, t) /\ t.cwnd = s.cwnd /\ t.congestState = s.congestState
      /\ t.retransmitCount = s.retransmitCount
  BY <1>6 DEF SameRest, SameReceiver, SameBlocks, SameWaiter, SocketFields
<1> HIDE DEF t
<1>9. Loose(t)
  BY <1>7, <1>8, SameRestFits
<1> QED BY <1>1, <1>8, <1>9 DEF SameRest, SameReceiver, SameBlocks, SameWaiter

IsIn(e, seq) == \E j \in 1 .. Len(seq) : seq[j] = e

LEMMA IsInAppend ==
    ASSUME NEW S, NEW seq \in Seq(S), NEW e \in S
    PROVE  /\ IsIn(e, Append(seq, e))
           /\ \A d : IsIn(d, seq) => IsIn(d, Append(seq, e))
<1>1. /\ Len(Append(seq, e)) = Len(seq) + 1 /\ Len(seq) \in Nat
      /\ Append(seq, e)[Len(seq) + 1] = e
      /\ \A j \in 1 .. Len(seq) : Append(seq, e)[j] = seq[j]
  BY AppendProperties
<1> QED BY <1>1 DEF IsIn

\* The recursive function of PendingSegments.
LEMMA PendingOf ==
    ASSUME NEW S, NEW s, s.queue \in Seq(S)
    PROVE  /\ PendingSegments(s) \in Seq(S)
           /\ \A k \in 1 .. Len(s.queue) :
                Pending(s, s.queue[k]) => IsIn(s.queue[k], PendingSegments(s))
<1> DEFINE n == Len(s.queue)
           H == Seq(S)
           step == [i \in 1 .. n |-> [q \in H |->
                        IF Pending(s, s.queue[i]) THEN Append(q, s.queue[i]) ELSE q]]
           pending[i \in 0 .. Len(s.queue)] ==
               IF i = 0 THEN <<>>
               ELSE IF Pending(s, s.queue[i]) THEN Append(pending[i - 1], s.queue[i])
               ELSE pending[i - 1]
<1>1. PendingSegments(s) = pending[n]
  BY DEF PendingSegments
<1>2. n \in Nat /\ <<>> \in H /\ \A i \in 1 .. n : s.queue[i] \in S
  OBVIOUS
<1>3. step \in [1 .. n -> [H -> H]]
  <2>1. ASSUME NEW i \in 1 .. n, NEW q \in H
        PROVE  (IF Pending(s, s.queue[i]) THEN Append(q, s.queue[i]) ELSE q) \in H
    BY <1>2, AppendProperties
  <2> HIDE DEF n, H
  <2> QED BY <2>1
<1> DEFINE Unfolded(f) ==
               [i \in 0 .. Len(s.queue) |->
                    IF i = 0 THEN <<>>
                    ELSE IF Pending(s, s.queue[i]) THEN Append(f[i - 1], s.queue[i])
                    ELSE f[i - 1]]
<1>4. \E f : f = Unfolded(f)
  <2> HIDE DEF step, H
  <2> DEFINE start == <<>>
  <2>1. n \in Nat /\ start \in H
    BY <1>2
  <2> HIDE DEF n, start
  <2>2. PICK f \in [0 .. n -> H] : Recurs(f, n, start, step)
    BY <1>3, <2>1, RecursionOf
  <2> USE DEF n, start, Recurs
  <2>3. ASSUME NEW i \in 1 .. n
        PROVE  f[i] = IF Pending(s, s.queue[i]) THEN Append(f[i - 1], s.queue[i])
                      ELSE f[i - 1]
    <3>1. f[i] = step[i][f[i - 1]] /\ f[i - 1] \in H
      BY <2>2
    <3> QED BY <3>1 DEF step
  <2>4. \A i \in 0 .. n : f[i] = Unfolded(f)[i]
    BY <1>2, <2>2, <2>3
  <2>5. DOMAIN f = 0 .. n /\ f = [i \in 0 .. n |-> f[i]]
    OBVIOUS
  <2>6. f = Unfolded(f)
    BY <2>4, <2>5
  <2> QED BY <2>6
<1>5. pending = Unfolded(pending)
  BY <1>4
<1>6. ASSUME NEW i \in 0 .. n
      PROVE  pending[i] = IF i = 0 THEN <<>>
                          ELSE IF Pending(s, s.queue[i])
                          THEN Append(pending[i - 1], s.queue[i])
                          ELSE pending[i - 1]
  <2> HIDE DEF pending
  <2>1. Unfolded(pending)[i] = IF i = 0 THEN <<>>
                               ELSE IF Pending(s, s.queue[i])
                               THEN Append(pending[i - 1], s.queue[i])
                               ELSE pending[i - 1]
    OBVIOUS
  <2> HIDE DEF Unfolded
  <2> QED BY <1>5, <2>1
<1> HIDE DEF pending, step
<1> DEFINE Kept(i) ==
               \A k \in 1 .. i : Pending(s, s.queue[k]) => IsIn(s.queue[k], pending[i])
           T == {i \in 0 .. n : pending[i] \in H /\ Kept(i)}
<1>7. 0 \in T
  <2>1. 0 \in 0 .. n
    BY <1>2
  <2>2. pending[0] = <<>>
    BY <1>6, <2>1
  <2>3. Kept(0)
    OBVIOUS
  <2> QED BY <1>2, <2>1, <2>2, <2>3
<1>8. ASSUME NEW i \in 1 .. n, i - 1 \in T
      PROVE  i \in T
  <2>1. pending[i - 1] \in H /\ s.queue[i] \in S /\ Kept(i - 1)
    BY <1>2, <1>8
  <2>2. pending[i] = IF Pending(s, s.queue[i]) THEN Append(pending[i - 1], s.queue[i])
                     ELSE pending[i - 1]
    BY <1>2, <1>6
  <2>3. i \in 0 .. n
    BY <1>2
  <2>4. pending[i] \in H
    BY <2>1, <2>2, AppendProperties
  <2>5. ASSUME NEW k \in 1 .. i, Pending(s, s.queue[k])
        PROVE  IsIn(s.queue[k], pending[i])
    <3> DEFINE q == pending[i - 1]
    <3>1. q \in Seq(S)
      BY <2>1
    <3>2. /\ IsIn(s.queue[i], Append(q, s.queue[i]))
          /\ \A d : IsIn(d, q) => IsIn(d, Append(q, s.queue[i]))
      <4> HIDE DEF q
      <4> QED BY <2>1, <3>1, IsInAppend
    <3>3. CASE k = i
      BY <2>2, <2>5, <3>2, <3>3
    <3>4. CASE k # i
      <4>1. k \in 1 .. i - 1
        BY <1>2, <3>4
      <4>2. IsIn(s.queue[k], q)
        BY <2>1, <2>5, <4>1
      <4> QED BY <2>2, <3>2, <4>2
    <3> QED BY <3>3, <3>4
  <2>6. Kept(i)
    BY <2>5
  <2> QED BY <2>3, <2>4, <2>6
<1> HIDE DEF T
<1>9. n \in T
  <2>1. \A i \in 1 .. n : i - 1 \in T => i \in T
    BY <1>8
  <2>2. 0 .. n \subseteq T
    BY <1>2, <1>7, <2>1, UpTo
  <2> QED BY <1>2, <2>2
<1>10. pending[n] \in H /\ Kept(n)
  BY <1>9 DEF T
<1> QED BY <1>1, <1>10

LEMMA UpdateRetransmitQueueFits ==
    ASSUME NEW s, Loose(s)
    PROVE  LET t == UpdateRetransmitQueue(s)
           IN  /\ Loose(t) /\ SameRest(s, t) /\ t.cwnd = s.cwnd
               /\ t.sndUna = s.sndUna /\ t.iss = s.iss
<1> DEFINE rest == PendingSegments(s)
           t == UpdateRetransmitQueue(s)
<1>1. DOMAIN s = SocketFields
  BY DEF Loose, WaitOK
<1>2. rest \in Seq(Headers)
  BY PendingOf DEF Loose, SendOK
<1> HIDE DEF rest
<1>3. t = [s EXCEPT !.queue = rest,
                    !.retransmitTimer = rest # <<>> /\ (@ \/ rest # s.queue),
                    !.retransmitCount = IF rest # s.queue THEN 0 ELSE @]
  BY DEF UpdateRetransmitQueue, rest
<1> HIDE DEF t
<1>4. SendOK(t)
  BY <1>1, <1>2, <1>3, Sizes DEF Loose, SendOK, SocketFields
<1>5. SameRest(s, t) /\ t.cwnd = s.cwnd /\ t.sndUna = s.sndUna /\ t.iss = s.iss
  BY <1>1, <1>3 DEF SameRest, SameReceiver, SameBlocks, SameWaiter, SocketFields
<1> QED BY <1>4, <1>5, SameRestFits DEF t

\* How the segments of one turn cut the data.
LEMMA CutAtMss ==
    ASSUME NEW amount \in 1 .. TxBufferSize
    PROVE  LET count == (amount + Mss - 1) \div Mss
           IN  /\ count \in 1 .. 2
               /\ amount <= count * Mss
               /\ \A i \in 1 .. count :
                    /\ (i - 1) * Mss \in Int
                    /\ Least(Mss, amount - (i - 1) * Mss) \in 1 .. Mss
<1> DEFINE count == (amount + Mss - 1) \div Mss
<1>1. Mss \in Nat /\ Mss >= 1 /\ TxBufferSize \in Nat /\ TxBufferSize <= 2 * Mss
  BY Sizes
<1>2. count \in Int /\ Mss * count <= amount + Mss - 1 /\ amount + Mss - 1 < Mss * (count + 1)
  <2> DEFINE x == amount + Mss - 1
  <2>1. x \in Int /\ Mss \in Nat \ {0}
    BY <1>1
  <2> HIDE DEF x
  <2>2. x \div Mss \in Int /\ Mss * (x \div Mss) <= x /\ x < Mss * ((x \div Mss) + 1)
    BY <2>1
  <2> QED BY <2>2 DEF x
<1> HIDE DEF count
<1>3. count = 1 \/ count = 2
  <2>1. CASE count <= 0
    <3>1. Mss * (count + 1) <= Mss
      BY <1>1, <1>2, <2>1
    <3> QED BY <1>1, <1>2, <3>1
  <2>2. CASE count >= 3
    <3>1. Mss * count >= 3 * Mss
      BY <1>1, <1>2, <2>2
    <3> QED BY <1>1, <1>2, <3>1
  <2> QED BY <1>2, <2>1, <2>2
<1>4. amount <= count * Mss
  BY <1>1, <1>2, <1>3
<1>5. ASSUME NEW i \in 1 .. count
      PROVE  /\ (i - 1) * Mss \in Int
             /\ Least(Mss, amount - (i - 1) * Mss) \in 1 .. Mss
  <2>1. CASE i = 1
    <3>1. (i - 1) * Mss = 0
      BY <1>1, <2>1
    <3> QED BY <1>1, <3>1 DEF Least
  <2>2. CASE i = 2
    <3>1. (i - 1) * Mss = Mss /\ count = 2
      BY <1>1, <1>3, <2>2
    <3>2. amount > Mss
      BY <1>1, <1>2, <3>1
    <3> QED BY <1>1, <3>1, <3>2 DEF Least
  <2> QED BY <1>3, <2>1, <2>2
<1> QED BY <1>3, <1>4, <1>5 DEF count

LEMMA SendDataFits ==
    ASSUME NEW s, Loose(s), NEW amount \in Int, amount <= s.sndUser
    PROVE  LET t == SendData(s, amount)
           IN  Loose(t) /\ SameRest(s, t) /\ t.cwnd = s.cwnd
<1> DEFINE count == (amount + Mss - 1) \div Mss
           Data(i) == Header(s, {"ACK"}, Plus(s.sndNxt, (i - 1) * Mss), s.rcvNxt,
                             Least(Mss, amount - (i - 1) * Mss))
           headers == [i \in 1 .. count |-> Data(i)]
           segments == [i \in 1 .. count |-> Segment(s, Data(i))]
           t == SendData(s, amount)
<1>1. DOMAIN s = SocketFields
  BY DEF Loose, WaitOK
<1>2. {"ACK"} \in SUBSET Flags /\ s.sndNxt \in SeqNums /\ s.rcvNxt \in SeqNums
  BY DEF Flags, Loose, SendOK, ReceiveOK
<1>3. CASE amount <= 0
  BY <1>3 DEF SendData, SameRest, SameReceiver, SameBlocks, SameWaiter
<1>4. CASE ~(amount <= 0) /\ Fails(s)
  <2>1. t = SendSegment(s, {"ACK"}, s.sndNxt, s.rcvNxt, Least(Mss, amount), TRUE)
    BY <1>4 DEF SendData
  <2> DEFINE length == Least(Mss, amount)
             flags == {"ACK"}
             yes == TRUE
             seqNum == s.sndNxt
             ackNum == s.rcvNxt
             u == SendSegment(s, flags, seqNum, ackNum, length, yes)
  <2>2. length \in 0 .. Mss
    BY <1>4, Sizes DEF Least
  <2>3. /\ flags \in SUBSET Flags /\ yes \in BOOLEAN
        /\ seqNum \in SeqNums /\ ackNum \in SeqNums
    BY <1>2
  <2> HIDE DEF length, flags, yes, seqNum, ackNum
  <2>4. Loose(u) /\ SameRest(s, u) /\ u.cwnd = s.cwnd
    BY <2>2, <2>3, SendSegmentFits
  <2> HIDE DEF u
  <2>5. t = u
    BY <2>1 DEF u, length, flags, yes, seqNum, ackNum
  <2> QED BY <2>4, <2>5
<1>5. CASE ~(amount <= 0) /\ ~Fails(s)
  <2>1. amount \in 1 .. TxBufferSize
    <3>1. s.sndUser \in 0 .. TxBufferSize
      BY DEF Loose, SendOK
    <3> QED BY <1>5, <3>1, Sizes
  <2>2. /\ count \in 1 .. 2
        /\ \A i \in 1 .. count : /\ (i - 1) * Mss \in Int
                                 /\ Least(Mss, amount - (i - 1) * Mss) \in 1 .. Mss
    BY <2>1, CutAtMss
  <2>3. t = [s EXCEPT !.queue = @ \o headers,
                      !.retransmitTimer = TRUE,
                      !.retransmitCount = IF s.retransmitTimer THEN @ ELSE 0,
                      !.out = @ \o segments,
                      !.sndNxt = Plus(@, amount),
                      !.sndUser = @ - amount]
    BY <1>5 DEF SendData
  <2> HIDE DEF t, count
  <2>4. ASSUME NEW i \in 1 .. count
        PROVE  Data(i) \in Headers /\ Segment(s, Data(i)) \in Segments
    <3>1. s.rcvWnd \in 0 .. RxBufferSize
      BY Sizes DEF Loose, ReceiveOK
    <3>2. Plus(s.sndNxt, (i - 1) * Mss) \in SeqNums
      BY <1>2, <2>2, PlusOf
    <3>3. Least(Mss, amount - (i - 1) * Mss) \in 0 .. Mss
      BY <2>2, Sizes
    <3>4. Data(i) \in Headers
      BY <1>2, <3>1, <3>2, <3>3, HeaderOf
    <3> HIDE DEF Data
    <3> QED BY <3>4, SegmentOf DEF Loose, SendOK
  <2> HIDE DEF Data
  <2>5. headers \in Seq(Headers) /\ segments \in Seq(Segments)
    BY <2>2, <2>4
  <2> HIDE DEF headers, segments
  <2>6. s.queue \o headers \in Seq(Headers) /\ s.out \o segments \in Seq(Segments)
    BY <2>5, ConcatProperties DEF Loose, SendOK
  <2>7. Plus(s.sndNxt, amount) \in SeqNums /\ s.sndUser - amount \in 0 .. TxBufferSize
    <3>1. Plus(s.sndNxt, amount) \in SeqNums
      BY <1>2, PlusOf
    <3>2. s.sndUser \in 0 .. TxBufferSize
      BY DEF Loose, SendOK
    <3> QED BY <2>1, <3>1, <3>2, Sizes
  <2>8. /\ t.queue \in Seq(Headers) /\ t.out \in Seq(Segments)
        /\ t.sndNxt \in SeqNums /\ t.sndUser \in 0 .. TxBufferSize
        /\ t.retransmitCount \in 0 .. MaxRetries
    <3>1. t.retransmitCount \in {0, s.retransmitCount}
      BY <1>1, <2>3 DEF SocketFields
    <3>2. t.retransmitCount \in 0 .. MaxRetries
      <4>1. s.retransmitCount \in 0 .. MaxRetries
        BY DEF Loose, SendOK
      <4>2. 0 \in 0 .. MaxRetries
        BY Sizes
      <4> QED BY <3>1, <4>1, <4>2
    <3> QED BY <1>1, <2>3, <2>6, <2>7, <3>2 DEF SocketFields
  <2>9. /\ t.iss = s.iss /\ t.sndUna = s.sndUna
        /\ t.sndWl1 = s.sndWl1 /\ t.sndWl2 = s.sndWl2 /\ t.recover = s.recover
        /\ t.sndWnd = s.sndWnd /\ t.maxSndWnd = s.maxSndWnd
        /\ t.cwnd = s.cwnd /\ t.congestState = s.congestState
        /\ t.dupAckCount = s.dupAckCount
        /\ t.wndProbeCount = s.wndProbeCount
        /\ t.txBuffer = s.txBuffer /\ t.nic = s.nic
    BY <1>1, <2>3 DEF SocketFields
  <2>10. SendOK(t)
    BY <2>8, <2>9 DEF Loose, SendOK
  <2>11. SameRest(s, t)
    BY <1>1, <2>3 DEF SameRest, SameReceiver, SameBlocks, SameWaiter, SocketFields
  <2> QED BY <2>9, <2>10, <2>11, SameRestFits DEF t
<1> QED BY <1>3, <1>4, <1>5

\* What may be sent now is at most what the user has written.
LEMMA NagleAmountOf ==
    ASSUME NEW s, Loose(s), NEW noDelay
    PROVE  NagleAmount(s, noDelay) \in Int /\ NagleAmount(s, noDelay) <= s.sndUser
<1> DEFINE most == Least(s.sndUser, UsableWindow(s))
           full == Mss * (most \div Mss)
<1>1. s.sndUser \in Nat /\ s.sndWnd \in Nat /\ s.cwnd \in Nat /\ InFlight(s) \in Int
  <2>1. s.sndNxt \in SeqNums /\ s.sndUna \in SeqNums /\ SeqNums \subseteq Int
    BY DEF Loose, SendOK, SeqNums
  <2>2. InFlight(s) \in Int
    BY <2>1, MinusOf DEF InFlight
  <2> QED BY <2>2, Sizes DEF Loose, SendOK
<1>2. UsableWindow(s) \in Int
  BY <1>1, Sizes DEF UsableWindow, Least
<1>3. most \in Int /\ most <= s.sndUser
  BY <1>1, <1>2 DEF Least
<1>4. NagleAmount(s, noDelay) \in {IF most <= 0 THEN 0 ELSE most, IF most <= 0 THEN 0 ELSE full}
  BY DEF NagleAmount
<1> HIDE DEF most
<1>5. full \in Int /\ full <= most
  BY <1>3, Sizes
<1> HIDE DEF full
<1> QED BY <1>1, <1>3, <1>4, <1>5

LEMMA NagleAlgoFits ==
    ASSUME NEW s, Fit(s), NEW noDelay
    PROVE  LET t == NagleAlgo(s, noDelay)
           IN  /\ Fit(t) /\ SameReceiver(s, t) /\ t.state = s.state
               /\ t.eventMask = s.eventMask
<1> DEFINE amount == NagleAmount(s, noDelay)
           r == SendData(s, amount)
<1>1. Loose(r) /\ SameRest(s, r) /\ r.cwnd = s.cwnd
  BY NagleAmountOf, SendDataFits DEF Fit, Bounded
<1>2. NagleAlgo(s, noDelay) \in {r, UpdateEvents(r)}
  BY DEF NagleAlgo
<1> HIDE DEF r
<1>3. /\ Loose(UpdateEvents(r)) /\ UpdateEvents(r).cwnd = r.cwnd
      /\ UpdateEvents(r).state = r.state
      /\ SameReceiver(r, UpdateEvents(r))
      /\ UpdateEvents(r).eventMask = r.eventMask
  BY <1>1, UpdateEventsFits
<1> DEFINE t == NagleAlgo(s, noDelay)
<1>4. Loose(t) /\ SameReceiver(s, t) /\ t.state = s.state
      /\ t.eventMask = s.eventMask /\ t.cwnd = s.cwnd
  BY <1>1, <1>2, <1>3 DEF SameRest, SameReceiver, SameBlocks, SameWaiter
<1> HIDE DEF t
<1>5. Fit(t)
  BY <1>4, SameReceiverOK DEF Fit, Bounded
<1> QED BY <1>4, <1>5 DEF t

-----------------------------------------------------------------------------
(* Acknowledgments *)

LEMMA SegmentFields ==
    ASSUME NEW seg \in Segments
    PROVE  /\ seg.flags \subseteq Flags /\ seg.seq \in SeqNums /\ seg.ack \in SeqNums
           /\ seg.wnd \in 0 .. RxBufferSize
           /\ seg.data \in Seq(Nat) /\ Len(seg.data) \in Nat /\ Len(seg.data) <= Mss
<1>1. seg.data \in Seq(Nat) /\ Len(seg.data) <= Mss
  BY DEF Segments
<1> QED BY <1>1 DEF Segments

LEMMA UpdateSendWindowFits ==
    ASSUME NEW s, Loose(s), NEW seg \in Segments
    PROVE  LET t == UpdateSendWindow(s, seg)
           IN  /\ Loose(t) /\ SameRest(s, t) /\ t.cwnd = s.cwnd
               /\ t.sndUna = s.sndUna /\ t.iss = s.iss
<1> DEFINE closes == /\ ~(seg.seq = s.sndWl1 /\ seg.ack = s.sndWl2)
                     /\ seg.wnd = 0 /\ s.sndWnd > 0
           t == [s EXCEPT !.sndWnd = seg.wnd, !.sndWl1 = seg.seq,
                          !.sndWl2 = seg.ack,
                          !.maxSndWnd = Most(@, seg.wnd),
                          !.probing = @ \/ closes,
                          !.wndProbeCount = IF closes THEN 0 ELSE @]
<1>1. UpdateSendWindow(s, seg) \in {s, t}
  BY DEF UpdateSendWindow
<1> HIDE DEF closes
<1>2. DOMAIN s = SocketFields
  BY DEF Loose, WaitOK
<1>3. Most(s.maxSndWnd, seg.wnd) \in 0 .. RxBufferSize
  BY SegmentFields DEF Most, Loose, SendOK
<1>4. SendOK(t)
  BY <1>2, <1>3, SegmentFields, Sizes DEF Loose, SendOK, SocketFields
<1>5. SameRest(s, t) /\ t.cwnd = s.cwnd /\ t.sndUna = s.sndUna /\ t.iss = s.iss
  BY <1>2 DEF SameRest, SameReceiver, SameBlocks, SameWaiter, SocketFields
<1> HIDE DEF t
<1>6. Loose(t)
  BY <1>4, <1>5, SameRestFits
<1> QED BY <1>1, <1>5, <1>6 DEF SameRest, SameReceiver, SameBlocks, SameWaiter

LEMMA InitSendWindowFits ==
    ASSUME NEW s, Loose(s), NEW seg \in Segments
    PROVE  LET t == InitSendWindow(s, seg)
           IN  Loose(t) /\ SameRest(s, t) /\ t.cwnd = s.cwnd
<1> DEFINE t == InitSendWindow(s, seg)
<1>1. DOMAIN s = SocketFields
  BY DEF Loose, WaitOK
<1>2. SendOK(t)
  BY <1>1, SegmentFields DEF InitSendWindow, Loose, SendOK, SocketFields
<1>3. SameRest(s, t) /\ t.cwnd = s.cwnd
  BY <1>1 DEF InitSendWindow, SameRest, SameReceiver, SameBlocks, SameWaiter, SocketFields
<1> HIDE DEF t
<1>4. Loose(t)
  BY <1>2, <1>3, SameRestFits
<1> QED BY <1>3, <1>4 DEF t

\* The congestion control sets fields of the sending side only.
LEMMA CongestionFits ==
    ASSUME NEW s, Loose(s), NEW cwnd \in Nat, NEW recover \in SeqNums,
           NEW congestState \in {"IDLE", "RECOVERY", "LOSS_RECOVERY"}
    PROVE  LET t == [s EXCEPT !.recover = recover, !.cwnd = cwnd,
                              !.congestState = congestState]
           IN  /\ Loose(t) /\ SameRest(s, t) /\ t.cwnd = cwnd
               /\ t.retransmitCount = s.retransmitCount
<1> DEFINE t == [s EXCEPT !.recover = recover, !.cwnd = cwnd,
                          !.congestState = congestState]
<1>1. DOMAIN s = SocketFields
  BY DEF Loose, WaitOK
<1>2. SendOK(t)
  BY <1>1 DEF Loose, SendOK, SocketFields
<1>3. SameRest(s, t) /\ t.cwnd = cwnd /\ t.retransmitCount = s.retransmitCount
  BY <1>1 DEF SameRest, SameReceiver, SameBlocks, SameWaiter, SocketFields
<1> HIDE DEF t
<1>4. Loose(t)
  BY <1>2, <1>3, SameRestFits
<1> QED BY <1>3, <1>4 DEF t

LEMMA CwndFits ==
    ASSUME NEW s, Loose(s), NEW cwnd \in Nat
    PROVE  LET t == [s EXCEPT !.cwnd = cwnd]
           IN  Loose(t) /\ SameRest(s, t) /\ t.cwnd = cwnd
<1> DEFINE t == [s EXCEPT !.cwnd = cwnd]
<1>1. DOMAIN s = SocketFields
  BY DEF Loose, WaitOK
<1>2. SendOK(t)
  BY <1>1 DEF Loose, SendOK, SocketFields
<1>3. SameRest(s, t) /\ t.cwnd = cwnd
  BY <1>1 DEF SameRest, SameReceiver, SameBlocks, SameWaiter, SocketFields
<1> HIDE DEF t
<1>4. Loose(t)
  BY <1>2, <1>3, SameRestFits
<1> QED BY <1>3, <1>4 DEF t

LEMMA CongestStateFits ==
    ASSUME NEW s, Loose(s)
    PROVE  LET t == [s EXCEPT !.congestState = "IDLE"]
           IN  Loose(t) /\ SameRest(s, t)
<1> DEFINE t == [s EXCEPT !.congestState = "IDLE"]
<1>1. DOMAIN s = SocketFields
  BY DEF Loose, WaitOK
<1>2. SendOK(t)
  BY <1>1 DEF Loose, SendOK, SocketFields
<1>3. SameRest(s, t)
  BY <1>1 DEF SameRest, SameReceiver, SameBlocks, SameWaiter, SocketFields
<1> HIDE DEF t
<1>4. Loose(t)
  BY <1>2, <1>3, SameRestFits
<1> QED BY <1>3, <1>4 DEF t

LEMMA CutCwndFits ==
    ASSUME NEW s, Loose(s)
    PROVE  Bounded(CutCwnd(s)) /\ SameRest(s, CutCwnd(s))
<1> DEFINE cwnd == Least(s.cwnd, TxBufferSize)
<1>1. cwnd \in Nat /\ cwnd <= TxBufferSize
  BY Sizes DEF Least, Loose, SendOK
<1>2. CutCwnd(s) = [s EXCEPT !.cwnd = cwnd]
  BY DEF CutCwnd
<1> HIDE DEF cwnd
<1> QED BY <1>1, <1>2, CwndFits DEF Fit, Bounded

LEMMA FastRecoveryFits ==
    ASSUME NEW s, Loose(s), NEW seg, NEW n \in Nat
    PROVE  Loose(FastRecovery(s, seg, n)) /\ SameRest(s, FastRecovery(s, seg, n))
<1>1. CASE After(seg.ack, s.recover)
  <2> DEFINE r == [s EXCEPT !.cwnd = TxBufferSize]
             t == [r EXCEPT !.congestState = "IDLE"]
  <2>1. FastRecovery(s, seg, n) = t
    BY <1>1 DEF FastRecovery
  <2>2. Loose(r) /\ SameRest(s, r)
    BY CwndFits, Sizes
  <2> HIDE DEF r
  <2>3. Loose(t) /\ SameRest(r, t)
    BY <2>2, CongestStateFits
  <2> HIDE DEF t
  <2> QED BY <2>1, <2>2, <2>3, SameRestOfSame
<1>2. CASE ~After(seg.ack, s.recover)
  <2> DEFINE t == RetransmitSegment(s)
             deflated == IF t.cwnd > n THEN t.cwnd - n ELSE t.cwnd
             cwnd == deflated + (IF n >= Mss THEN Mss ELSE 0)
  <2>1. FastRecovery(s, seg, n) = [t EXCEPT !.cwnd = cwnd]
    BY <1>2 DEF FastRecovery
  <2>2. Loose(t) /\ SameRest(s, t)
    BY RetransmitSegmentFits
  <2> HIDE DEF t
  <2>3. t.cwnd \in Nat
    BY <2>2 DEF Loose, SendOK
  <2>4. cwnd \in Nat
    BY <2>3, Sizes
  <2> HIDE DEF cwnd
  <2> DEFINE u == [t EXCEPT !.cwnd = cwnd]
  <2>5. Loose(u) /\ SameRest(t, u)
    BY <2>2, <2>4, CwndFits
  <2> HIDE DEF u
  <2> QED BY <2>1, <2>2, <2>5, SameRestOfSame DEF u
<1> QED BY <1>1, <1>2

LEMMA SameRestSelf ==
    ASSUME NEW s
    PROVE  SameRest(s, s)
BY DEF SameRest, SameReceiver, SameBlocks, SameWaiter

LEMMA FastLossRecoveryFits ==
    ASSUME NEW s, Loose(s), NEW seg
    PROVE  Loose(FastLossRecovery(s, seg)) /\ SameRest(s, FastLossRecovery(s, seg))
<1> DEFINE t == [s EXCEPT !.congestState = "IDLE"]
<1>1. FastLossRecovery(s, seg) \in {t, RetransmitSegment(s)}
  BY DEF FastLossRecovery
<1>2. Loose(t) /\ SameRest(s, t)
  BY CongestStateFits
<1> HIDE DEF t
<1> QED BY <1>1, <1>2, RetransmitSegmentFits

LEMMA DupAckCountFits ==
    ASSUME NEW s, Loose(s), NEW count \in 0 .. FastRetransmitThres
    PROVE  LET t == [s EXCEPT !.dupAckCount = count]
           IN  Loose(t) /\ SameRest(s, t) /\ t.cwnd = s.cwnd /\ t.sndNxt = s.sndNxt
<1> DEFINE t == [s EXCEPT !.dupAckCount = count]
<1>1. DOMAIN s = SocketFields
  BY DEF Loose, WaitOK
<1>2. SendOK(t)
  BY <1>1 DEF Loose, SendOK, SocketFields
<1>3. SameRest(s, t) /\ t.cwnd = s.cwnd /\ t.sndNxt = s.sndNxt
  BY <1>1 DEF SameRest, SameReceiver, SameBlocks, SameWaiter, SocketFields
<1> HIDE DEF t
<1>4. Loose(t)
  BY <1>2, <1>3, SameRestFits
<1> QED BY <1>3, <1>4 DEF t

LEMMA AckNewDataFits ==
    ASSUME NEW s, Loose(s), NEW seg \in Segments, After(seg.ack, s.sndUna)
    PROVE  Bounded(AckNewData(s, seg)) /\ SameRest(s, AckNewData(s, seg))
<1> DEFINE n == Minus(seg.ack, s.sndUna) - (IF s.sndUna = s.iss THEN 1 ELSE 0)
           r == [s EXCEPT !.sndUna = seg.ack]
           t == UpdateRetransmitQueue(r)
           u == [t EXCEPT !.dupAckCount = 0]
           v == IF s.congestState = "LOSS_RECOVERY" THEN FastLossRecovery(u, seg) ELSE u
           w == [v EXCEPT !.cwnd = @ + Least(n, Mss)]
           x == IF s.congestState = "RECOVERY" THEN FastRecovery(t, seg, n) ELSE w
<1>1. AckNewData(s, seg) = CutCwnd(x)
  BY DEF AckNewData
<1>2. n \in Nat
  <2>1. /\ seg.ack \in SeqNums /\ s.sndUna \in SeqNums
        /\ seg.ack \in Nat /\ s.sndUna \in Nat
    <3>1. seg.ack \in SeqNums /\ s.sndUna \in SeqNums
      BY SegmentFields DEF Loose, SendOK
    <3> QED BY <3>1, SeqNumsAreNats
  <2>2. Minus(seg.ack, s.sndUna) = IF seg.ack >= s.sndUna THEN seg.ack - s.sndUna
                                   ELSE seg.ack - s.sndUna + SeqSpace
    BY <2>1, MinusOf
  <2>3. seg.ack # s.sndUna
    BY DEF After
  <2> QED BY <2>1, <2>2, <2>3, Sizes DEF SeqNums
<1>3. Loose(r) /\ SameRest(s, r)
  <2>1. DOMAIN s = SocketFields
    BY DEF Loose, WaitOK
  <2>2. SendOK(r)
    BY <2>1, SegmentFields DEF Loose, SendOK, SocketFields
  <2>3. SameRest(s, r)
    BY <2>1 DEF SameRest, SameReceiver, SameBlocks, SameWaiter, SocketFields
  <2> HIDE DEF r
  <2> QED BY <2>2, <2>3, SameRestFits
<1> HIDE DEF r, n
<1>4. Loose(t) /\ SameRest(r, t)
  BY <1>3, UpdateRetransmitQueueFits
<1> HIDE DEF t
<1>5. Loose(u) /\ SameRest(t, u)
  <2>1. 0 \in 0 .. FastRetransmitThres
    BY DEF FastRetransmitThres
  <2> QED BY <1>4, <2>1, DupAckCountFits
<1> HIDE DEF u
<1>6. Loose(v) /\ SameRest(u, v)
  BY <1>5, FastLossRecoveryFits, SameRestSelf
<1> HIDE DEF v
<1>7. Loose(w) /\ SameRest(v, w)
  <2> DEFINE cwnd == v.cwnd + Least(n, Mss)
  <2>1. cwnd \in Nat
    <3>1. v.cwnd \in Nat
      BY <1>6 DEF Loose, SendOK
    <3>2. Least(n, Mss) \in Nat
      BY <1>2, Sizes DEF Least
    <3> QED BY <3>1, <3>2
  <2>2. w = [v EXCEPT !.cwnd = cwnd]
    OBVIOUS
  <2> HIDE DEF cwnd, w
  <2> QED BY <1>6, <2>1, <2>2, CwndFits
<1> HIDE DEF w
<1>8. Loose(x) /\ SameRest(t, x)
  <2>1. SameRest(t, w)
    BY <1>5, <1>6, <1>7, SameRestOfSame
  <2>2. Loose(FastRecovery(t, seg, n)) /\ SameRest(t, FastRecovery(t, seg, n))
    BY <1>2, <1>4, FastRecoveryFits
  <2> QED BY <1>7, <2>1, <2>2
<1> HIDE DEF x
<1>9. Bounded(CutCwnd(x)) /\ SameRest(x, CutCwnd(x))
  BY <1>8, CutCwndFits
<1>10. SameRest(s, CutCwnd(x))
  BY <1>3, <1>4, <1>8, <1>9, SameRestOfSame
<1> QED BY <1>1, <1>9, <1>10

LEMMA AckOldDataFits ==
    ASSUME NEW s, Loose(s), NEW seg, NEW duplicate
    PROVE  Bounded(AckOldData(s, seg, duplicate)) /\ SameRest(s, AckOldData(s, seg, duplicate))
<1> DEFINE count == IF duplicate THEN Least(s.dupAckCount + 1, FastRetransmitThres) ELSE 0
           t == [s EXCEPT !.dupAckCount = count]
           lossLikely == /\ t.dupAckCount >= DupAckThreshold(t)
                         /\ After(seg.ack, Plus(t.recover, 1))
           r == [t EXCEPT !.recover = Minus(t.sndNxt, 1),
                          !.cwnd = TxBufferSize,
                          !.congestState = "RECOVERY"]
           grown == [t EXCEPT !.cwnd = t.cwnd + Mss]
           x == IF s.congestState = "IDLE" /\ lossLikely THEN RetransmitSegment(r)
                ELSE IF s.congestState = "RECOVERY" /\ duplicate THEN grown
                ELSE t
<1>1. AckOldData(s, seg, duplicate) = CutCwnd(x)
  <2>1. t = [s EXCEPT !.dupAckCount =
                IF duplicate THEN Least(@ + 1, FastRetransmitThres) ELSE 0]
    BY DEF Loose, WaitOK
  <2>2. grown = [t EXCEPT !.cwnd = @ + Mss]
    OBVIOUS
  <2>3. FastRetransmit(t) = RetransmitSegment(r)
    BY DEF FastRetransmit
  <2> HIDE DEF t, grown, r
  <2> QED BY <2>1, <2>2, <2>3 DEF AckOldData
<1>2. count \in 0 .. FastRetransmitThres
  BY DEF Least, Loose, SendOK, FastRetransmitThres
<1> HIDE DEF count
<1>3. Loose(t) /\ SameRest(s, t)
  BY <1>2, DupAckCountFits
<1> HIDE DEF t, lossLikely
<1>4. t.cwnd + Mss \in Nat /\ Minus(t.sndNxt, 1) \in SeqNums /\ TxBufferSize \in Nat
  <2>1. t.cwnd \in Nat /\ t.sndNxt \in SeqNums
    BY <1>3 DEF Loose, SendOK
  <2>2. Minus(t.sndNxt, 1) \in SeqNums
    BY <2>1, MinusOf
  <2> QED BY <2>1, <2>2, Sizes
<1>5. Loose(grown) /\ SameRest(t, grown)
  BY <1>3, <1>4, CwndFits
<1>6. Loose(r) /\ SameRest(t, r)
  <2> DEFINE recover == Minus(t.sndNxt, 1)
             congestState == "RECOVERY"
  <2> HIDE DEF recover, congestState
  <2>1. recover \in SeqNums /\ congestState \in {"IDLE", "RECOVERY", "LOSS_RECOVERY"}
    BY <1>4 DEF recover, congestState
  <2>2. r = [t EXCEPT !.recover = recover, !.cwnd = TxBufferSize,
                      !.congestState = congestState]
    BY DEF recover, congestState
  <2> HIDE DEF r
  <2> QED BY <1>3, <1>4, <2>1, <2>2, CongestionFits
<1> HIDE DEF grown, r
<1>7. Loose(RetransmitSegment(r)) /\ SameRest(r, RetransmitSegment(r))
  BY <1>6, RetransmitSegmentFits
<1>8. Loose(x) /\ SameRest(t, x)
  BY <1>3, <1>5, <1>6, <1>7, SameRestOfSame, SameRestSelf
<1> HIDE DEF x
<1>9. Bounded(CutCwnd(x)) /\ SameRest(x, CutCwnd(x))
  BY <1>8, CutCwndFits
<1>10. SameRest(s, CutCwnd(x))
  BY <1>3, <1>8, <1>9, SameRestOfSame
<1> QED BY <1>1, <1>9, <1>10

\* What a step of the net task changes only of what it sends and signals.
Keeps(s, t) ==
    /\ SameReceiver(s, t) /\ t.state = s.state /\ t.eventMask = s.eventMask

LEMMA CheckAckFits ==
    ASSUME NEW s, Fit(s), NEW seg \in Segments
    PROVE  Fit(CheckAck(s, seg)) /\ Keeps(s, CheckAck(s, seg))
<1> DEFINE t == UpdateSendWindow(s, seg)
           x == IF After(seg.ack, s.sndUna) THEN AckNewData(t, seg)
                ELSE AckOldData(t, seg, IsDuplicateAck(s, seg))
<1>1. CheckAck(s, seg) = IF Before(seg.ack, s.sndUna) THEN s ELSE UpdateEvents(x)
  BY DEF CheckAck
<1>2. Loose(t) /\ SameRest(s, t) /\ t.sndUna = s.sndUna
  BY UpdateSendWindowFits DEF Fit, Bounded
<1> HIDE DEF t
<1>3. Bounded(x) /\ SameRest(t, x)
  BY <1>2, AckNewDataFits, AckOldDataFits
<1> HIDE DEF x
<1>4. SameRest(s, x)
  BY <1>2, <1>3, SameRestOfSame
<1>5. /\ Loose(UpdateEvents(x)) /\ UpdateEvents(x).cwnd = x.cwnd
      /\ UpdateEvents(x).state = x.state /\ SameReceiver(x, UpdateEvents(x))
      /\ UpdateEvents(x).eventMask = x.eventMask
  BY <1>3, UpdateEventsFits DEF Fit, Bounded
<1>6. Fit(UpdateEvents(x)) /\ Keeps(s, UpdateEvents(x))
  <2>1. Keeps(s, UpdateEvents(x))
    BY <1>4, <1>5 DEF Keeps, SameRest, SameReceiver, SameBlocks, SameWaiter
  <2> QED BY <1>3, <1>5, <2>1, SameReceiverOK DEF Fit, Bounded, Keeps
<1> QED BY <1>1, <1>6 DEF Keeps, SameReceiver, SameBlocks

LEMMA SendAckKeeps ==
    ASSUME NEW s, Fit(s)
    PROVE  Fit(SendAck(s)) /\ Keeps(s, SendAck(s))
BY SendAckFits, SameReceiverOK DEF Fit, Bounded, Keeps, SameRest, SameWaiter

LEMMA KeepsSelf ==
    ASSUME NEW s
    PROVE  Keeps(s, s)
BY DEF Keeps, SameReceiver, SameBlocks

LEMMA KeepsOfKeeps ==
    ASSUME NEW s, NEW t, NEW u, Keeps(s, t), Keeps(t, u)
    PROVE  Keeps(s, u)
BY DEF Keeps, SameReceiver, SameBlocks

LEMMA RefuseAckFits ==
    ASSUME NEW s, Fit(s), NEW seg
    PROVE  Fit(RefuseAck(s, seg)) /\ Keeps(s, RefuseAck(s, seg))
BY SendAckKeeps, KeepsSelf DEF RefuseAck

\* The connection is over, or nothing but what is sent and signalled changed.
Ends(s, t) ==
    /\ SameReceiver(s, t) /\ t.eventMask = s.eventMask
    /\ t.state \in {s.state, "CLOSED"}

LEMMA CloseFits ==
    ASSUME NEW s, Fit(s)
    PROVE  /\ Fit(ChangeState(s, "CLOSED")) /\ Ends(s, ChangeState(s, "CLOSED"))
           /\ ChangeState(s, "CLOSED").state = "CLOSED"
<1>1. MayEnter(s, "CLOSED")
  BY DEF MayEnter, States
<1> QED BY <1>1, ChangeStateFits DEF Fit, Bounded, Ends

LEMMA ResetForSynFits ==
    ASSUME NEW s, Fit(s), NEW seg \in Segments
    PROVE  Fit(ResetForSyn(s, seg)) /\ Keeps(s, ResetForSyn(s, seg))
<1> DEFINE ack == Plus(seg.seq, Len(seg.data) + 1)
           rst == {"RST"}
           rstAck == {"RST", "ACK"}
           none == 0
           new == seg.ack
           no == FALSE
           a == SendSegment(s, rst, new, none, none, no)
           b == SendSegment(s, rstAck, none, ack, none, no)
<1>1. ResetForSyn(s, seg) \in {a, b}
  BY DEF ResetForSyn
<1>2. /\ Loose(s) /\ none \in SeqNums /\ none \in 0 .. Mss
      /\ rst \in SUBSET Flags /\ rstAck \in SUBSET Flags
      /\ new \in SeqNums /\ ack \in SeqNums
  <2>1. rst \in SUBSET Flags /\ rstAck \in SUBSET Flags
    BY DEF Flags
  <2>2. none \in SeqNums /\ none \in 0 .. Mss
    BY Sizes DEF SeqNums
  <2>3. new \in SeqNums /\ ack \in SeqNums
    BY SegmentFields, PlusOf
  <2> QED BY <2>1, <2>2, <2>3 DEF Fit, Bounded
<1>2a. no \in BOOLEAN
  OBVIOUS
<1> HIDE DEF ack, rst, rstAck, none, new, no
<1>3. Loose(a) /\ SameRest(s, a) /\ a.cwnd = s.cwnd
  BY <1>2, <1>2a, SendSegmentFits
<1>4. Loose(b) /\ SameRest(s, b) /\ b.cwnd = s.cwnd
  BY <1>2, <1>2a, SendSegmentFits
<1> HIDE DEF a, b
<1> QED BY <1>1, <1>3, <1>4, SameReceiverOK DEF Fit, Bounded, Keeps, SameRest, SameWaiter

LEMMA RefuseFits ==
    ASSUME NEW s, Fit(s), NEW seg \in Segments
    PROVE  Fit(Refuse(s, seg)) /\ Ends(s, Refuse(s, seg))
<1>1. Refuse(s, seg) \in {s, SendAck(s), ChangeState(s, "CLOSED"), ResetForSyn(s, seg)}
  BY DEF Refuse
<1> QED BY <1>1, SendAckKeeps, CloseFits, ResetForSynFits, KeepsSelf DEF Keeps, Ends

-----------------------------------------------------------------------------
(* Receiving *)

LEMMA MinusOfPlus ==
    ASSUME NEW x \in SeqNums, NEW r \in SeqNums, NEW n \in 0 .. SeqSpace - 1
    PROVE  Minus(Plus(x, n), r) = IF Minus(x, r) + n < SeqSpace THEN Minus(x, r) + n
                                  ELSE Minus(x, r) + n - SeqSpace
<1>1. /\ SeqSpace \in Nat /\ x \in 0 .. SeqSpace - 1 /\ r \in 0 .. SeqSpace - 1
      /\ n \in 0 .. SeqSpace /\ n \in Int /\ SeqNums \subseteq Int
  BY Sizes DEF SeqNums
<1>2. Minus(x, r) = IF x >= r THEN x - r ELSE x - r + SeqSpace
  BY <1>1, MinusOf
<1> DEFINE y == Plus(x, n)
<1>3. y \in SeqNums /\ y = IF x + n < SeqSpace THEN x + n ELSE x + n - SeqSpace
  BY <1>1, PlusOf
<1> HIDE DEF y
<1>4. Minus(y, r) = IF y >= r THEN y - r ELSE y - r + SeqSpace
  BY <1>1, <1>3, MinusOf
<1>5. y \in 0 .. SeqSpace - 1
  BY <1>3 DEF SeqNums
<1>6. Minus(y, r) = IF Minus(x, r) + n < SeqSpace THEN Minus(x, r) + n
                    ELSE Minus(x, r) + n - SeqSpace
  BY <1>1, <1>2, <1>3, <1>4, <1>5
<1> QED BY <1>6 DEF y

LEMMA OffsetsAreNats ==
    ASSUME NEW s, s.rcvNxt \in SeqNums, NEW x \in SeqNums
    PROVE  Offset(s, x) \in Nat /\ Offset(s, x) < SeqSpace
<1>1. Offset(s, x) \in SeqNums
  <2>1. s.rcvNxt \in Nat
    BY SeqNumsAreNats
  <2> QED BY <2>1, MinusOf DEF Offset
<1> QED BY <1>1, Sizes DEF SeqNums

\* The window is a small part of the sequence space.
LEMMA WindowOf ==
    ASSUME NEW s, ReceiveOK(s)
    PROVE  /\ s.rcvNxt \in SeqNums /\ s.rcvNxt \in Nat /\ s.rcvNxt < SeqSpace
           /\ s.rcvWnd \in Nat /\ s.rcvWnd <= RxBufferSize
           /\ 4 * s.rcvWnd < SeqSpace /\ s.rcvWnd \in 0 .. SeqSpace - 1
           /\ Offset(s, s.rcvNxt) = 0
           /\ Offset(s, Plus(s.rcvNxt, s.rcvWnd)) = s.rcvWnd
<1>1. /\ s.rcvNxt \in SeqNums /\ s.rcvNxt \in Nat /\ s.rcvNxt < SeqSpace
      /\ s.rcvWnd \in Nat /\ s.rcvWnd <= RxBufferSize
  BY Sizes DEF ReceiveOK, SeqNums
<1>2. 4 * s.rcvWnd < SeqSpace /\ s.rcvWnd \in 0 .. SeqSpace - 1
  BY <1>1, Sizes
<1>3. Minus(s.rcvNxt, s.rcvNxt) = 0
  BY <1>1, MinusOf
<1>4. Minus(Plus(s.rcvNxt, s.rcvWnd), s.rcvNxt) = s.rcvWnd
  <2> DEFINE r == s.rcvNxt
             w == s.rcvWnd
  <2>1. r \in SeqNums /\ w \in 0 .. SeqSpace - 1 /\ Minus(r, r) = 0 /\ SeqSpace \in Nat
    BY <1>1, <1>2, <1>3, Sizes
  <2> HIDE DEF r, w
  <2>2. Minus(Plus(r, w), r) = w
    BY <2>1, MinusOfPlus
  <2> QED BY <2>2 DEF r, w
<1> QED BY <1>1, <1>2, <1>3, <1>4 DEF Offset

LEMMA InWindowOf ==
    ASSUME NEW s, ReceiveOK(s), NEW x \in SeqNums, InWindow(s, x)
    PROVE  Offset(s, x) < s.rcvWnd
<1> DEFINE o == Offset(s, x)
           limit == Plus(s.rcvNxt, s.rcvWnd)
<1>1. o \in Nat /\ o < SeqSpace /\ 2 * o < SeqSpace
  BY WindowOf, OffsetsAreNats, Sizes DEF InWindow, Before, Offset
<1>2. limit \in SeqNums /\ limit \in Nat /\ Offset(s, limit) = s.rcvWnd
  <2>1. Offset(s, limit) = s.rcvWnd /\ s.rcvNxt \in SeqNums /\ s.rcvWnd \in Int
    BY WindowOf
  <2> QED BY <2>1, PlusOf, SeqNumsAreNats
<1>3. 2 * Minus(x, limit) >= SeqSpace
  BY DEF InWindow, Before
<1> HIDE DEF limit
<1>4. /\ x \in Nat /\ x < SeqSpace /\ limit < SeqSpace /\ SeqSpace \in Nat
      /\ s.rcvNxt \in SeqNums /\ s.rcvNxt \in Nat /\ s.rcvNxt < SeqSpace
      /\ s.rcvWnd \in Nat /\ 4 * s.rcvWnd < SeqSpace
  BY <1>2, WindowOf, Sizes DEF SeqNums
<1>5. Minus(x, limit) = IF x >= limit THEN x - limit ELSE x - limit + SeqSpace
  BY <1>2, <1>4, MinusOf
<1>6. /\ o = IF x >= s.rcvNxt THEN x - s.rcvNxt ELSE x - s.rcvNxt + SeqSpace
      /\ s.rcvWnd = IF limit >= s.rcvNxt THEN limit - s.rcvNxt
                    ELSE limit - s.rcvNxt + SeqSpace
  <2> DEFINE r == s.rcvNxt
  <2>1. r \in SeqNums
    BY <1>4
  <2>2. r \in Int
    BY <1>4
  <2>3. Offset(s, x) = Minus(x, r) /\ s.rcvWnd = Minus(limit, r)
    BY <1>2 DEF Offset
  <2> HIDE DEF r
  <2>4. /\ Minus(x, r) = IF x >= r THEN x - r ELSE x - r + SeqSpace
        /\ Minus(limit, r) = IF limit >= r THEN limit - r ELSE limit - r + SeqSpace
    BY <1>2, <2>1, <2>2, MinusOf
  <2> QED BY <2>3, <2>4 DEF r
<1> HIDE DEF o
<1>7. o < s.rcvWnd
  BY <1>1, <1>2, <1>3, <1>4, <1>5, <1>6
<1> QED BY <1>7 DEF o

\* The data are trimmed to the window.
LEMMA TrimmedToWindow ==
    ASSUME NEW s, ReceiveOK(s), NEW seg \in Segments, seg.data # <<>>,
           Acceptable(s, seg)
    PROVE  LET end == Plus(seg.seq, Len(seg.data))
               limit == Plus(s.rcvNxt, s.rcvWnd)
               left == IF Before(seg.seq, s.rcvNxt) THEN s.rcvNxt ELSE seg.seq
               right == IF After(end, limit) THEN limit ELSE end
           IN  /\ left \in SeqNums /\ right \in SeqNums
               /\ Offset(s, left) <= Offset(s, right) /\ Offset(s, right) <= s.rcvWnd
<1> DEFINE x == seg.seq
           n == Len(seg.data)
           r == s.rcvNxt
           w == s.rcvWnd
           end == Plus(x, n)
           last == Plus(x, n - 1)
           limit == Plus(r, w)
           left == IF Before(x, r) THEN r ELSE x
           right == IF After(end, limit) THEN limit ELSE end
<1>1. /\ x \in SeqNums /\ n \in 1 .. Mss /\ n \in Int /\ n - 1 \in Int
      /\ n \in 0 .. SeqSpace - 1 /\ n - 1 \in 0 .. SeqSpace - 1
  <2>1. /\ seg.data \in Seq(Nat) /\ Len(seg.data) \in Nat /\ Len(seg.data) <= Mss
        /\ seg.seq \in SeqNums
    BY SegmentFields
  <2>2. Len(seg.data) # 0
    BY <2>1
  <2>3. n \in 1 .. Mss
    BY <2>1, <2>2, Sizes
  <2> QED BY <2>1, <2>3, Sizes
<1>2. /\ r \in SeqNums /\ r \in Nat /\ w \in Nat /\ w <= RxBufferSize
      /\ Minus(r, r) = 0 /\ Minus(limit, r) = w
  BY WindowOf DEF Offset
<1>3. (w > 0 /\ InWindow(s, x)) \/ (w > 0 /\ InWindow(s, last))
  BY <1>1 DEF Acceptable
<1>4. end \in SeqNums /\ last \in SeqNums /\ limit \in SeqNums
  <2> DEFINE m == n - 1
  <2>1. m \in Int /\ w \in Int
    BY <1>1, <1>2
  <2> HIDE DEF x, n, r, w, m
  <2>2. end \in SeqNums
    BY <1>1, PlusOf
  <2>3. Plus(x, m) \in SeqNums
    BY <1>1, <2>1, PlusOf
  <2>4. limit \in SeqNums
    BY <1>2, <2>1, PlusOf
  <2> QED BY <2>2, <2>3, <2>4 DEF m
<1>5. InWindow(s, x) => Minus(x, r) < w
  BY <1>1, InWindowOf DEF Offset
<1>6. InWindow(s, last) => Minus(last, r) < w
  BY <1>4, InWindowOf DEF Offset
<1> HIDE DEF x, n, r, w, last, limit
<1>7. /\ SeqSpace \in Nat /\ SeqSpace > 4 * (Mss + RxBufferSize) /\ RxBufferSize \in Nat
      /\ Mss <= RxBufferSize /\ Mss \in Nat
  BY Sizes
<1>8. Minus(x, r) \in Nat /\ Minus(x, r) < SeqSpace
  <2>1. r \in Int
    BY <1>2
  <2>2. Minus(x, r) \in SeqNums
    BY <1>1, <2>1, MinusOf
  <2> HIDE DEF r
  <2> QED BY <1>7, <2>2 DEF SeqNums
<1>9. /\ Minus(end, r) = IF Minus(x, r) + n < SeqSpace THEN Minus(x, r) + n
                         ELSE Minus(x, r) + n - SeqSpace
      /\ Minus(last, r) = IF Minus(x, r) + (n - 1) < SeqSpace THEN Minus(x, r) + (n - 1)
                          ELSE Minus(x, r) + (n - 1) - SeqSpace
  <2> DEFINE m == n - 1
  <2>1. m \in 0 .. SeqSpace - 1 /\ last = Plus(x, m)
    BY <1>1 DEF last
  <2> HIDE DEF m
  <2>2. Minus(last, r) = IF Minus(x, r) + m < SeqSpace THEN Minus(x, r) + m
                         ELSE Minus(x, r) + m - SeqSpace
    BY <1>1, <1>2, <2>1, MinusOfPlus
  <2> QED BY <1>1, <1>2, <2>2, MinusOfPlus DEF m
<1> HIDE DEF end
<1>10. Minus(x, r) < w \/ Minus(last, r) < w
  BY <1>3, <1>5, <1>6
<1>11. left \in SeqNums /\ right \in SeqNums
  BY <1>1, <1>2, <1>4
<1>12. Minus(end, r) <= w + Mss /\ 2 * (w + Mss) < SeqSpace /\ w + Mss \in Nat
  BY <1>1, <1>2, <1>7, <1>8, <1>9, <1>10
<1>13. After(end, limit) <=> w < Minus(end, r)
  <2> DEFINE most == w + Mss
  <2>1. most \in Nat /\ 2 * most < SeqSpace /\ Minus(end, r) <= most /\ Minus(limit, r) <= most
    BY <1>2, <1>7, <1>12
  <2> HIDE DEF most
  <2> QED BY <1>2, <1>4, <2>1, OrderOf
<1>14. Before(x, r) <=> 2 * Minus(x, r) >= SeqSpace
  BY DEF Before
<1>15. CASE Minus(x, r) < w
  <2>1. left = x
    BY <1>2, <1>7, <1>8, <1>14, <1>15
  <2>2. Minus(end, r) = Minus(x, r) + n
    BY <1>1, <1>2, <1>7, <1>8, <1>9, <1>15
  <2>3. Minus(left, r) <= Minus(right, r) /\ Minus(right, r) <= w
    BY <1>1, <1>2, <1>8, <1>13, <1>15, <2>1, <2>2
  <2> QED BY <1>11, <2>3 DEF Offset, x, n, r, w, end, limit
<1>16. CASE ~(Minus(x, r) < w)
  <2>1. Minus(last, r) < w
    BY <1>10, <1>16
  <2>2. /\ Minus(x, r) + (n - 1) >= SeqSpace
        /\ Minus(end, r) = Minus(last, r) + 1
        /\ 2 * Minus(x, r) >= SeqSpace
    BY <1>1, <1>2, <1>7, <1>8, <1>9, <1>16, <2>1
  <2>3. left = r
    BY <1>14, <2>2
  <2>4. Minus(end, r) \in Nat /\ Minus(end, r) <= w
    BY <1>1, <1>2, <1>7, <1>8, <1>9, <2>1, <2>2
  <2>5. Minus(left, r) <= Minus(right, r) /\ Minus(right, r) <= w
    BY <1>2, <1>13, <2>3, <2>4
  <2> QED BY <1>11, <2>5 DEF Offset, x, n, r, w, end, limit
<1> QED BY <1>15, <1>16

Merges == [left: SeqNums, right: SeqNums, others: Seq(Blocks)]

\* The blocks the data touch are merged with them, the others are clear of them.
LEMMA MergeOf ==
    ASSUME NEW s, ReceiveOK(s), NEW m \in Merges, Interval(s, m),
           NEW b \in Blocks, Interval(s, b)
    PROVE  LET t == Merge(m, b)
           IN  /\ t \in Merges /\ Interval(s, t)
               /\ \/ t.others = Append(m.others, b) /\ Clear(s, t, b)
                  \/ t.others = m.others
               /\ \A o \in Blocks :
                    Interval(s, o) /\ Clear(s, m, o) /\ Clear(s, o, b) => Clear(s, t, o)
<1> DEFINE t == Merge(m, b)
           O(x) == Offset(s, x)
           r == s.rcvNxt
           w == s.rcvWnd
           touches == ~Before(m.right, b.left) /\ ~After(m.left, b.right)
<1>1. /\ m.left \in SeqNums /\ m.right \in SeqNums /\ m.others \in Seq(Blocks)
      /\ b.left \in SeqNums /\ b.right \in SeqNums
      /\ DOMAIN m = {"left", "right", "others"}
  BY DEF Merges, Blocks
<1>2. r \in SeqNums /\ w \in Nat /\ 2 * w < SeqSpace
  BY WindowOf, Sizes
<1>3. /\ O(m.left) \in Nat /\ O(m.right) \in Nat /\ O(b.left) \in Nat /\ O(b.right) \in Nat
  BY <1>1, <1>2, OffsetsAreNats
<1>4. /\ O(m.left) <= O(m.right) /\ O(m.right) <= w
      /\ O(b.left) <= O(b.right) /\ O(b.right) <= w
  BY DEF Interval
<1>5. touches <=> O(b.left) <= O(m.right) /\ O(m.left) <= O(b.right)
  <2> HIDE DEF r, w
  <2>1. /\ Minus(m.left, r) <= w /\ Minus(m.right, r) <= w
        /\ Minus(b.left, r) <= w /\ Minus(b.right, r) <= w
    BY <1>2, <1>3, <1>4 DEF Offset, r
  <2>2. Before(m.right, b.left) <=> Minus(m.right, r) < Minus(b.left, r)
    BY <1>1, <1>2, <2>1, OrderOf
  <2>3. After(m.left, b.right) <=> Minus(b.right, r) < Minus(m.left, r)
    BY <1>1, <1>2, <2>1, OrderOf
  <2> QED BY <1>3, <2>2, <2>3 DEF Offset, r
<1>6. ASSUME NEW x \in SeqNums
      PROVE  O(x) \in Nat
  BY <1>2, OffsetsAreNats
<1> HIDE DEF O, r, w
<1>7. CASE touches
  <2>1. t = [m EXCEPT !.left = Least(@, b.left), !.right = Most(@, b.right)]
    BY <1>7 DEF Merge
  <2>2. /\ t.left \in {m.left, b.left} /\ t.right \in {m.right, b.right}
        /\ t.others = m.others
    BY <1>1, <2>1 DEF Least, Most
  <2>3. t \in Merges
    BY <1>1, <2>1, <2>2 DEF Merges
  <2> HIDE DEF t, touches
  <2>4. O(t.left) <= O(t.right) /\ O(t.right) <= w
    BY <1>3, <1>4, <1>5, <1>7, <2>2
  <2>5. ASSUME NEW o \in Blocks, Interval(s, o), Clear(s, m, o), Clear(s, o, b)
        PROVE  Clear(s, t, o)
    <3>1. O(o.left) \in Nat /\ O(o.right) \in Nat
      BY <1>6 DEF Blocks
    <3>2. /\ O(o.left) <= O(o.right)
          /\ O(m.right) < O(o.left) \/ O(o.right) < O(m.left)
          /\ O(o.right) < O(b.left) \/ O(b.right) < O(o.left)
      BY <2>5 DEF Interval, Clear, O
    <3>3. O(t.right) < O(o.left) \/ O(o.right) < O(t.left)
      BY <1>3, <1>4, <1>5, <1>7, <2>2, <3>1, <3>2
    <3> QED BY <3>3 DEF Clear, O
  <2>6. Interval(s, t)
    BY <2>4 DEF Interval, O, w
  <2> QED BY <2>2, <2>3, <2>5, <2>6 DEF t
<1>8. CASE ~touches
  <2>1. t = [m EXCEPT !.others = Append(@, b)]
    BY <1>8 DEF Merge
  <2>2. t.left = m.left /\ t.right = m.right /\ t.others = Append(m.others, b)
    BY <1>1, <2>1
  <2>3. t \in Merges
    <3>1. Append(m.others, b) \in Seq(Blocks)
      BY <1>1, AppendProperties
    <3> QED BY <1>1, <2>1, <2>2, <3>1 DEF Merges
  <2> HIDE DEF t, touches
  <2>4. Clear(s, t, b)
    <3>1. O(m.right) < O(b.left) \/ O(b.right) < O(m.left)
      BY <1>3, <1>5, <1>8
    <3> QED BY <2>2, <3>1 DEF Clear, O
  <2>5. Interval(s, t) /\ \A o \in Blocks : Clear(s, m, o) => Clear(s, t, o)
    BY <2>2 DEF Interval, Clear
  <2> QED BY <2>2, <2>3, <2>4, <2>5 DEF t
<1> QED BY <1>7, <1>8

\* What the blocks that were looked at make of the data: what is not merged is
\* clear of it, and of the blocks that were not looked at.
MergedOK(s, low, m, i) ==
    /\ m \in Merges /\ Interval(s, m) /\ Len(m.others) <= i
    /\ \A k \in 1 .. Len(m.others) :
        /\ low <= Offset(s, m.others[k].left)
        /\ Interval(s, m.others[k])
        /\ Clear(s, m, m.others[k])
        /\ \A l \in 1 .. Len(m.others) : k # l => Clear(s, m.others[k], m.others[l])
        /\ \A j \in i + 1 .. Len(s.sackBlock) : Clear(s, m.others[k], s.sackBlock[j])

LEMMA MergedStep ==
    ASSUME NEW s, ReceiveOK(s), NEW low, Apart(s, low),
           NEW i \in 1 .. Len(s.sackBlock), NEW m, MergedOK(s, low, m, i - 1)
    PROVE  MergedOK(s, low, Merge(m, s.sackBlock[i]), i)
<1> DEFINE b == s.sackBlock[i]
           t == Merge(m, b)
           n == Len(s.sackBlock)
<1>1. /\ s.sackBlock \in Seq(Blocks) /\ n \in Nat /\ i \in 1 .. n
      /\ b \in Blocks /\ Interval(s, b) /\ low <= Offset(s, b.left)
      /\ \A j \in 1 .. n : i # j => Clear(s, b, s.sackBlock[j])
  BY DEF ReceiveOK, Apart
<1>2. /\ m \in Merges /\ Interval(s, m) /\ Len(m.others) <= i - 1
      /\ m.others \in Seq(Blocks) /\ Len(m.others) \in Nat
  BY DEF MergedOK, Merges
<1>3. /\ t \in Merges /\ Interval(s, t)
      /\ \/ t.others = Append(m.others, b) /\ Clear(s, t, b)
         \/ t.others = m.others
      /\ \A o \in Blocks :
            Interval(s, o) /\ Clear(s, m, o) /\ Clear(s, o, b) => Clear(s, t, o)
  BY <1>1, <1>2, MergeOf
<1>4. ASSUME NEW k \in 1 .. Len(m.others)
      PROVE  /\ m.others[k] \in Blocks
             /\ low <= Offset(s, m.others[k].left)
             /\ Interval(s, m.others[k])
             /\ Clear(s, m, m.others[k])
             /\ \A l \in 1 .. Len(m.others) : k # l => Clear(s, m.others[k], m.others[l])
             /\ \A j \in i .. n : Clear(s, m.others[k], s.sackBlock[j])
  <2>1. (i - 1) + 1 = i
    BY <1>1
  <2> QED BY <1>2, <2>1 DEF MergedOK
<1> HIDE DEF b, t
<1>5. ASSUME NEW k \in 1 .. Len(m.others)
      PROVE  Clear(s, t, m.others[k]) /\ Clear(s, m.others[k], b) /\ Clear(s, b, m.others[k])
  <2>1. Clear(s, m.others[k], b)
    BY <1>1, <1>4 DEF b
  <2>2. Clear(s, b, m.others[k])
    BY <2>1 DEF Clear
  <2> QED BY <1>3, <1>4, <2>1, <2>2
<1>6. \A j \in i + 1 .. n : j \in i .. n /\ j \in 1 .. n /\ j # i
  BY <1>1
<1>7. ASSUME t.others = m.others
      PROVE  MergedOK(s, low, t, i)
  <2>1. Len(t.others) <= i
    BY <1>1, <1>2, <1>7
  <2> QED BY <1>3, <1>4, <1>5, <1>6, <1>7, <2>1 DEF MergedOK
<1>8. ASSUME t.others = Append(m.others, b), Clear(s, t, b)
      PROVE  MergedOK(s, low, t, i)
  <2> DEFINE c == Len(m.others)
             a == t.others
  <2>1. /\ Len(a) = c + 1 /\ a[c + 1] = b
        /\ \A k \in 1 .. c : a[k] = m.others[k]
    BY <1>1, <1>2, <1>8, AppendProperties
  <2> HIDE DEF a
  <2>2. \A k \in 1 .. c + 1 : k \in 1 .. c \/ k = c + 1
    BY <1>2
  <2>3. ASSUME NEW k \in 1 .. c + 1
        PROVE  /\ low <= Offset(s, a[k].left)
               /\ Interval(s, a[k])
               /\ Clear(s, t, a[k])
               /\ \A l \in 1 .. c + 1 : k # l => Clear(s, a[k], a[l])
               /\ \A j \in i + 1 .. n : Clear(s, a[k], s.sackBlock[j])
    <3>1. CASE k = c + 1
      <4>1. a[k] = b
        BY <2>1, <3>1
      <4>2. \A l \in 1 .. c + 1 : k # l => Clear(s, b, a[l])
        BY <1>5, <2>1, <2>2, <3>1
      <4> QED BY <1>1, <1>6, <1>8, <4>1, <4>2 DEF b
    <3>2. CASE k # c + 1
      <4>1. k \in 1 .. c /\ a[k] = m.others[k]
        BY <2>1, <2>2, <3>2
      <4>2. \A l \in 1 .. c + 1 : k # l => Clear(s, a[k], a[l])
        <5>1. \A l \in 1 .. c : k # l => Clear(s, a[k], a[l])
          BY <1>4, <2>1, <4>1
        <5>2. Clear(s, a[k], a[c + 1])
          BY <1>5, <2>1, <4>1
        <5> QED BY <2>2, <5>1, <5>2
      <4> QED BY <1>4, <1>5, <1>6, <4>1, <4>2
    <3> QED BY <3>1, <3>2
  <2>4. c + 1 <= i /\ Len(a) = c + 1
    BY <1>1, <1>2, <2>1
  <2> HIDE DEF c
  <2>5. \A k \in 1 .. Len(a) :
            /\ low <= Offset(s, a[k].left)
            /\ Interval(s, a[k])
            /\ Clear(s, t, a[k])
            /\ \A l \in 1 .. Len(a) : k # l => Clear(s, a[k], a[l])
            /\ \A j \in i + 1 .. n : Clear(s, a[k], s.sackBlock[j])
    BY <2>3, <2>4
  <2> QED BY <1>3, <2>4, <2>5 DEF MergedOK, a
<1>9. MergedOK(s, low, t, i)
  BY <1>3, <1>7, <1>8
<1> QED BY <1>9 DEF t, b

\* The recursive function of MergeBlocks.
LEMMA MergeBlocksOf ==
    ASSUME NEW s, ReceiveOK(s), NEW low, Apart(s, low),
           NEW left \in SeqNums, NEW right \in SeqNums,
           Offset(s, left) <= Offset(s, right), Offset(s, right) <= s.rcvWnd
    PROVE  MergedOK(s, low, MergeBlocks(s, left, right), Len(s.sackBlock))
<1> DEFINE n == Len(s.sackBlock)
           first == [left |-> left, right |-> right, others |-> <<>>]
           merged[i \in 0 .. Len(s.sackBlock)] ==
               IF i = 0 THEN [left |-> left, right |-> right, others |-> <<>>]
               ELSE Merge(merged[i - 1], s.sackBlock[i])
           Unfolded(f) ==
               [i \in 0 .. Len(s.sackBlock) |->
                    IF i = 0 THEN [left |-> left, right |-> right, others |-> <<>>]
                    ELSE Merge(f[i - 1], s.sackBlock[i])]
<1>1. MergeBlocks(s, left, right) = merged[n]
  BY DEF MergeBlocks
<1>2. /\ n \in Nat
      /\ \A i \in 1 .. n : s.sackBlock[i] \in Blocks /\ Interval(s, s.sackBlock[i])
  <2>1. s.sackBlock \in Seq(Blocks)
    BY DEF ReceiveOK
  <2> QED BY <2>1 DEF Apart
<1>3. first \in Merges /\ Interval(s, first) /\ MergedOK(s, low, first, 0)
  BY DEF Merges, Interval, MergedOK
<1>4. \E f : f = Unfolded(f)
  <2> DEFINE T == {m \in Merges : Interval(s, m)}
             next == [i \in 1 .. n |-> [m \in T |-> Merge(m, s.sackBlock[i])]]
  <2>1. first \in T
    BY <1>3
  <2>2. next \in [1 .. n -> [T -> T]]
    <3>1. ASSUME NEW i \in 1 .. n, NEW m \in T
          PROVE  Merge(m, s.sackBlock[i]) \in T
      BY <1>2, MergeOf
    <3> HIDE DEF n, T
    <3> QED BY <3>1
  <2> HIDE DEF n, first, T, next
  <2>3. PICK f \in [0 .. n -> T] : Recurs(f, n, first, next)
    BY <1>2, <2>1, <2>2, RecursionOf
  <2> USE DEF n, Recurs
  <2>4. ASSUME NEW i \in 1 .. n
        PROVE  f[i] = Merge(f[i - 1], s.sackBlock[i])
    <3>1. f[i] = next[i][f[i - 1]] /\ f[i - 1] \in T
      BY <2>3
    <3> QED BY <3>1 DEF next
  <2>5. \A i \in 0 .. n : f[i] = Unfolded(f)[i]
    BY <1>2, <2>3, <2>4 DEF first
  <2>6. DOMAIN f = 0 .. n /\ f = [i \in 0 .. n |-> f[i]]
    OBVIOUS
  <2>7. f = Unfolded(f)
    BY <2>5, <2>6
  <2> QED BY <2>7
<1>5. merged = Unfolded(merged)
  BY <1>4
<1>6. ASSUME NEW i \in 0 .. n
      PROVE  merged[i] = IF i = 0 THEN first ELSE Merge(merged[i - 1], s.sackBlock[i])
  <2> HIDE DEF merged
  <2>1. Unfolded(merged)[i] = IF i = 0 THEN first
                              ELSE Merge(merged[i - 1], s.sackBlock[i])
    OBVIOUS
  <2> HIDE DEF Unfolded, first
  <2> QED BY <1>5, <2>1
<1> HIDE DEF merged, first, Unfolded
<1> DEFINE T == {i \in 0 .. n : MergedOK(s, low, merged[i], i)}
<1>7. 0 \in T
  <2>1. 0 \in 0 .. n
    BY <1>2
  <2>2. merged[0] = first
    BY <1>6, <2>1
  <2> QED BY <1>3, <2>1, <2>2
<1>8. ASSUME NEW i \in 1 .. n, i - 1 \in T
      PROVE  i \in T
  <2>1. MergedOK(s, low, merged[i - 1], i - 1)
    BY <1>8
  <2>2. i \in 0 .. n /\ i # 0
    BY <1>2
  <2>3. merged[i] = Merge(merged[i - 1], s.sackBlock[i])
    BY <1>6, <2>2
  <2> DEFINE m == merged[i - 1]
  <2> HIDE DEF m
  <2>4. MergedOK(s, low, Merge(m, s.sackBlock[i]), i)
    BY <2>1, MergedStep DEF m
  <2> QED BY <2>2, <2>3, <2>4 DEF m
<1> HIDE DEF T
<1>9. n \in T
  <2>1. \A i \in 1 .. n : i - 1 \in T => i \in T
    BY <1>8
  <2>2. 0 .. n \subseteq T
    BY <1>2, <1>7, <2>1, UpTo
  <2> QED BY <1>2, <2>2
<1> QED BY <1>1, <1>9 DEF T

\* An operation of the receiving side: of the rest, only what waits for the
\* network layer and the events change.
Receives(s, t) ==
    /\ Loose(t) /\ t.cwnd = s.cwnd /\ t.state = s.state /\ t.eventMask = s.eventMask

\* The blocks that follow a hole, the one with the data first.
LEMMA KeptBlocksOK ==
    ASSUME NEW s, ReceiveOK(s), NEW low \in {0, 1}, Apart(s, low),
           NEW m, MergedOK(s, low, m, Len(s.sackBlock)), Offset(s, m.left) > 0
    PROVE  LET block == [left |-> m.left, right |-> m.right]
               all == <<block>> \o m.others
               b == SubSeq(all, 1, Least(Len(all), MaxSackBlocks))
           IN  /\ b \in Seq(Blocks) /\ Len(b) <= MaxSackBlocks
               /\ \A i \in 1 .. Len(b) : low <= Offset(s, b[i].left) /\ Interval(s, b[i])
               /\ \A i, j \in 1 .. Len(b) : i # j => Clear(s, b[i], b[j])
<1> DEFINE block == [left |-> m.left, right |-> m.right]
           c == Len(m.others)
           all == <<block>> \o m.others
           n == Least(Len(all), MaxSackBlocks)
           b == SubSeq(all, 1, n)
<1>1. /\ m.left \in SeqNums /\ m.right \in SeqNums
      /\ m.others \in Seq(Blocks) /\ c \in Nat
  BY DEF MergedOK, Merges
<1>2. block \in Blocks /\ Interval(s, block) /\ low <= Offset(s, block.left)
  <2>1. block \in Blocks
    BY <1>1 DEF Blocks
  <2>2. Offset(s, block.left) = Offset(s, m.left) /\ Offset(s, m.left) \in Nat
    BY <1>1, OffsetsAreNats DEF ReceiveOK
  <2> QED BY <2>1, <2>2 DEF MergedOK, Interval
<1>3. \A k \in 1 .. c : Clear(s, block, m.others[k]) /\ Clear(s, m.others[k], block)
  BY DEF MergedOK, Clear
<1>4. /\ all \in Seq(Blocks) /\ Len(all) = c + 1 /\ all[1] = block
      /\ \A k \in 1 .. c : all[k + 1] = m.others[k]
  <2> HIDE DEF block
  <2>1. <<block>> \in Seq(Blocks) /\ Len(<<block>>) = 1 /\ <<block>>[1] = block
    BY <1>2
  <2>2. all \in Seq(Blocks) /\ Len(all) = c + 1
    BY <1>1, <2>1, ConcatProperties
  <2>3. all[1] = block
    BY <1>1, <2>1, ConcatProperties
  <2>4. ASSUME NEW k \in 1 .. c
        PROVE  all[k + 1] = m.others[k]
    BY <1>1, <2>1
  <2> QED BY <2>2, <2>3, <2>4
<1> HIDE DEF all, block
<1>5. \A k \in 1 .. c + 1 : k = 1 \/ (k - 1 \in 1 .. c /\ all[k] = m.others[k - 1])
  <2>1. ASSUME NEW k \in 1 .. c + 1, k # 1
        PROVE  k - 1 \in 1 .. c /\ all[k] = m.others[k - 1]
    <3>1. k - 1 \in 1 .. c /\ (k - 1) + 1 = k
      BY <1>1, <2>1
    <3> QED BY <1>4, <3>1
  <2> QED BY <2>1
<1>6. \A i \in 1 .. c + 1 : low <= Offset(s, all[i].left) /\ Interval(s, all[i])
  BY <1>2, <1>4, <1>5 DEF MergedOK
<1>7. ASSUME NEW i \in 1 .. c + 1, NEW j \in 1 .. c + 1, i # j
      PROVE  Clear(s, all[i], all[j])
  <2>1. CASE i = 1
    BY <1>3, <1>4, <1>5, <1>7, <2>1
  <2>2. CASE j = 1
    BY <1>3, <1>4, <1>5, <1>7, <2>2
  <2>3. CASE i # 1 /\ j # 1
    <3>1. i - 1 \in 1 .. c /\ j - 1 \in 1 .. c /\ i - 1 # j - 1
      BY <1>1, <1>5, <1>7, <2>3
    <3>2. Clear(s, m.others[i - 1], m.others[j - 1])
      BY <3>1 DEF MergedOK
    <3> QED BY <1>5, <2>3, <3>2
  <2> QED BY <2>1, <2>2, <2>3
<1>8. n \in 1 .. c + 1 /\ n <= MaxSackBlocks
  BY <1>1, <1>4, Sizes DEF Least
<1> HIDE DEF n
<1>9. b \in Seq(Blocks) /\ Len(b) = n /\ \A i \in 1 .. n : b[i] = all[i]
  <2>1. \A i \in 1 .. n : all[i] \in Blocks
    BY <1>1, <1>4, <1>8
  <2> QED BY <1>8, <2>1, SubSeqProperties
<1> HIDE DEF b
<1>10. \A i \in 1 .. Len(b) : low <= Offset(s, b[i].left) /\ Interval(s, b[i])
  BY <1>1, <1>6, <1>8, <1>9
<1>11. \A i, j \in 1 .. Len(b) : i # j => Clear(s, b[i], b[j])
  <2>1. \A i \in 1 .. n : i \in 1 .. c + 1
    BY <1>1, <1>8
  <2> QED BY <1>7, <1>9, <2>1
<1> QED BY <1>8, <1>9, <1>10, <1>11 DEF b, n, all, block

LEMMA ClosestOf ==
    ASSUME NEW r \in SeqNums, NEW n \in Nat, NEW x \in SeqNums, NEW w \in Nat,
           2 * w < SeqSpace, n <= Minus(x, r), Minus(x, r) <= w
    PROVE  Minus(x, Plus(r, n)) = Minus(x, r) - n
<1> DEFINE p == Plus(r, n)
<1>1. /\ SeqSpace \in Nat /\ r \in Nat /\ x \in Nat /\ r < SeqSpace /\ x < SeqSpace
      /\ Minus(x, r) \in Nat
  <2>1. r \in Nat /\ x \in Nat /\ r \in Int
    BY SeqNumsAreNats
  <2>2. Minus(x, r) \in SeqNums
    BY <2>1, MinusOf
  <2> QED BY <2>1, <2>2, SeqNumsAreNats, Sizes DEF SeqNums
<1>2. n \in 0 .. SeqSpace - 1 /\ n \in Int /\ n <= w
  BY <1>1
<1>3. p \in SeqNums
  BY <1>2, PlusOf
<1>4. Minus(r, r) = 0
  BY <1>1, MinusOf
<1>5. Minus(p, r) = n
  BY <1>1, <1>2, <1>4, MinusOfPlus
<1> HIDE DEF p
<1>6. Minus(x, p) = Minus(x, r) - Minus(p, r)
  BY <1>2, <1>3, <1>5, OrderOf
<1> QED BY <1>5, <1>6 DEF p

\* The data end the hole: what is behind them is as far from the new rcvNxt.
LEMMA TakenBlocksOK ==
    ASSUME NEW s, ReceiveOK(s), NEW low \in {0, 1}, Apart(s, low),
           NEW m, MergedOK(s, low, m, Len(s.sackBlock)), Offset(s, m.left) = 0,
           NEW t, t.rcvNxt = Plus(s.rcvNxt, Offset(s, m.right)),
           t.rcvWnd = s.rcvWnd - Offset(s, m.right), t.sackBlock = m.others
    PROVE  Apart(t, low)
<1> DEFINE n == Offset(s, m.right)
           w == s.rcvWnd
           r == s.rcvNxt
           c == Len(m.others)
<1>1. /\ m.left \in SeqNums /\ m.right \in SeqNums
      /\ m.others \in Seq(Blocks) /\ c \in Nat
  BY DEF MergedOK, Merges
<1>2. n \in Nat /\ n <= w /\ r \in SeqNums /\ w \in Nat /\ 2 * w < SeqSpace
  BY <1>1, WindowOf, OffsetsAreNats, Sizes DEF MergedOK, Interval
<1>3. ASSUME NEW k \in 1 .. c
      PROVE  LET b == m.others[k]
             IN  /\ b.left \in SeqNums /\ b.right \in SeqNums
                 /\ Offset(s, b.left) \in Nat /\ Offset(s, b.right) \in Nat
                 /\ n < Offset(s, b.left) /\ Interval(s, b)
  <2> DEFINE b == m.others[k]
  <2>1. b.left \in SeqNums /\ b.right \in SeqNums
    <3>1. b \in Blocks
      BY <1>1
    <3> QED BY <3>1 DEF Blocks
  <2>2. Offset(s, b.left) \in Nat /\ Offset(s, b.right) \in Nat
    BY <1>2, <2>1, OffsetsAreNats
  <2>3. Interval(s, b) /\ Clear(s, m, b)
    BY DEF MergedOK
  <2>4. n < Offset(s, b.left)
    BY <2>2, <2>3 DEF Clear
  <2> QED BY <2>1, <2>2, <2>3, <2>4
<1>4. ASSUME NEW x \in SeqNums, n <= Offset(s, x), Offset(s, x) <= w
      PROVE  Offset(t, x) = Offset(s, x) - n
  <2> HIDE DEF n, w, r
  <2>1. n <= Minus(x, r) /\ Minus(x, r) <= w
    BY <1>4 DEF Offset, r
  <2>2. Minus(x, Plus(r, n)) = Minus(x, r) - n
    BY <1>2, <2>1, ClosestOf
  <2> QED BY <2>2 DEF Offset, r, n
<1> HIDE DEF n
<1>5. ASSUME NEW k \in 1 .. c
      PROVE  LET b == m.others[k]
             IN  /\ Offset(t, b.left) = Offset(s, b.left) - n
                 /\ Offset(t, b.right) = Offset(s, b.right) - n
                 /\ low <= Offset(t, b.left) /\ Interval(t, b)
  <2> DEFINE b == m.others[k]
  <2>1. /\ b.left \in SeqNums /\ b.right \in SeqNums
        /\ Offset(s, b.left) \in Nat /\ Offset(s, b.right) \in Nat
        /\ n < Offset(s, b.left)
        /\ Offset(s, b.left) <= Offset(s, b.right) /\ Offset(s, b.right) <= w
    BY <1>3 DEF Interval
  <2> HIDE DEF b
  <2>2. Offset(t, b.left) = Offset(s, b.left) - n /\ Offset(t, b.right) = Offset(s, b.right) - n
    BY <1>2, <1>4, <2>1
  <2>3. t.rcvWnd = w - n
    BY DEF n
  <2>4. low <= Offset(t, b.left) /\ Interval(t, b)
    BY <1>2, <2>1, <2>2, <2>3 DEF Interval
  <2> QED BY <2>2, <2>4 DEF b
<1>6. ASSUME NEW k \in 1 .. c, NEW l \in 1 .. c, k # l
      PROVE  Clear(t, m.others[k], m.others[l])
  <2>1. Clear(s, m.others[k], m.others[l])
    BY <1>6 DEF MergedOK
  <2> QED BY <1>2, <1>3, <1>5, <2>1 DEF Clear
<1> QED BY <1>5, <1>6 DEF Apart

\* What is acknowledged at the end: with the hole as it was and one block more,
\* or with rcvNxt behind the data and the blocks that touch them.
Storing == {"rxBuffer", "sackBlock", "rcvNxt", "rcvUser", "rcvWnd"}

StoredAs(s, m, buffer, q) ==
    LET all == <<[left |-> m.left, right |-> m.right]>> \o m.others
        n == Offset(s, m.right)
    IN  /\ DOMAIN q = SocketFields /\ \A f \in SocketFields \ Storing : q[f] = s[f]
        /\ q.rxBuffer = buffer
        /\ \/ /\ Offset(s, m.left) > 0
              /\ q.rcvNxt = s.rcvNxt /\ q.rcvUser = s.rcvUser /\ q.rcvWnd = s.rcvWnd
              /\ q.sackBlock = SubSeq(all, 1, Least(Len(all), MaxSackBlocks))
           \/ /\ Offset(s, m.left) = 0
              /\ q.rcvNxt = Plus(s.rcvNxt, n) /\ q.rcvUser = s.rcvUser + n
              /\ q.rcvWnd = s.rcvWnd - n /\ q.sackBlock = m.others

LEMMA StoreDataIs ==
    ASSUME NEW s, Loose(s), NEW low \in {0, 1}, Apart(s, low),
           NEW left \in SeqNums, NEW right \in SeqNums,
           Offset(s, left) <= Offset(s, right), Offset(s, right) <= s.rcvWnd,
           NEW at, NEW data
    PROVE  \E q : /\ Loose(q) /\ Apart(q, low)
                  /\ StoredAs(s, MergeBlocks(s, left, right),
                              WriteBuffer(s.rxBuffer, s.irs, at, data), q)
                  /\ StoreData(s, at, data, UpdateSackBlocks(s, left, right)) \in
                        {SendAck(q), UpdateEvents(SendAck(q))}
<1> DEFINE m == MergeBlocks(s, left, right)
           all == <<[left |-> m.left, right |-> m.right]>> \o m.others
           kept == SubSeq(all, 1, Least(Len(all), MaxSackBlocks))
           blocks == IF After(m.left, s.rcvNxt) THEN kept ELSE m.others
           got == UpdateSackBlocks(s, left, right)
           buffer == WriteBuffer(s.rxBuffer, s.irs, at, data)
           r == [s EXCEPT !.rxBuffer = buffer, !.sackBlock = blocks]
           n == Minus(m.right, m.left)
           q == [r EXCEPT !.rcvNxt = Plus(@, n), !.rcvUser = @ + n, !.rcvWnd = @ - n]
           t == StoreData(s, at, data, got)
<1>1. DOMAIN s = SocketFields /\ ReceiveOK(s)
  BY DEF Loose, WaitOK
<1>2. MergedOK(s, low, m, Len(s.sackBlock))
  BY <1>1, MergeBlocksOf
<1>3. got.left = m.left /\ got.right = m.right /\ got.blocks = blocks
  BY DEF UpdateSackBlocks
<1>4. r = [s EXCEPT !.rxBuffer = WriteBuffer(@, s.irs, at, data), !.sackBlock = got.blocks]
  BY <1>1, <1>3
<1> HIDE DEF got, m, buffer
<1>5. t = IF After(m.left, r.rcvNxt) THEN SendAck(r) ELSE UpdateEvents(SendAck(q))
  <2>1. t = TakeData(r, got)
    BY <1>4 DEF StoreData
  <2> HIDE DEF r
  <2> QED BY <1>3, <2>1 DEF TakeData
<1>6. /\ r.rcvNxt = s.rcvNxt /\ r.rcvWnd = s.rcvWnd /\ r.rcvUser = s.rcvUser
      /\ r.irs = s.irs /\ r.sackBlock = blocks
      /\ r.state = s.state /\ r.eventMask = s.eventMask /\ r.cwnd = s.cwnd
      /\ DOMAIN r = SocketFields /\ SameSender(s, r) /\ SameWaiter(s, r)
      /\ r.rxBuffer = buffer /\ \A f \in SocketFields \ Storing : r[f] = s[f]
  BY <1>1 DEF SocketFields, SameSender, SameWaiter, Storing
<1>7. /\ m.left \in SeqNums /\ m.right \in SeqNums /\ m.others \in Seq(Blocks)
      /\ Len(m.others) <= Len(s.sackBlock) /\ Interval(s, m)
  BY <1>2 DEF MergedOK, Merges
<1>8. /\ s.rcvNxt \in SeqNums /\ s.rcvWnd \in Nat /\ 2 * s.rcvWnd < SeqSpace
      /\ Offset(s, s.rcvNxt) = 0
      /\ Offset(s, m.left) \in Nat /\ Offset(s, m.right) \in Nat
      /\ Offset(s, m.left) <= Offset(s, m.right) /\ Offset(s, m.right) <= s.rcvWnd
  <2>1. /\ s.rcvNxt \in SeqNums /\ s.rcvWnd \in Nat /\ 4 * s.rcvWnd < SeqSpace
        /\ Offset(s, s.rcvNxt) = 0
    BY <1>1, WindowOf
  <2>2. Offset(s, m.left) \in Nat /\ Offset(s, m.right) \in Nat
    BY <1>7, <2>1, OffsetsAreNats
  <2>3. Offset(s, m.left) <= Offset(s, m.right) /\ Offset(s, m.right) <= s.rcvWnd
    BY <1>7 DEF Interval
  <2>4. 2 * s.rcvWnd < SeqSpace
    BY <2>1, Sizes
  <2> QED BY <2>1, <2>2, <2>3, <2>4
<1> HIDE DEF t
<1>9. After(m.left, s.rcvNxt) <=> Offset(s, m.left) > 0
  <2> DEFINE x == s.rcvNxt
             w == s.rcvWnd
             y == m.left
  <2>1. /\ x \in SeqNums /\ w \in Nat /\ 2 * w < SeqSpace /\ y \in SeqNums
        /\ Minus(x, x) = 0 /\ Minus(x, x) <= w /\ Minus(y, x) <= w /\ Minus(y, x) \in Nat
    BY <1>7, <1>8 DEF Offset
  <2> HIDE DEF x, w, y
  <2>2. After(y, x) <=> Minus(x, x) < Minus(y, x)
    BY <2>1, OrderOf
  <2> QED BY <2>1, <2>2 DEF x, y, Offset
<1>10. CASE After(m.left, s.rcvNxt)
  <2>1. /\ blocks \in Seq(Blocks) /\ Len(blocks) <= MaxSackBlocks
        /\ \A i \in 1 .. Len(blocks) :
                low <= Offset(s, blocks[i].left) /\ Interval(s, blocks[i])
        /\ \A i, j \in 1 .. Len(blocks) : i # j => Clear(s, blocks[i], blocks[j])
    BY <1>1, <1>2, <1>9, <1>10, KeptBlocksOK
  <2> HIDE DEF blocks, r
  <2>2. ReceiveOK(r)
    BY <1>1, <1>6, <2>1 DEF ReceiveOK
  <2>3. Loose(r)
    BY <1>6, <2>2, SameSenderOK, SameWaiterOK DEF Loose
  <2>4. Apart(r, low)
    BY <1>6, <2>1 DEF Apart, Interval, Clear, Offset
  <2>5. t = SendAck(r)
    BY <1>5, <1>6, <1>10
  <2>6. StoredAs(s, m, buffer, r)
    BY <1>6, <1>9, <1>10 DEF StoredAs, blocks
  <2> QED BY <2>3, <2>4, <2>5, <2>6 DEF t, got, m, buffer
<1>11. CASE ~After(m.left, s.rcvNxt)
  <2>1. Offset(s, m.left) = 0
    BY <1>8, <1>9, <1>11
  <2>2. n = Offset(s, m.right)
    <3> DEFINE x == s.rcvNxt
               w == s.rcvWnd
               y == m.left
               z == m.right
    <3>1. /\ x \in SeqNums /\ w \in Nat /\ 2 * w < SeqSpace /\ y \in SeqNums /\ z \in SeqNums
          /\ Minus(y, x) = 0 /\ Minus(z, x) <= w /\ Minus(z, x) \in Nat
      BY <1>7, <1>8, <2>1 DEF Offset
    <3> HIDE DEF x, w, y, z
    <3>2. Minus(z, y) = Minus(z, x) - Minus(y, x)
      BY <3>1, OrderOf
    <3> QED BY <3>1, <3>2 DEF x, y, z, Offset
  <2> HIDE DEF n
  <2>3. blocks = m.others
    BY <1>11
  <2> HIDE DEF blocks, r
  <2>4. /\ q.rcvNxt = Plus(s.rcvNxt, n) /\ q.rcvUser = s.rcvUser + n
        /\ q.rcvWnd = s.rcvWnd - n /\ q.sackBlock = m.others
        /\ q.irs = s.irs /\ q.state = s.state /\ q.eventMask = s.eventMask
        /\ q.cwnd = s.cwnd /\ SameSender(r, q) /\ SameWaiter(r, q)
        /\ DOMAIN q = SocketFields /\ q.rxBuffer = buffer
        /\ \A f \in SocketFields \ Storing : q[f] = s[f]
    BY <1>6, <2>3 DEF SocketFields, SameSender, SameWaiter, Storing
  <2> HIDE DEF q
  <2>5. ReceiveOK(q)
    <3>1. n \in Nat /\ n <= s.rcvWnd
      BY <1>8, <2>2
    <3>2. Plus(s.rcvNxt, n) \in SeqNums
      <4> DEFINE x == s.rcvNxt
      <4>1. x \in SeqNums /\ n \in Int
        BY <1>8, <3>1
      <4> HIDE DEF x
      <4>2. Plus(x, n) \in SeqNums
        BY <4>1, PlusOf
      <4> QED BY <4>2 DEF x
    <3>3. /\ s.irs \in SeqNums /\ s.rcvUser \in Nat /\ s.rcvWnd \in Nat
          /\ s.rcvUser + s.rcvWnd <= RxBufferSize /\ RxBufferSize \in Nat
          /\ s.sackBlock \in Seq(Blocks) /\ Len(s.sackBlock) <= MaxSackBlocks
      BY <1>1, Sizes DEF ReceiveOK
    <3>4. /\ s.rcvUser + n \in Nat /\ s.rcvWnd - n \in Nat
          /\ (s.rcvUser + n) + (s.rcvWnd - n) <= RxBufferSize
      BY <3>1, <3>3
    <3>5. Len(m.others) <= MaxSackBlocks
      BY <1>7, <3>3, Sizes
    <3> QED BY <1>7, <2>4, <3>2, <3>3, <3>4, <3>5 DEF ReceiveOK
  <2>6. Apart(q, low)
    BY <1>1, <1>2, <2>1, <2>2, <2>4, TakenBlocksOK
  <2>7. Loose(q)
    BY <1>6, <2>4, <2>5, SameSenderOK, SameWaiterOK DEF Loose
  <2>8. t = UpdateEvents(SendAck(q))
    BY <1>5, <1>6, <1>11
  <2>9. StoredAs(s, m, buffer, q)
    BY <2>1, <2>2, <2>4 DEF StoredAs
  <2> QED BY <2>6, <2>7, <2>8, <2>9 DEF t, got, m, buffer
<1> QED BY <1>10, <1>11

LEMMA StoreDataFits ==
    ASSUME NEW s, Loose(s), NEW low \in {0, 1}, Apart(s, low),
           NEW left \in SeqNums, NEW right \in SeqNums,
           Offset(s, left) <= Offset(s, right), Offset(s, right) <= s.rcvWnd,
           NEW at, NEW data
    PROVE  LET t == StoreData(s, at, data, UpdateSackBlocks(s, left, right))
           IN  Receives(s, t) /\ Apart(t, low)
<1> DEFINE t == StoreData(s, at, data, UpdateSackBlocks(s, left, right))
<1>1. PICK q : /\ Loose(q) /\ Apart(q, low)
               /\ StoredAs(s, MergeBlocks(s, left, right),
                           WriteBuffer(s.rxBuffer, s.irs, at, data), q)
               /\ t \in {SendAck(q), UpdateEvents(SendAck(q))}
  BY StoreDataIs
<1>2. q.state = s.state /\ q.cwnd = s.cwnd /\ q.eventMask = s.eventMask
  BY <1>1 DEF StoredAs, Storing, SocketFields
<1> DEFINE p == SendAck(q)
<1> HIDE DEF t, p
<1>3. Loose(p) /\ SameRest(q, p) /\ p.cwnd = q.cwnd
  BY <1>1, SendAckFits DEF p
<1>4. Apart(p, low)
  BY <1>1, <1>3, SameBlocksApart DEF SameRest, SameReceiver
<1>5. t = p \/ t = UpdateEvents(p)
  BY <1>1 DEF p
<1>6. /\ Loose(t) /\ t.cwnd = p.cwnd /\ t.state = p.state
      /\ t = p \/ SameReceiver(p, t)
      /\ t.eventMask = p.eventMask
  BY <1>3, <1>5, UpdateEventsFits
<1>7. Apart(t, low)
  BY <1>4, <1>6, SameBlocksApart DEF SameReceiver
<1> QED BY <1>2, <1>3, <1>6, <1>7 DEF Receives, SameRest, SameWaiter, t

LEMMA ApartLess ==
    ASSUME NEW s, ReceiveOK(s), Apart(s, 1)
    PROVE  Apart(s, 0)
<1>1. \A i \in 1 .. Len(s.sackBlock) : 0 <= Offset(s, s.sackBlock[i].left)
  <2>1. ASSUME NEW i \in 1 .. Len(s.sackBlock)
        PROVE  Offset(s, s.sackBlock[i].left) \in Nat
    <3>1. s.sackBlock[i] \in Blocks
      BY DEF ReceiveOK
    <3>2. s.sackBlock[i].left \in SeqNums
      BY <3>1 DEF Blocks
    <3> QED BY <3>2, OffsetsAreNats DEF ReceiveOK
  <2> QED BY <2>1
<1> QED BY <1>1 DEF Apart

Receiving == {"ESTABLISHED", "FIN_WAIT_1", "FIN_WAIT_2"}

LEMMA ReceiveTextFits ==
    ASSUME NEW s, Fit(s), s.state \in Receiving, NEW seg \in Segments,
           Acceptable(s, seg)
    PROVE  LET t == ReceiveText(s, seg)
           IN  Fit(t) /\ t.state = s.state /\ t.eventMask = s.eventMask
<1>1. Loose(s) /\ ReceiveOK(s) /\ BlocksOK(s) /\ s.cwnd <= TxBufferSize
  BY DEF Fit, Bounded, Loose
<1>2. CASE seg.data = <<>>
  BY <1>2 DEF ReceiveText
<1>3. CASE seg.data # <<>>
  <2> DEFINE end == Plus(seg.seq, Len(seg.data))
             limit == Plus(s.rcvNxt, s.rcvWnd)
             left == IF Before(seg.seq, s.rcvNxt) THEN s.rcvNxt ELSE seg.seq
             right == IF After(end, limit) THEN limit ELSE end
             skipped == Minus(left, seg.seq)
             data == SubSeq(seg.data, skipped + 1, skipped + Minus(right, left))
             t == StoreData(s, left, data, UpdateSackBlocks(s, left, right))
             low == IF s.state = "ESTABLISHED" THEN 1 ELSE 0
  <2>1. ReceiveText(s, seg) = t
    BY <1>3 DEF ReceiveText, ProcessSegmentData
  <2>2. /\ left \in SeqNums /\ right \in SeqNums
        /\ Offset(s, left) <= Offset(s, right) /\ Offset(s, right) <= s.rcvWnd
    BY <1>1, <1>3, TrimmedToWindow
  <2> HIDE DEF left, right, data
  <2>3. low \in {0, 1} /\ Apart(s, low)
    BY <1>1 DEF BlocksOK, Receiving
  <2> HIDE DEF low
  <2>4. Receives(s, t) /\ Apart(t, low)
    BY <1>1, <2>2, <2>3, StoreDataFits
  <2> HIDE DEF t
  <2>5. BlocksOK(t)
    BY <2>4 DEF BlocksOK, Receives, Receiving, low
  <2> QED BY <1>1, <2>1, <2>4, <2>5 DEF Fit, Bounded, Receives
<1> QED BY <1>2, <1>3

LEMMA AckFinFits ==
    ASSUME NEW s, Bounded(s)
    PROVE  LET t == AckFin(s)
           IN  /\ Bounded(t) /\ t.state = s.state /\ t.eventMask = s.eventMask
               /\ Apart(s, 1) => Apart(t, 0)
<1> DEFINE r == [s EXCEPT !.rcvNxt = Plus(@, 1)]
           t == SendAck(r)
           b == s.sackBlock
           w == s.rcvWnd
           x == s.rcvNxt
<1>1. DOMAIN s = SocketFields /\ ReceiveOK(s) /\ Loose(s) /\ s.cwnd <= TxBufferSize
  BY DEF Bounded, Loose, WaitOK
<1>2. /\ r.rcvNxt = Plus(s.rcvNxt, 1) /\ r.rcvWnd = s.rcvWnd /\ r.rcvUser = s.rcvUser
      /\ r.irs = s.irs /\ r.sackBlock = s.sackBlock /\ r.state = s.state
      /\ r.eventMask = s.eventMask /\ r.cwnd = s.cwnd
      /\ SameSender(s, r) /\ SameWaiter(s, r)
  BY <1>1 DEF SocketFields, SameSender, SameWaiter
<1> HIDE DEF r
<1>3. ReceiveOK(r)
  <2>1. Plus(s.rcvNxt, 1) \in SeqNums
    BY <1>1, PlusOf DEF ReceiveOK
  <2> QED BY <1>1, <1>2, <2>1 DEF ReceiveOK
<1>4. Loose(r)
  BY <1>1, <1>2, <1>3, SameSenderOK, SameWaiterOK DEF Loose
<1>5. Loose(t) /\ SameRest(r, t) /\ t.cwnd = r.cwnd
  BY <1>4, SendAckFits
<1> HIDE DEF t
<1>6. ASSUME Apart(s, 1)
      PROVE  Apart(r, 0)
  <2>1. x \in SeqNums /\ w \in Nat /\ 2 * w < SeqSpace /\ 1 \in Nat
    BY <1>1, WindowOf, Sizes
  <2>2. ASSUME NEW y \in SeqNums, 1 <= Offset(s, y), Offset(s, y) <= w
        PROVE  Offset(r, y) = Offset(s, y) - 1
    <3>1. Offset(r, y) = Minus(y, Plus(x, 1)) /\ Offset(s, y) = Minus(y, x)
      BY <1>2 DEF Offset
    <3> HIDE DEF x, w
    <3>2. Minus(y, Plus(x, 1)) = Minus(y, x) - 1
      BY <2>1, <2>2, <3>1, ClosestOf
    <3> QED BY <3>1, <3>2
  <2>3. ASSUME NEW i \in 1 .. Len(b)
        PROVE  /\ Offset(s, b[i].left) \in Nat /\ Offset(s, b[i].right) \in Nat
               /\ Offset(r, b[i].left) = Offset(s, b[i].left) - 1
               /\ Offset(r, b[i].right) = Offset(s, b[i].right) - 1
               /\ 0 <= Offset(r, b[i].left) /\ Interval(r, b[i])
    <3> DEFINE left == b[i].left
               right == b[i].right
    <3>1. left \in SeqNums /\ right \in SeqNums
      <4>1. b[i] \in Blocks
        BY <1>1 DEF ReceiveOK
      <4> QED BY <4>1 DEF Blocks
    <3>2. Offset(s, left) \in Nat /\ Offset(s, right) \in Nat
      BY <2>1, <3>1, OffsetsAreNats
    <3>3. 1 <= Offset(s, left) /\ Offset(s, left) <= Offset(s, right) /\ Offset(s, right) <= w
      BY <1>6 DEF Apart, Interval
    <3>4. Interval(r, b[i]) <=> Offset(r, left) <= Offset(r, right) /\ Offset(r, right) <= w
      BY <1>2 DEF Interval
    <3> HIDE DEF left, right, w
    <3>5. Offset(r, left) = Offset(s, left) - 1 /\ Offset(r, right) = Offset(s, right) - 1
      BY <2>1, <2>2, <3>1, <3>2, <3>3
    <3>6. 0 <= Offset(r, left) /\ Interval(r, b[i])
      BY <2>1, <3>2, <3>3, <3>4, <3>5
    <3> QED BY <3>2, <3>5, <3>6 DEF left, right
  <2>4. ASSUME NEW i \in 1 .. Len(b), NEW j \in 1 .. Len(b), i # j
        PROVE  Clear(r, b[i], b[j])
    <3>1. Clear(s, b[i], b[j])
      BY <1>6, <2>4 DEF Apart
    <3> QED BY <2>3, <3>1 DEF Clear
  <2> QED BY <1>2, <2>3, <2>4 DEF Apart
<1>7. Apart(s, 1) => Apart(t, 0)
  BY <1>5, <1>6, SameBlocksApart DEF SameRest, SameReceiver
<1> QED BY <1>1, <1>2, <1>5, <1>7 DEF AckFin, Bounded, SameRest, SameWaiter, r, t

LEMMA DeleteControlBlockFits ==
    ASSUME NEW s, Bounded(s)
    PROVE  LET t == DeleteControlBlock(s)
           IN  /\ Bounded(t) /\ SameReceiver(s, t) /\ t.state = s.state
               /\ t.eventMask = s.eventMask
<1> DEFINE t == DeleteControlBlock(s)
<1>1. DOMAIN s = SocketFields /\ SendOK(s) /\ ReceiveOK(s) /\ WaitOK(s)
      /\ s.cwnd <= TxBufferSize
  BY DEF Bounded, Loose, WaitOK
<1>2. /\ t.queue = <<>> /\ t.txBuffer = Released /\ t.synQueue = <<>>
      /\ t.iss = s.iss /\ t.sndUna = s.sndUna /\ t.sndNxt = s.sndNxt
      /\ t.sndWl1 = s.sndWl1 /\ t.sndWl2 = s.sndWl2 /\ t.recover = s.recover
      /\ t.sndUser = s.sndUser
      /\ t.sndWnd = s.sndWnd /\ t.maxSndWnd = s.maxSndWnd
      /\ t.cwnd = s.cwnd /\ t.congestState = s.congestState
      /\ t.dupAckCount = s.dupAckCount
      /\ t.retransmitCount = s.retransmitCount
      /\ t.wndProbeCount = s.wndProbeCount
      /\ t.out = s.out /\ t.nic = s.nic
      /\ SameReceiver(s, t)
      /\ t.state = s.state /\ t.eventMask = s.eventMask /\ t.eventFlags = s.eventFlags
      /\ DOMAIN t = SocketFields
  BY <1>1 DEF DeleteControlBlock, SocketFields, SameReceiver, SameBlocks
<1> HIDE DEF t
<1>3. SendOK(t)
  BY <1>1, <1>2 DEF SendOK, Buffers
<1>4. ReceiveOK(t)
  BY <1>1, <1>2, SameReceiverOK
<1>5. WaitOK(t)
  BY <1>1, <1>2, Sizes DEF WaitOK
<1> QED BY <1>1, <1>2, <1>3, <1>4, <1>5 DEF Bounded, Loose, t

LEMMA EnterTimeWaitFits ==
    ASSUME NEW s, Bounded(s)
    PROVE  Fit(EnterTimeWait(s)) /\ EnterTimeWait(s).state = "TIME_WAIT"
<1> DEFINE r == DeleteControlBlock(s)
<1>1. Bounded(r)
  BY DeleteControlBlockFits
<1> HIDE DEF r
<1>2. MayEnter(r, "TIME_WAIT")
  BY DEF MayEnter, States
<1> QED BY <1>1, <1>2, ChangeStateFits DEF EnterTimeWait, Fit, Bounded, r

\* The window never shrinks: the blocks stay in it.
LEMMA ConsumeFits ==
    ASSUME NEW s, Fit(s), NEW n \in Nat, n <= s.rcvUser
    PROVE  Fit(Consume(s, n))
<1> DEFINE r == [s EXCEPT !.rcvUser = @ - n]
           opened == [r EXCEPT !.rcvWnd = RxBufferSize - r.rcvUser]
           x == UpdateReceiveWindow(r)
<1>1. DOMAIN s = SocketFields /\ SendOK(s) /\ ReceiveOK(s) /\ WaitOK(s) /\ BlocksOK(s)
      /\ s.cwnd <= TxBufferSize
  BY DEF Fit, Bounded, Loose, WaitOK
<1>2. /\ s.rcvUser \in Nat /\ s.rcvWnd \in Nat /\ RxBufferSize \in Nat
      /\ s.rcvUser + s.rcvWnd <= RxBufferSize
  BY <1>1, Sizes DEF ReceiveOK
<1>3. /\ r.rcvUser = s.rcvUser - n /\ SameBlocks(s, r) /\ r.irs = s.irs
      /\ r.state = s.state /\ r.cwnd = s.cwnd /\ SameSender(s, r) /\ SameWaiter(s, r)
      /\ DOMAIN r = SocketFields
  BY <1>1 DEF SocketFields, SameSender, SameWaiter, SameBlocks
<1> HIDE DEF r
<1>4. /\ opened.rcvUser = s.rcvUser - n /\ opened.rcvWnd = RxBufferSize - (s.rcvUser - n)
      /\ opened.irs = s.irs /\ opened.rcvNxt = s.rcvNxt /\ opened.sackBlock = s.sackBlock
      /\ opened.state = s.state /\ opened.cwnd = s.cwnd
      /\ SameSender(r, opened) /\ SameWaiter(r, opened)
  BY <1>3 DEF SocketFields, SameSender, SameWaiter, SameBlocks
<1> HIDE DEF opened
<1>5. /\ s.rcvUser - n \in Nat /\ s.rcvUser - n + s.rcvWnd <= RxBufferSize
      /\ RxBufferSize - (s.rcvUser - n) \in Nat
      /\ s.rcvWnd <= RxBufferSize - (s.rcvUser - n)
      /\ (s.rcvUser - n) + (RxBufferSize - (s.rcvUser - n)) <= RxBufferSize
  BY <1>2
<1>6. Fit(r)
  <2>1. ReceiveOK(r)
    BY <1>1, <1>3, <1>5 DEF ReceiveOK, SameBlocks
  <2>2. BlocksOK(r)
    BY <1>1, <1>3, SameBlocksApart DEF BlocksOK, SameBlocks
  <2> QED BY <1>1, <1>3, <2>1, <2>2, SameSenderOK, SameWaiterOK DEF Fit, Bounded, Loose
<1>7. Fit(opened)
  <2>1. ReceiveOK(opened)
    BY <1>1, <1>4, <1>5 DEF ReceiveOK
  <2>2. ASSUME NEW low, Apart(s, low)
        PROVE  Apart(opened, low)
    <3>1. \A y : Offset(opened, y) = Offset(s, y)
      BY <1>4 DEF Offset
    <3>2. ASSUME NEW i \in 1 .. Len(s.sackBlock)
          PROVE  Interval(opened, s.sackBlock[i])
      <4> DEFINE y == s.sackBlock[i].right
      <4>1. Interval(s, s.sackBlock[i])
        BY <2>2 DEF Apart
      <4>2. y \in SeqNums
        <5>1. s.sackBlock[i] \in Blocks
          BY <1>1 DEF ReceiveOK
        <5> QED BY <5>1 DEF Blocks
      <4>3. Offset(s, y) \in Nat /\ Offset(s, y) <= s.rcvWnd
        BY <1>1, <4>1, <4>2, OffsetsAreNats DEF Interval, ReceiveOK
      <4>4. Offset(opened, y) = Offset(s, y) /\ s.rcvWnd <= opened.rcvWnd
            /\ s.rcvWnd \in Nat /\ opened.rcvWnd \in Nat
        BY <1>2, <1>4, <1>5, <3>1
      <4> HIDE DEF y
      <4>5. Offset(opened, y) <= opened.rcvWnd
        BY <4>3, <4>4
      <4> QED BY <3>1, <4>1, <4>5 DEF Interval, y
    <3> QED BY <1>4, <2>2, <3>1, <3>2 DEF Apart, Clear
  <2>3. BlocksOK(opened)
    BY <1>1, <1>4, <2>2 DEF BlocksOK
  <2> QED BY <1>1, <1>3, <1>4, <2>1, <2>3, SameSenderOK, SameWaiterOK DEF Fit, Bounded, Loose
<1>8. x \in {r, opened, SendAck(opened)}
  BY DEF UpdateReceiveWindow, opened
<1>9. Fit(x)
  BY <1>6, <1>7, <1>8, SendAckKeeps
<1>10. Consume(s, n) = UpdateEvents(x)
  BY DEF Consume, r
<1> HIDE DEF x
<1> QED BY <1>9, <1>10, UpdateEventsFits, SameReceiverOK DEF Fit, Bounded
-----------------------------------------------------------------------------
(* The state machine *)

LEMMA SendSegmentKeeps ==
    ASSUME NEW s, Fit(s), NEW flags \in SUBSET Flags, NEW seqNum \in SeqNums,
           NEW ackNum \in SeqNums, NEW length \in 0 .. Mss, NEW addToQueue \in BOOLEAN
    PROVE  LET t == SendSegment(s, flags, seqNum, ackNum, length, addToQueue)
           IN  Fit(t) /\ Keeps(s, t)
<1> DEFINE t == SendSegment(s, flags, seqNum, ackNum, length, addToQueue)
<1>1. Loose(t) /\ SameRest(s, t) /\ t.cwnd = s.cwnd
  BY SendSegmentFits DEF Fit, Bounded
<1> HIDE DEF t
<1>2. BlocksOK(t)
  BY <1>1, SameRestFits DEF Fit, Bounded, Loose
<1> QED BY <1>1, <1>2 DEF Fit, Bounded, Keeps, SameRest, SameWaiter, t

LEMMA EmptyMayEnter ==
    ASSUME NEW s, s.sackBlock = <<>>, NEW newState \in States
    PROVE  MayEnter(s, newState)
BY DEF MayEnter, Apart

LEMMA ResetSegmentOf ==
    ASSUME NEW seg \in Segments
    PROVE  ResetSegment(seg) \in Segments
<1> DEFINE extra == IF seg.flags \cap {"SYN", "FIN"} = {} THEN 0 ELSE 1
           ack == Plus(seg.seq, Len(seg.data) + extra)
<1>1. seg.ack \in SeqNums /\ ack \in SeqNums /\ 0 \in SeqNums
  <2>1. seg.seq \in SeqNums /\ seg.ack \in SeqNums /\ Len(seg.data) + extra \in Int
    BY SegmentFields
  <2> DEFINE n == Len(seg.data) + extra
             x == seg.seq
  <2>2. n \in Int /\ x \in SeqNums
    BY <2>1
  <2> HIDE DEF n, x
  <2>3. Plus(x, n) \in SeqNums
    BY <2>2, PlusOf
  <2>4. 0 \in SeqNums
    BY Sizes DEF SeqNums
  <2> QED BY <2>1, <2>3, <2>4 DEF n, x
<1>2. {"RST"} \in SUBSET Flags /\ {"RST", "ACK"} \in SUBSET Flags /\ 0 \in 0 .. RxBufferSize
  BY Sizes DEF Flags
<1>3. <<>> \in {d \in Seq(Nat) : Len(d) <= Mss}
  BY Sizes
<1> DEFINE none == <<>>
           bare == [flags |-> {"RST"}, seq |-> seg.ack, ack |-> 0, wnd |-> 0,
                    data |-> none]
           full == [flags |-> {"RST", "ACK"}, seq |-> 0, ack |-> ack, wnd |-> 0,
                    data |-> none]
<1>4. ResetSegment(seg) \in {bare, full}
  BY DEF ResetSegment
<1> HIDE DEF ack, none
<1>5. none \in {d \in Seq(Nat) : Len(d) <= Mss}
  BY <1>3 DEF none
<1>6. bare \in Segments /\ full \in Segments
  BY <1>1, <1>2, <1>5 DEF Segments
<1> QED BY <1>4, <1>6

LEMMA AnswerFits ==
    ASSUME NEW s, Fit(s), NEW seg \in Segments
    PROVE  LET t == [s EXCEPT !.out = Append(@, ResetSegment(seg))]
           IN  Fit(t) /\ Keeps(s, t)
<1> DEFINE d == ResetSegment(seg)
           t == [s EXCEPT !.out = Append(@, d)]
<1>1. DOMAIN s = SocketFields /\ SendOK(s) /\ Loose(s) /\ BlocksOK(s) /\ s.cwnd <= TxBufferSize
  BY DEF Fit, Bounded, Loose, WaitOK
<1>2. Append(s.out, d) \in Seq(Segments)
  BY <1>1, ResetSegmentOf, AppendProperties DEF SendOK
<1> HIDE DEF d
<1>3. SendOK(t)
  BY <1>1, <1>2 DEF SendOK, SocketFields
<1>4. SameRest(s, t) /\ t.cwnd = s.cwnd
  BY <1>1 DEF SameRest, SameReceiver, SameBlocks, SameWaiter, SocketFields
<1> HIDE DEF t
<1>5. Loose(t) /\ BlocksOK(t)
  BY <1>1, <1>3, <1>4, SameRestFits
<1> QED BY <1>1, <1>4, <1>5 DEF Fit, Bounded, Keeps, SameRest, SameWaiter, t, d

\* tcpShutdown, when it has waited for its data to be sent, enters FIN_WAIT_1
\* or LAST_ACK without a look at the state: the blocks must be fit for it.
Draining(s) == s.state \in {"ESTABLISHED", "CLOSE_WAIT", "CLOSED"} /\ Apart(s, 0)

\* What a step of the net task does to a socket.
Goes(s, t) ==
    /\ Fit(t)
    /\ Draining(s) => Draining(t)
    /\ s.state = "CLOSED" => t.state = "CLOSED" /\ t.sackBlock = s.sackBlock

LEMMA EndsGoes ==
    ASSUME NEW s, NEW t, Fit(t), Ends(s, t)
    PROVE  Goes(s, t)
<1>1. Apart(t, 0) <=> Apart(s, 0)
  BY SameBlocksApart DEF Ends, SameReceiver
<1> QED BY <1>1 DEF Goes, Draining, Ends, SameReceiver, SameBlocks

LEMMA KeepsGoes ==
    ASSUME NEW s, NEW t, Fit(t), Keeps(s, t)
    PROVE  Goes(s, t)
BY EndsGoes DEF Keeps, Ends

LEMMA SelfGoes ==
    ASSUME NEW s, Fit(s)
    PROVE  Goes(s, s)
BY DEF Goes

LEMMA OpenGoes ==
    ASSUME NEW s, NEW t, Fit(t), t.state \in {"ESTABLISHED", "CLOSE_WAIT"},
           s.state # "CLOSED"
    PROVE  Goes(s, t)
<1>1. Apart(t, 0)
  BY ApartLess DEF Fit, Bounded, Loose, BlocksOK
<1> QED BY <1>1 DEF Goes, Draining

LEMMA OtherGoes ==
    ASSUME NEW s, NEW t, Fit(t), s.state \notin {"ESTABLISHED", "CLOSE_WAIT", "CLOSED"}
    PROVE  Goes(s, t)
BY DEF Goes, Draining

LEMMA StateClosedGoes ==
    ASSUME NEW s, Fit(s), NEW seg \in Segments
    PROVE  Goes(s, StateClosed(s, seg))
<1>1. StateClosed(s, seg) \in {s, [s EXCEPT !.out = Append(@, ResetSegment(seg))]}
  BY DEF StateClosed
<1> QED BY <1>1, AnswerFits, KeepsGoes, SelfGoes

LEMMA StateListenFits ==
    ASSUME NEW s, Fit(s), NEW src \in Hosts, NEW seg \in Segments
    PROVE  LET t == StateListen(s, src, seg)
           IN  Fit(t) /\ t.state = s.state /\ t.eventMask = s.eventMask
<1> DEFINE item == [src |-> src, isn |-> seg.seq]
           queued == Append(s.synQueue, item)
           r == [s EXCEPT !.synQueue = queued]
           room == s.synQueue = <<>> \/ Len(s.synQueue) < SynQueueSize
<1>1. \/ StateListen(s, src, seg) \in {s, [s EXCEPT !.out = Append(@, ResetSegment(seg))]}
      \/ room /\ StateListen(s, src, seg) = UpdateEvents(r)
  BY DEF StateListen
<1>2. /\ DOMAIN s = SocketFields /\ SendOK(s) /\ ReceiveOK(s) /\ WaitOK(s) /\ BlocksOK(s)
      /\ s.cwnd <= TxBufferSize
  BY DEF Fit, Bounded, Loose, WaitOK
<1>3. ASSUME room
      PROVE  LET t == UpdateEvents(r)
             IN  Fit(t) /\ t.state = s.state /\ t.eventMask = s.eventMask
  <2>1. queued \in Seq(Requests) /\ Len(queued) <= SynQueueSize
    <3>1. item \in Requests
      BY SegmentFields DEF Requests
    <3>2. s.synQueue \in Seq(Requests) /\ Len(s.synQueue) \in Nat /\ Len(s.synQueue) < SynQueueSize
      BY <1>2, <1>3, Sizes DEF WaitOK
    <3> HIDE DEF item
    <3> QED BY <3>1, <3>2, AppendProperties, Sizes
  <2> HIDE DEF queued
  <2>2. /\ SameSender(s, r) /\ SameReceiver(s, r) /\ r.state = s.state /\ r.cwnd = s.cwnd
        /\ r.synQueue = queued /\ r.eventMask = s.eventMask
        /\ r.eventFlags = s.eventFlags /\ DOMAIN r = SocketFields
    BY <1>2 DEF SameSender, SameReceiver, SameBlocks, SocketFields
  <2> HIDE DEF r
  <2>3. WaitOK(r)
    BY <1>2, <2>1, <2>2 DEF WaitOK
  <2>4. Loose(r) /\ BlocksOK(r)
    BY <1>2, <2>2, <2>3, SameSenderOK, SameReceiverOK DEF Loose
  <2> QED BY <1>2, <2>2, <2>4, UpdateEventsFits, SameReceiverOK DEF Fit, Bounded
<1> QED BY <1>1, <1>3, AnswerFits DEF Keeps

\* tcpStateSynSent: nothing has been received out of order yet.
LEMMA StateSynSentFits ==
    ASSUME NEW s, Fit(s), s.state = "SYN_SENT", NEW seg \in Segments
    PROVE  Fit(StateSynSent(s, seg))
<1> DEFINE acked == "ACK" \in seg.flags
           una == IF acked THEN seg.ack ELSE s.sndUna
           next == Plus(seg.seq, 1)
           r == [s EXCEPT !.irs = seg.seq, !.rcvNxt = next, !.sndUna = una]
           t == UpdateRetransmitQueue(r)
           cwnd == Least(3 * Mss, TxBufferSize)
           u == [t EXCEPT !.cwnd = cwnd]
           rst == {"RST"}
           synAck == {"SYN", "ACK"}
           none == 0
           new == seg.ack
           a == SendSegment(s, rst, new, none, none, FALSE)
           b == ChangeState(s, "CLOSED")
           v == InitSendWindow(u, seg)
           c == ChangeState(SendAck(v), "ESTABLISHED")
           d == SendSegment(u, synAck, u.iss, u.rcvNxt, none, TRUE)
           e == ChangeState(d, "SYN_RECEIVED")
<1>1. StateSynSent(s, seg) \in {s, a, b, c, e}
  <2>1. r = [s EXCEPT !.irs = seg.seq, !.rcvNxt = Plus(seg.seq, 1),
                      !.sndUna = IF acked THEN seg.ack ELSE @]
    BY DEF Fit, Bounded, Loose, WaitOK
  <2> HIDE DEF r
  <2> QED BY <2>1 DEF StateSynSent
<1>2. /\ DOMAIN s = SocketFields /\ SendOK(s) /\ ReceiveOK(s) /\ WaitOK(s) /\ Loose(s)
      /\ s.sackBlock = <<>> /\ s.cwnd <= TxBufferSize
  BY DEF Fit, Bounded, Loose, WaitOK, BlocksOK
<1>3. /\ una \in SeqNums /\ next \in SeqNums /\ new \in SeqNums /\ seg.seq \in SeqNums
      /\ none \in SeqNums /\ none \in 0 .. Mss
      /\ rst \in SUBSET Flags /\ synAck \in SUBSET Flags
      /\ cwnd \in Nat /\ cwnd <= TxBufferSize
  <2>1. seg.ack \in SeqNums /\ seg.seq \in SeqNums /\ s.sndUna \in SeqNums
    BY <1>2, SegmentFields DEF SendOK
  <2>2. next \in SeqNums
    BY <2>1, PlusOf
  <2>3. cwnd \in Nat /\ cwnd <= TxBufferSize
    BY Sizes DEF Least
  <2>4. none \in SeqNums /\ none \in 0 .. Mss
    BY Sizes DEF SeqNums
  <2> QED BY <2>1, <2>2, <2>3, <2>4 DEF Flags
<1> HIDE DEF una, next, new, none, rst, synAck, cwnd
<1>4. Fit(a)
  BY <1>3, SendSegmentKeeps
<1>5. Fit(b)
  BY CloseFits
<1>6. Loose(r) /\ r.sackBlock = <<>>
  <2>1. SendOK(r)
    BY <1>2, <1>3 DEF SendOK, SocketFields
  <2>2. ReceiveOK(r)
    BY <1>2, <1>3 DEF ReceiveOK, SocketFields
  <2>3. SameWaiter(s, r) /\ r.sackBlock = <<>>
    BY <1>2 DEF SameWaiter, SocketFields
  <2> HIDE DEF r
  <2> QED BY <1>2, <2>1, <2>2, <2>3, SameWaiterOK DEF Loose
<1> HIDE DEF r
<1>7. Loose(t) /\ t.sackBlock = <<>>
  BY <1>6, UpdateRetransmitQueueFits DEF SameRest, SameReceiver, SameBlocks
<1> HIDE DEF t
<1>8. Loose(u) /\ u.sackBlock = <<>> /\ u.cwnd = cwnd
  BY <1>3, <1>7, CwndFits DEF SameRest, SameReceiver, SameBlocks
<1> HIDE DEF u
<1>9. Loose(v) /\ v.sackBlock = <<>> /\ v.cwnd = cwnd
  BY <1>8, InitSendWindowFits DEF SameRest, SameReceiver, SameBlocks
<1> HIDE DEF v
<1>10. Fit(c)
  <2>1. Loose(SendAck(v)) /\ SendAck(v).sackBlock = <<>> /\ SendAck(v).cwnd = cwnd
    BY <1>9, SendAckFits DEF SameRest, SameReceiver, SameBlocks
  <2>2. MayEnter(SendAck(v), "ESTABLISHED")
    BY <2>1, EmptyMayEnter DEF States
  <2> QED BY <1>3, <2>1, <2>2, ChangeStateFits DEF Fit, Bounded
<1>11. Loose(d) /\ d.sackBlock = <<>> /\ d.cwnd = cwnd
  <2>1. u.iss \in SeqNums /\ u.rcvNxt \in SeqNums
    BY <1>8 DEF Loose, SendOK, ReceiveOK
  <2> DEFINE iss == u.iss
             nxt == u.rcvNxt
  <2> HIDE DEF iss, nxt
  <2> DEFINE f == SendSegment(u, synAck, iss, nxt, none, TRUE)
  <2>2. Loose(f) /\ SameRest(u, f) /\ f.cwnd = u.cwnd
    <3>1. iss \in SeqNums /\ nxt \in SeqNums /\ TRUE \in BOOLEAN /\ Loose(u)
      BY <1>8, <2>1 DEF iss, nxt
    <3> DEFINE flags == synAck
               length == none
               queued == TRUE
    <3>2. flags \in SUBSET Flags /\ length \in 0 .. Mss /\ queued \in BOOLEAN
      BY <1>3
    <3> HIDE DEF flags, length, queued, f
    <3>3. LET g == SendSegment(u, flags, iss, nxt, length, queued)
          IN  Loose(g) /\ SameRest(u, g) /\ g.cwnd = u.cwnd
      BY <3>1, <3>2, SendSegmentFits
    <3> QED BY <3>3 DEF f, flags, length, queued
  <2>3. f = d
    BY DEF iss, nxt
  <2> HIDE DEF f, d
  <2> QED BY <1>8, <2>2, <2>3 DEF SameRest, SameReceiver, SameBlocks
<1> HIDE DEF d
<1>12. Fit(e)
  <2>1. MayEnter(d, "SYN_RECEIVED")
    BY <1>11, EmptyMayEnter DEF States
  <2> QED BY <1>3, <1>11, <2>1, ChangeStateFits DEF Fit, Bounded
<1> HIDE DEF a, b, c, e
<1> QED BY <1>1, <1>4, <1>5, <1>10, <1>12

LEMMA RefuseGoes ==
    ASSUME NEW s, Fit(s), NEW seg \in Segments
    PROVE  Goes(s, Refuse(s, seg)) /\ Goes(s, RefuseAck(s, seg))
<1>1. Goes(s, Refuse(s, seg))
  BY RefuseFits, EndsGoes
<1>2. Goes(s, RefuseAck(s, seg))
  BY RefuseAckFits, KeepsGoes
<1> QED BY <1>1, <1>2

LEMMA SendPendingFits ==
    ASSUME NEW s, Fit(s)
    PROVE  Fit(SendPending(s)) /\ Keeps(s, SendPending(s))
BY NagleAlgoFits DEF SendPending, Keeps

LEMMA FinOfEstablishedFits ==
    ASSUME NEW s, Fit(s), s.state = "ESTABLISHED", NEW seg
    PROVE  LET t == FinOfEstablished(s, seg)
           IN  Fit(t) /\ t.state \in {"ESTABLISHED", "CLOSE_WAIT"}
<1> DEFINE r == AckFin(s)
<1>1. Bounded(s) /\ Apart(s, 1)
  BY DEF Fit, BlocksOK
<1>2. Bounded(r) /\ Apart(r, 0)
  BY <1>1, AckFinFits
<1> HIDE DEF r
<1>3. MayEnter(r, "CLOSE_WAIT")
  BY <1>2 DEF MayEnter, States
<1>4. Fit(ChangeState(r, "CLOSE_WAIT")) /\ ChangeState(r, "CLOSE_WAIT").state = "CLOSE_WAIT"
  BY <1>2, <1>3, ChangeStateFits DEF Fit, Bounded
<1>5. FinOfEstablished(s, seg) \in {s, ChangeState(r, "CLOSE_WAIT")}
  BY DEF FinOfEstablished, r
<1> QED BY <1>4, <1>5

LEMMA StateEstablishedGoes ==
    ASSUME NEW s, Fit(s), s.state = "ESTABLISHED", NEW seg \in Segments
    PROVE  Goes(s, StateEstablished(s, seg))
<1> DEFINE t == CheckAck(s, seg)
           u == ReceiveText(t, seg)
           v == FinOfEstablished(u, seg)
           w == SendPending(v)
<1>1. CASE Refused(s, seg)
  BY <1>1, RefuseGoes DEF StateEstablished
<1>2. CASE ~Refused(s, seg) /\ AckRefused(s, seg)
  BY <1>2, RefuseGoes DEF StateEstablished
<1>3. CASE ~Refused(s, seg) /\ ~AckRefused(s, seg)
  <2>1. StateEstablished(s, seg) = w
    BY <1>3 DEF StateEstablished
  <2>2. Fit(t) /\ Keeps(s, t)
    BY CheckAckFits
  <2> HIDE DEF t
  <2>3. Acceptable(t, seg) /\ t.state = "ESTABLISHED"
    BY <1>3, <2>2 DEF Refused, Acceptable, InWindow, Keeps, SameReceiver, SameBlocks
  <2>4. Fit(u) /\ u.state = "ESTABLISHED"
    BY <2>2, <2>3, ReceiveTextFits DEF Receiving
  <2> HIDE DEF u
  <2>5. Fit(v) /\ v.state \in {"ESTABLISHED", "CLOSE_WAIT"}
    BY <2>4, FinOfEstablishedFits
  <2> HIDE DEF v
  <2>6. Fit(w) /\ w.state \in {"ESTABLISHED", "CLOSE_WAIT"}
    BY <2>5, SendPendingFits DEF Keeps
  <2> HIDE DEF w
  <2> QED BY <2>1, <2>6, OpenGoes
<1> QED BY <1>1, <1>2, <1>3

LEMMA StateSynReceivedFits ==
    ASSUME NEW s, Fit(s), s.state = "SYN_RECEIVED", NEW seg \in Segments
    PROVE  Fit(StateSynReceived(s, seg))
<1> DEFINE rst == {"RST"}
           none == 0
           new == seg.ack
           queued == FALSE
           a == SendSegment(s, rst, new, none, none, queued)
           r == InitSendWindow(s, seg)
           t == ChangeState(r, "ESTABLISHED")
           b == StateEstablished(t, seg)
<1>1. StateSynReceived(s, seg) \in {s, Refuse(s, seg), a, b}
  BY DEF StateSynReceived
<1>2. Fit(Refuse(s, seg))
  BY RefuseFits
<1>3. rst \in SUBSET Flags /\ none \in SeqNums /\ none \in 0 .. Mss /\ new \in SeqNums
      /\ queued \in BOOLEAN
  <2>1. none \in SeqNums /\ none \in 0 .. Mss
    BY Sizes DEF SeqNums
  <2>2. new \in SeqNums
    BY SegmentFields
  <2> QED BY <2>1, <2>2 DEF Flags
<1> HIDE DEF rst, none, new, queued
<1>4. Fit(a)
  BY <1>3, SendSegmentKeeps
<1>5. Fit(t) /\ t.state = "ESTABLISHED"
  <2>1. Loose(s) /\ Apart(s, 1) /\ s.cwnd <= TxBufferSize
    BY DEF Fit, Bounded, BlocksOK
  <2>2. Loose(r) /\ SameRest(s, r) /\ r.cwnd = s.cwnd
    BY <2>1, InitSendWindowFits
  <2> HIDE DEF r
  <2>3. MayEnter(r, "ESTABLISHED")
    BY <2>1, <2>2, SameBlocksApart DEF MayEnter, SameRest, SameReceiver, States
  <2> QED BY <2>1, <2>2, <2>3, ChangeStateFits DEF Fit, Bounded
<1> HIDE DEF t
<1>6. Fit(b)
  BY <1>5, StateEstablishedGoes DEF Goes
<1> HIDE DEF a, b
<1> QED BY <1>1, <1>2, <1>4, <1>6

LEMMA StateCloseWaitGoes ==
    ASSUME NEW s, Fit(s), NEW seg \in Segments
    PROVE  Goes(s, StateCloseWait(s, seg))
<1> DEFINE t == CheckAck(s, seg)
           w == SendPending(t)
<1>1. StateCloseWait(s, seg) \in {Refuse(s, seg), RefuseAck(s, seg), w}
  BY DEF StateCloseWait
<1>2. Fit(t) /\ Keeps(s, t)
  BY CheckAckFits
<1> HIDE DEF t
<1>3. Fit(w) /\ Keeps(t, w)
  BY <1>2, SendPendingFits
<1> HIDE DEF w
<1>4. Goes(s, w)
  BY <1>2, <1>3, KeepsOfKeeps, KeepsGoes
<1> QED BY <1>1, <1>4, RefuseGoes

LEMMA StateLastAckFits ==
    ASSUME NEW s, Fit(s), NEW seg \in Segments
    PROVE  Fit(StateLastAck(s, seg))
<1>1. StateLastAck(s, seg) \in {Refuse(s, seg), ChangeState(s, "CLOSED"), s}
  BY DEF StateLastAck
<1> QED BY <1>1, RefuseFits, CloseFits

LEMMA FinInFinWaitFits ==
    ASSUME NEW s, Fit(s), NEW seg
    PROVE  Fit(FinInFinWait1(s, seg)) /\ Fit(FinInFinWait2(s, seg))
<1> DEFINE r == AckFin(s)
           a == EnterTimeWait(r)
           b == ChangeState(r, "CLOSING")
<1>1. FinInFinWait1(s, seg) \in {s, a, b} /\ FinInFinWait2(s, seg) \in {s, a}
  BY DEF FinInFinWait1, FinInFinWait2
<1>2. Bounded(r)
  BY AckFinFits DEF Fit
<1> HIDE DEF r
<1>3. Fit(a)
  BY <1>2, EnterTimeWaitFits
<1>4. MayEnter(r, "CLOSING")
  BY DEF MayEnter, States
<1>5. Fit(b)
  BY <1>2, <1>4, ChangeStateFits DEF Fit, Bounded
<1> HIDE DEF a, b
<1> QED BY <1>1, <1>3, <1>5

LEMMA StateFinWait1Fits ==
    ASSUME NEW s, Fit(s), s.state = "FIN_WAIT_1", NEW seg \in Segments
    PROVE  Fit(StateFinWait1(s, seg))
<1> DEFINE t == CheckAck(s, seg)
           u == AckInFinWait1(t, seg)
           v == ReceiveText(u, seg)
           w == FinInFinWait1(v, seg)
<1>1. CASE Refused(s, seg)
  BY <1>1, RefuseFits DEF StateFinWait1
<1>2. CASE ~Refused(s, seg) /\ AckRefused(s, seg)
  BY <1>2, RefuseAckFits DEF StateFinWait1
<1>3. CASE ~Refused(s, seg) /\ ~AckRefused(s, seg)
  <2>1. StateFinWait1(s, seg) = w
    BY <1>3 DEF StateFinWait1
  <2>2. Fit(t) /\ Keeps(s, t)
    BY CheckAckFits
  <2> HIDE DEF t
  <2>3. u \in {t, ChangeState(t, "FIN_WAIT_2")}
    BY DEF AckInFinWait1
  <2>4. MayEnter(t, "FIN_WAIT_2")
    BY <2>2 DEF MayEnter, States, Fit, BlocksOK, Keeps
  <2> DEFINE x == ChangeState(t, "FIN_WAIT_2")
  <2>5. Fit(x) /\ SameReceiver(t, x) /\ x.state = "FIN_WAIT_2"
    BY <2>2, <2>4, ChangeStateFits DEF Fit, Bounded
  <2> HIDE DEF u, x
  <2>6. Fit(u) /\ SameReceiver(s, u) /\ u.state \in Receiving
    BY <2>2, <2>3, <2>5 DEF Keeps, SameReceiver, SameBlocks, Receiving, x
  <2>7. Acceptable(u, seg)
    BY <1>3, <2>6 DEF Refused, Acceptable, InWindow, SameReceiver, SameBlocks
  <2>8. Fit(v)
    BY <2>6, <2>7, ReceiveTextFits
  <2> HIDE DEF v
  <2>9. Fit(w)
    BY <2>8, FinInFinWaitFits
  <2> QED BY <2>1, <2>9
<1> QED BY <1>1, <1>2, <1>3

LEMMA StateFinWait2Fits ==
    ASSUME NEW s, Fit(s), s.state = "FIN_WAIT_2", NEW seg \in Segments
    PROVE  Fit(StateFinWait2(s, seg))
<1> DEFINE t == CheckAck(s, seg)
           v == ReceiveText(t, seg)
           w == FinInFinWait2(v, seg)
<1>1. CASE Refused(s, seg)
  BY <1>1, RefuseFits DEF StateFinWait2
<1>2. CASE ~Refused(s, seg) /\ AckRefused(s, seg)
  BY <1>2, RefuseAckFits DEF StateFinWait2
<1>3. CASE ~Refused(s, seg) /\ ~AckRefused(s, seg)
  <2>1. StateFinWait2(s, seg) = w
    BY <1>3 DEF StateFinWait2
  <2>2. Fit(t) /\ Keeps(s, t)
    BY CheckAckFits
  <2> HIDE DEF t
  <2>3. Acceptable(t, seg) /\ t.state \in Receiving
    BY <1>3, <2>2 DEF Refused, Acceptable, InWindow, Keeps, SameReceiver, SameBlocks, Receiving
  <2>4. Fit(v)
    BY <2>2, <2>3, ReceiveTextFits
  <2> HIDE DEF v
  <2>5. Fit(w)
    BY <2>4, FinInFinWaitFits
  <2> QED BY <2>1, <2>5
<1> QED BY <1>1, <1>2, <1>3

LEMMA StateClosingFits ==
    ASSUME NEW s, Fit(s), NEW seg \in Segments
    PROVE  Fit(StateClosing(s, seg))
<1> DEFINE t == CheckAck(s, seg)
<1>1. StateClosing(s, seg) \in {Refuse(s, seg), RefuseAck(s, seg), t, EnterTimeWait(t)}
  BY DEF StateClosing, AckInClosing
<1>2. Fit(t)
  BY CheckAckFits
<1> HIDE DEF t
<1>3. Fit(EnterTimeWait(t))
  BY <1>2, EnterTimeWaitFits DEF Fit
<1> QED BY <1>1, <1>2, <1>3, RefuseFits, RefuseAckFits

LEMMA FreeFits ==
    ASSUME NEW s, Fit(s)
    PROVE  Fit(Free(s)) /\ Fit(Dispose(s))
<1> DEFINE t == [Unused EXCEPT !.out = s.out, !.nic = s.nic]
<1>1. /\ DOMAIN Unused = SocketFields /\ SendOK(Unused) /\ Loose(Unused) /\ BlocksOK(Unused)
      /\ Unused.cwnd <= TxBufferSize
  BY UnusedFits DEF Fit, Bounded, Loose
<1>2. s.out \in Seq(Segments) /\ s.nic \in Nics
  BY DEF Fit, Bounded, Loose, SendOK
<1>3. SendOK(t)
  BY <1>1, <1>2 DEF SendOK, SocketFields
<1>4. SameRest(Unused, t) /\ t.cwnd = Unused.cwnd
  BY <1>1 DEF SameRest, SameReceiver, SameBlocks, SameWaiter, SocketFields
<1> HIDE DEF t
<1>5. Loose(t) /\ BlocksOK(t)
  BY <1>1, <1>3, <1>4, SameRestFits
<1>6. Fit(t)
  BY <1>1, <1>4, <1>5 DEF Fit, Bounded
<1> QED BY <1>6 DEF Free, Dispose, t

LEMMA StateTimeWaitFits ==
    ASSUME NEW s, Fit(s), NEW seg \in Segments
    PROVE  Fit(StateTimeWait(s, seg))
<1> DEFINE t == ChangeState(s, "CLOSED")
<1>1. StateTimeWait(s, seg) \in {Dispose(t), Refuse(s, seg), SendAck(s), s}
  BY DEF StateTimeWait
<1>2. Fit(t)
  BY CloseFits
<1> HIDE DEF t
<1> QED BY <1>1, <1>2, FreeFits, RefuseFits, SendAckKeeps

LEMMA ProcessStateGoes ==
    ASSUME NEW s, Fit(s), NEW src \in Hosts, NEW seg \in Segments
    PROVE  Goes(s, ProcessState(s, src, seg))
<1> DEFINE t == ProcessState(s, src, seg)
<1>1. s.state \in States
  BY DEF Fit, Bounded, Loose, WaitOK
<1>2. CASE s.state = "CLOSED"
  BY <1>2, StateClosedGoes DEF ProcessState
<1>3. CASE s.state = "ESTABLISHED"
  BY <1>3, StateEstablishedGoes DEF ProcessState
<1>4. CASE s.state = "CLOSE_WAIT"
  BY <1>4, StateCloseWaitGoes DEF ProcessState
<1>5. CASE s.state \notin {"ESTABLISHED", "CLOSE_WAIT", "CLOSED"}
  <2>1. s.state = "LISTEN" => Fit(t)
    BY StateListenFits DEF ProcessState
  <2>2. s.state = "SYN_SENT" => Fit(t)
    BY StateSynSentFits DEF ProcessState
  <2>3. s.state = "SYN_RECEIVED" => Fit(t)
    BY StateSynReceivedFits DEF ProcessState
  <2>4. s.state = "LAST_ACK" => Fit(t)
    BY StateLastAckFits DEF ProcessState
  <2>5. s.state = "FIN_WAIT_1" => Fit(t)
    BY StateFinWait1Fits DEF ProcessState
  <2>6. s.state = "FIN_WAIT_2" => Fit(t)
    BY StateFinWait2Fits DEF ProcessState
  <2>7. s.state = "CLOSING" => Fit(t)
    BY StateClosingFits DEF ProcessState
  <2>8. s.state = "TIME_WAIT" => Fit(t)
    BY StateTimeWaitFits DEF ProcessState
  <2> HIDE DEF t
  <2>9. Fit(t)
    BY <1>1, <1>5, <2>1, <2>2, <2>3, <2>4, <2>5, <2>6, <2>7, <2>8 DEF States
  <2>10. Goes(s, t)
    BY <1>5, <2>9, OtherGoes
  <2> QED BY <2>10 DEF t
<1> QED BY <1>2, <1>3, <1>4, <1>5
-----------------------------------------------------------------------------
(* The timers *)

LEMMA RestKeeps ==
    ASSUME NEW s, BlocksOK(s), NEW t, Loose(t), SameRest(s, t), t.cwnd <= TxBufferSize
    PROVE  Fit(t) /\ Keeps(s, t)
BY SameReceiverOK DEF Fit, Bounded, Keeps, SameRest, SameWaiter

LEMMA CountersFit ==
    ASSUME NEW s, Fit(s), NEW n \in 0 .. MaxRetries
    PROVE  /\ LET t == [s EXCEPT !.retransmitCount = n] IN Fit(t) /\ Keeps(s, t)
           /\ LET t == [s EXCEPT !.wndProbeCount = n] IN Fit(t) /\ Keeps(s, t)
           /\ LET t == [s EXCEPT !.retransmitTimer = FALSE] IN Fit(t) /\ Keeps(s, t)
<1> DEFINE a == [s EXCEPT !.retransmitCount = n]
           b == [s EXCEPT !.wndProbeCount = n]
           c == [s EXCEPT !.retransmitTimer = FALSE]
<1>1. DOMAIN s = SocketFields /\ SendOK(s) /\ Loose(s) /\ BlocksOK(s) /\ s.cwnd <= TxBufferSize
  BY DEF Fit, Bounded, Loose, WaitOK
<1>2. SendOK(a) /\ SendOK(b) /\ SendOK(c)
  <2>1. SendOK(a)
    BY <1>1 DEF SendOK, SocketFields
  <2>2. SendOK(b)
    BY <1>1 DEF SendOK, SocketFields
  <2>3. SendOK(c)
    BY <1>1 DEF SendOK, SocketFields
  <2> QED BY <2>1, <2>2, <2>3
<1>3. /\ SameRest(s, a) /\ a.cwnd = s.cwnd
      /\ SameRest(s, b) /\ b.cwnd = s.cwnd
      /\ SameRest(s, c) /\ c.cwnd = s.cwnd
  BY <1>1 DEF SameRest, SameReceiver, SameBlocks, SameWaiter, SocketFields
<1> HIDE DEF a, b, c
<1>4. /\ Loose(a) /\ BlocksOK(a) /\ Loose(b) /\ BlocksOK(b) /\ Loose(c) /\ BlocksOK(c)
  BY <1>1, <1>2, <1>3, SameRestFits
<1> QED BY <1>1, <1>3, <1>4 DEF Fit, Bounded, Keeps, SameRest, SameWaiter, a, b, c

LEMMA RetransmitTimeoutGoes ==
    ASSUME NEW s, Fit(s)
    PROVE  Goes(s, RetransmitTimeout(s))
<1> DEFINE cwnd == Least(Mss, TxBufferSize)
           recover == Minus(s.sndNxt, 1)
           congestState == "LOSS_RECOVERY"
           t == [s EXCEPT !.cwnd = cwnd, !.recover = recover, !.congestState = congestState]
           r == RetransmitSegment(t)
           a == [r EXCEPT !.retransmitCount = @ + 1]
           q == ChangeState(t, "CLOSED")
           b == [q EXCEPT !.retransmitTimer = FALSE]
<1>1. RetransmitTimeout(s) = IF s.retransmitCount < MaxRetries THEN a ELSE b
  BY DEF RetransmitTimeout
<1>2. /\ DOMAIN s = SocketFields /\ Loose(s) /\ BlocksOK(s)
      /\ s.sndNxt \in SeqNums /\ s.retransmitCount \in 0 .. MaxRetries
  BY DEF Fit, Bounded, Loose, SendOK, WaitOK
<1>3. /\ cwnd \in Nat /\ cwnd <= TxBufferSize /\ recover \in SeqNums
      /\ congestState \in {"IDLE", "RECOVERY", "LOSS_RECOVERY"}
  <2>1. cwnd \in Nat /\ cwnd <= TxBufferSize
    BY Sizes DEF Least
  <2>2. recover \in SeqNums
    BY <1>2, MinusOf
  <2> QED BY <2>1, <2>2
<1> HIDE DEF cwnd, recover, congestState
<1>4. SendOK(t)
  BY <1>2, <1>3 DEF Loose, SendOK, SocketFields
<1>5. /\ Loose(t) /\ SameRest(s, t) /\ t.cwnd = cwnd
      /\ t.retransmitCount = s.retransmitCount
  <2>1. /\ SameRest(s, t) /\ t.cwnd = cwnd
        /\ t.retransmitCount = s.retransmitCount
    BY <1>2 DEF SameRest, SameReceiver, SameBlocks, SameWaiter, SocketFields
  <2> HIDE DEF t
  <2> QED BY <1>2, <1>4, <2>1, SameRestFits
<1> HIDE DEF t
<1>6. Fit(t) /\ Keeps(s, t)
  BY <1>2, <1>3, <1>5, RestKeeps
<1>7. /\ Loose(r) /\ SameRest(t, r) /\ r.cwnd = t.cwnd
      /\ r.retransmitCount = s.retransmitCount
  BY <1>5, RetransmitSegmentFits
<1> HIDE DEF r
<1>8. Fit(r) /\ Keeps(s, r)
  <2>1. BlocksOK(t) /\ r.cwnd <= TxBufferSize
    BY <1>3, <1>5, <1>6, <1>7 DEF Fit
  <2>2. Fit(r) /\ Keeps(t, r)
    BY <1>7, <2>1, RestKeeps
  <2> QED BY <1>6, <2>2, KeepsOfKeeps
<1>9. CASE s.retransmitCount < MaxRetries
  <2> DEFINE n == s.retransmitCount + 1
             x == [r EXCEPT !.retransmitCount = n]
  <2>1. n \in 0 .. MaxRetries /\ r.retransmitCount + 1 = n
    BY <1>2, <1>7, <1>9, Sizes
  <2>2. a = x
    BY <2>1
  <2> HIDE DEF n, a
  <2>3. Fit(x) /\ Keeps(r, x)
    BY <1>8, <2>1, CountersFit
  <2> HIDE DEF x
  <2> QED BY <1>1, <1>8, <1>9, <2>2, <2>3, KeepsOfKeeps, KeepsGoes
<1>10. CASE ~(s.retransmitCount < MaxRetries)
  <2>1. Fit(q) /\ Ends(t, q) /\ q.state = "CLOSED"
    BY <1>6, CloseFits
  <2> HIDE DEF q
  <2>2. 0 \in 0 .. MaxRetries
    BY Sizes
  <2>3. Fit(b) /\ Keeps(q, b)
    BY <2>1, <2>2, CountersFit
  <2> HIDE DEF b
  <2>4. Ends(s, b)
    BY <1>6, <2>1, <2>3 DEF Ends, Keeps, SameReceiver, SameBlocks
  <2> QED BY <1>1, <1>10, <2>3, <2>4, EndsGoes
<1> QED BY <1>9, <1>10

LEMMA PersistTimeoutGoes ==
    ASSUME NEW s, Fit(s)
    PROVE  Goes(s, PersistTimeout(s))
<1> DEFINE ack == {"ACK"}
           none == 0
           probe == Minus(s.sndNxt, 1)
           next == s.rcvNxt
           queued == FALSE
           r == SendSegment(s, ack, probe, next, none, queued)
           n == s.wndProbeCount + 1
           a == [r EXCEPT !.wndProbeCount = n]
<1>1. s.sndNxt \in SeqNums /\ s.rcvNxt \in SeqNums /\ s.wndProbeCount \in 0 .. MaxRetries
      /\ DOMAIN s = SocketFields
  BY DEF Fit, Bounded, Loose, SendOK, ReceiveOK, WaitOK
<1>2. PersistTimeout(s) = IF s.wndProbeCount < MaxRetries THEN a
                          ELSE ChangeState(s, "CLOSED")
  <2>1. r.wndProbeCount = s.wndProbeCount
    BY <1>1 DEF SendSegment, SocketFields
  <2> QED BY <2>1 DEF PersistTimeout
<1>3. ack \in SUBSET Flags /\ none \in 0 .. Mss /\ probe \in SeqNums /\ next \in SeqNums
      /\ queued \in BOOLEAN
  <2>1. probe \in SeqNums
    BY <1>1, MinusOf
  <2> QED BY <1>1, <2>1, Sizes DEF Flags
<1> HIDE DEF ack, none, probe, next, queued
<1>4. Fit(r) /\ Keeps(s, r)
  BY <1>3, SendSegmentKeeps
<1> HIDE DEF r
<1>5. CASE s.wndProbeCount < MaxRetries
  <2>1. n \in 0 .. MaxRetries
    BY <1>1, <1>5, Sizes
  <2> HIDE DEF n
  <2>2. Fit(a) /\ Keeps(r, a)
    BY <1>4, <2>1, CountersFit
  <2> HIDE DEF a
  <2> QED BY <1>2, <1>4, <1>5, <2>2, KeepsOfKeeps, KeepsGoes
<1>6. CASE ~(s.wndProbeCount < MaxRetries)
  BY <1>2, <1>6, CloseFits, EndsGoes
<1> QED BY <1>5, <1>6

LEMMA OverrideTimeoutGoes ==
    ASSUME NEW s, Fit(s)
    PROVE  Goes(s, OverrideTimeout(s))
<1> DEFINE amount == Least(s.sndUser, UsableWindow(s))
           r == SendData(s, amount)
           t == UpdateEvents(r)
<1>1. amount \in Int /\ amount <= s.sndUser
  <2>1. s.sndUser \in Int /\ s.sndWnd \in Int /\ s.cwnd \in Int
        /\ s.sndNxt \in SeqNums /\ s.sndUna \in SeqNums
    BY Sizes DEF Fit, Bounded, Loose, SendOK
  <2>2. InFlight(s) \in Int
    <3>1. s.sndUna \in Nat
      BY <2>1, SeqNumsAreNats
    <3>2. s.sndUna \in Int
      BY <3>1
    <3>3. InFlight(s) \in SeqNums
      BY <2>1, <3>2, MinusOf DEF InFlight
    <3>4. InFlight(s) \in Nat
      BY <3>3, SeqNumsAreNats
    <3> QED BY <3>4
  <2>3. UsableWindow(s) \in Int
    BY <2>1, <2>2, Sizes DEF UsableWindow, Least
  <2> QED BY <2>1, <2>3 DEF Least
<1> HIDE DEF amount
<1>2. Loose(s) /\ BlocksOK(s) /\ s.cwnd <= TxBufferSize
  BY DEF Fit, Bounded
<1>3. Loose(r) /\ SameRest(s, r) /\ r.cwnd = s.cwnd
  BY <1>1, <1>2, SendDataFits
<1>4. Fit(r) /\ Keeps(s, r)
  BY <1>2, <1>3, RestKeeps
<1> HIDE DEF r
<1>5. /\ Loose(t) /\ t.cwnd = r.cwnd /\ t.state = r.state /\ SameReceiver(r, t)
      /\ t.eventMask = r.eventMask
  BY <1>4, UpdateEventsFits DEF Fit, Bounded
<1>6. OverrideTimeout(s) = t
  BY DEF OverrideTimeout, r, amount
<1> HIDE DEF t
<1>7. Fit(t) /\ Keeps(r, t)
  BY <1>4, <1>5, SameReceiverOK DEF Fit, Bounded, Keeps
<1> QED BY <1>4, <1>6, <1>7, KeepsOfKeeps, KeepsGoes
-----------------------------------------------------------------------------
(* The user's calls *)

\* Between two steps a socket has nothing to send.
AtRest(s) == Fit(s) /\ s.out = <<>> /\ s.nic = "up"

LEMMA NicFits ==
    ASSUME NEW s, Fit(s), NEW nic \in Nics
    PROVE  LET t == [s EXCEPT !.nic = nic]
           IN  Fit(t) /\ Keeps(s, t) /\ t.sndUser = s.sndUser /\ t.sackBlock = s.sackBlock
<1> DEFINE t == [s EXCEPT !.nic = nic]
<1>1. DOMAIN s = SocketFields /\ SendOK(s) /\ Loose(s) /\ BlocksOK(s) /\ s.cwnd <= TxBufferSize
  BY DEF Fit, Bounded, Loose, WaitOK
<1>2. SendOK(t)
  BY <1>1 DEF SendOK, SocketFields
<1>3. SameRest(s, t) /\ t.cwnd = s.cwnd /\ t.sndUser = s.sndUser /\ t.sackBlock = s.sackBlock
  BY <1>1 DEF SameRest, SameReceiver, SameBlocks, SameWaiter, SocketFields
<1> HIDE DEF t
<1>4. Loose(t)
  BY <1>1, <1>2, <1>3, SameRestFits
<1> QED BY <1>1, <1>3, <1>4, RestKeeps DEF t

LEMMA RestFits ==
    ASSUME NEW s, Fit(s)
    PROVE  LET t == [s EXCEPT !.out = <<>>, !.nic = "up"]
           IN  AtRest(t) /\ Keeps(s, t)
<1> DEFINE t == [s EXCEPT !.out = <<>>, !.nic = "up"]
<1>1. DOMAIN s = SocketFields /\ SendOK(s) /\ Loose(s) /\ BlocksOK(s) /\ s.cwnd <= TxBufferSize
  BY DEF Fit, Bounded, Loose, WaitOK
<1>2. SendOK(t)
  BY <1>1 DEF SendOK, SocketFields, Nics
<1>3. SameRest(s, t) /\ t.cwnd = s.cwnd /\ t.out = <<>> /\ t.nic = "up"
  BY <1>1 DEF SameRest, SameReceiver, SameBlocks, SameWaiter, SocketFields
<1> HIDE DEF t
<1>4. Loose(t)
  BY <1>1, <1>2, <1>3, SameRestFits
<1>5. Fit(t) /\ Keeps(s, t)
  BY <1>1, <1>3, <1>4, RestKeeps
<1> QED BY <1>3, <1>5 DEF AtRest, t

\* A socket whose events alone change.
SameButEvents(s, t) ==
    /\ SameSender(s, t) /\ SameReceiver(s, t)
    /\ t.state = s.state /\ t.synQueue = s.synQueue /\ DOMAIN t = DOMAIN s

LEMMA SameButEventsFits ==
    ASSUME NEW s, Fit(s), NEW t, SameButEvents(s, t),
           t.eventMask \subseteq Events, t.eventFlags \subseteq t.eventMask
    PROVE  Fit(t) /\ t.out = s.out /\ t.nic = s.nic
<1>1. /\ SendOK(s) /\ ReceiveOK(s) /\ WaitOK(s) /\ BlocksOK(s)
      /\ s.cwnd <= TxBufferSize
  BY DEF Fit, Bounded, Loose
<1>2. WaitOK(t)
  BY <1>1 DEF WaitOK, SameButEvents
<1>3. SendOK(t) /\ ReceiveOK(t) /\ BlocksOK(t)
  BY <1>1, SameSenderOK, SameReceiverOK DEF SameButEvents
<1>4. t.out = s.out /\ t.nic = s.nic /\ t.cwnd = s.cwnd
  BY DEF SameButEvents, SameSender
<1> QED BY <1>1, <1>2, <1>3, <1>4 DEF Fit, Bounded, Loose

LEMMA UnwatchedFits ==
    ASSUME NEW s, Fit(s)
    PROVE  LET t == Unwatched(s)
           IN  /\ Fit(t) /\ SameReceiver(s, t) /\ t.state = s.state
               /\ t.out = s.out /\ t.nic = s.nic /\ t.eventMask = {}
<1> DEFINE t == Unwatched(s)
<1>1. DOMAIN s = SocketFields
  BY DEF Fit, Bounded, Loose, WaitOK
<1>2. SameButEvents(s, t) /\ t.eventMask = {} /\ t.eventFlags = {}
  BY <1>1 DEF Unwatched, SameButEvents, SameSender, SameReceiver, SameBlocks, SocketFields
<1> HIDE DEF t
<1>3. Fit(t) /\ t.out = s.out /\ t.nic = s.nic
  BY <1>2, SameButEventsFits
<1> QED BY <1>2, <1>3 DEF t, SameButEvents

LEMMA WaitForEventsFits ==
    ASSUME NEW s, Fit(s), NEW mask \in SUBSET Events
    PROVE  LET t == WaitForEvents(s, mask)
           IN  /\ Fit(t) /\ SameReceiver(s, t) /\ t.state = s.state
               /\ t.out = s.out /\ t.nic = s.nic /\ t.eventMask = mask
<1> DEFINE r == [s EXCEPT !.eventMask = mask]
           u == UpdateEvents(r)
           t == [u EXCEPT !.event = @ /\ u.eventFlags # {}]
<1>1. DOMAIN s = SocketFields
  BY DEF Fit, Bounded, Loose, WaitOK
<1>2. /\ SameButEvents(s, r) /\ r.eventMask = mask
  BY <1>1 DEF SameButEvents, SameSender, SameReceiver, SameBlocks, SocketFields
<1>3. WaitForEvents(s, mask) = t
  BY DEF WaitForEvents
<1> HIDE DEF r
<1>4. DOMAIN r = SocketFields
  BY <1>1, <1>2 DEF SameButEvents
<1>5. SameButEvents(r, u) /\ u.eventMask = r.eventMask /\ u.eventFlags \subseteq r.eventMask
  BY <1>4 DEF UpdateEvents, SameButEvents, SameSender, SameReceiver, SameBlocks, SocketFields
<1> HIDE DEF u
<1>6. DOMAIN u = SocketFields
  BY <1>4, <1>5 DEF SameButEvents
<1>7. SameButEvents(u, t) /\ t.eventMask = u.eventMask /\ t.eventFlags = u.eventFlags
  BY <1>6 DEF SameButEvents, SameSender, SameReceiver, SameBlocks, SocketFields
<1> HIDE DEF t
<1>8. SameButEvents(s, t)
  BY <1>2, <1>5, <1>7 DEF SameButEvents, SameSender, SameReceiver, SameBlocks
<1>9. t.eventMask = mask /\ t.eventFlags \subseteq mask
  BY <1>2, <1>5, <1>7
<1>10. Fit(t) /\ t.out = s.out /\ t.nic = s.nic
  BY <1>8, <1>9, SameButEventsFits
<1> QED BY <1>3, <1>8, <1>9, <1>10 DEF SameButEvents

\* A new control block: what socketConnect and socketAccept start from.
LEMMA InitControlBlockFits ==
    ASSUME NEW s, Fit(s), s.sackBlock = <<>>, NEW iss \in SeqNums
    PROVE  LET t == InitControlBlock(s, iss)
           IN  /\ Bounded(t) /\ t.sackBlock = <<>> /\ t.state = s.state
               /\ t.eventMask = s.eventMask /\ t.nic = s.nic /\ DOMAIN t = SocketFields
<1> DEFINE t == InitControlBlock(s, iss)
           next == Plus(iss, 1)
           cwnd == Least(3 * Mss, TxBufferSize)
           tx == Allocated(TxBufferSize)
           rx == Allocated(RxBufferSize)
<1>1. DOMAIN s = SocketFields /\ SendOK(s) /\ ReceiveOK(s) /\ WaitOK(s)
  BY DEF Fit, Bounded, Loose, WaitOK
<1>2. next \in SeqNums /\ cwnd \in Nat /\ cwnd <= TxBufferSize /\ tx \in Buffers
  <2>1. next \in SeqNums
    BY PlusOf
  <2>2. cwnd \in Nat /\ cwnd <= TxBufferSize
    BY Sizes DEF Least
  <2>3. tx \in [0 .. TxBufferSize - 1 -> Nat]
    BY DEF Allocated
  <2> QED BY <2>1, <2>2, <2>3 DEF Buffers
<1>3. t = [s EXCEPT !.owned = TRUE, !.txBuffer = tx, !.rxBuffer = rx,
                    !.iss = iss, !.sndUna = iss, !.sndNxt = next,
                    !.rcvUser = 0, !.rcvWnd = RxBufferSize,
                    !.congestState = "IDLE", !.recover = iss, !.cwnd = cwnd]
  BY DEF InitControlBlock
<1> HIDE DEF t, next, cwnd, tx, rx
<1>4. SameWaiter(s, t) /\ t.nic = s.nic
  BY <1>1, <1>3 DEF SameWaiter, SocketFields
<1>5. /\ t.txBuffer = tx /\ t.iss = iss /\ t.sndUna = iss /\ t.sndNxt = next
      /\ t.rcvUser = 0 /\ t.rcvWnd = RxBufferSize
      /\ t.congestState = "IDLE" /\ t.recover = iss /\ t.cwnd = cwnd
  BY <1>1, <1>3 DEF SocketFields
<1>6. /\ t.sndWl1 = s.sndWl1 /\ t.sndWl2 = s.sndWl2 /\ t.sndUser = s.sndUser
      /\ t.sndWnd = s.sndWnd /\ t.maxSndWnd = s.maxSndWnd
      /\ t.dupAckCount = s.dupAckCount /\ t.retransmitCount = s.retransmitCount
      /\ t.wndProbeCount = s.wndProbeCount /\ t.queue = s.queue /\ t.out = s.out
      /\ t.irs = s.irs /\ t.rcvNxt = s.rcvNxt /\ t.sackBlock = s.sackBlock
  BY <1>1, <1>3 DEF SocketFields
<1>7. SendOK(t)
  BY <1>1, <1>2, <1>4, <1>5, <1>6 DEF SendOK
<1>8. ReceiveOK(t)
  BY <1>1, <1>5, <1>6, Sizes DEF ReceiveOK
<1>9. WaitOK(t)
  BY <1>1, <1>4, SameWaiterOK
<1> QED BY <1>1, <1>2, <1>4, <1>5, <1>6, <1>7, <1>8, <1>9 DEF Bounded, Loose, SameWaiter, t

\* The SYN leaves the blocks alone, whether it could be sent or not.
LEMMA ActiveOpenFits ==
    ASSUME NEW s, Fit(s), s.state = "CLOSED", s.sackBlock = <<>>, NEW iss \in SeqNums
    PROVE  Fit(ActiveOpen(s, iss))
<1> DEFINE r == InitControlBlock(s, iss)
           flags == {"SYN"}
           none == 0
           yes == TRUE
           t == SendSegment(r, flags, iss, none, none, yes)
<1>1. Bounded(r) /\ r.sackBlock = <<>> /\ r.state = "CLOSED"
  BY InitControlBlockFits
<1>2. ActiveOpen(s, iss) = IF Fails(s) THEN t ELSE ChangeState(t, "SYN_SENT")
  BY DEF ActiveOpen
<1>3. flags \in SUBSET Flags /\ none \in SeqNums /\ none \in 0 .. Mss /\ yes \in BOOLEAN
  BY Sizes DEF Flags, SeqNums
<1> HIDE DEF r, flags, none, yes
<1>4. Loose(t) /\ SameRest(r, t) /\ t.cwnd = r.cwnd
  BY <1>1, <1>3, SendSegmentFits DEF Bounded
<1> HIDE DEF t
<1>5. t.state = "CLOSED" /\ t.sackBlock = <<>> /\ t.cwnd <= TxBufferSize
  BY <1>1, <1>4 DEF Bounded, SameRest, SameWaiter, SameReceiver, SameBlocks
<1>6. Fit(t)
  BY <1>4, <1>5 DEF Fit, Bounded, BlocksOK
<1>7. MayEnter(t, "SYN_SENT")
  BY <1>5, EmptyMayEnter DEF States
<1>8. Fit(ChangeState(t, "SYN_SENT"))
  BY <1>4, <1>5, <1>7, ChangeStateFits DEF Fit, Bounded
<1> QED BY <1>2, <1>6, <1>8

LEMMA PassiveOpenFits ==
    ASSUME NEW s, Fit(s), s.state = "CLOSED", s.sackBlock = <<>>, NEW iss \in SeqNums,
           NEW item \in Requests
    PROVE  Fit(PassiveOpen(s, item, iss))
<1> DEFINE q == InitControlBlock(s, iss)
           isn == item.isn
           next == Plus(isn, 1)
           r == [q EXCEPT !.irs = isn, !.rcvNxt = next]
           flags == {"SYN", "ACK"}
           none == 0
           yes == TRUE
           ack == r.rcvNxt
           u == SendSegment(r, flags, iss, ack, none, yes)
<1>1. /\ Bounded(q) /\ q.sackBlock = <<>> /\ q.state = "CLOSED"
      /\ DOMAIN q = SocketFields
  BY InitControlBlockFits
<1>2. PassiveOpen(s, item, iss) = IF Fails(s) THEN Free(u) ELSE ChangeState(u, "SYN_RECEIVED")
  BY DEF PassiveOpen
<1>3. isn \in SeqNums /\ next \in SeqNums
  BY PlusOf DEF Requests
<1>4. flags \in SUBSET Flags /\ none \in 0 .. Mss /\ yes \in BOOLEAN
  BY Sizes DEF Flags
<1> HIDE DEF q, isn, next
<1>5. /\ SameSender(q, r) /\ SameWaiter(q, r) /\ r.irs = isn /\ r.rcvNxt = next
      /\ r.rcvUser = q.rcvUser /\ r.rcvWnd = q.rcvWnd /\ r.sackBlock = q.sackBlock
  BY <1>1 DEF SameSender, SameWaiter, SocketFields
<1> HIDE DEF r, flags, none, yes
<1>6. Loose(r)
  <2>1. SendOK(r) /\ WaitOK(r)
    BY <1>1, <1>5, SameSenderOK, SameWaiterOK DEF Bounded, Loose
  <2>2. ReceiveOK(r)
    BY <1>1, <1>3, <1>5 DEF Bounded, Loose, ReceiveOK
  <2> QED BY <2>1, <2>2 DEF Loose
<1>7. ack \in SeqNums /\ r.cwnd <= TxBufferSize /\ r.sackBlock = <<>> /\ r.state = "CLOSED"
  BY <1>1, <1>3, <1>5 DEF Bounded, SameSender, SameWaiter
<1> HIDE DEF ack
<1>8. Loose(u) /\ SameRest(r, u) /\ u.cwnd = r.cwnd
  BY <1>4, <1>6, <1>7, SendSegmentFits
<1> HIDE DEF u
<1>9. u.state = "CLOSED" /\ u.sackBlock = <<>> /\ u.cwnd <= TxBufferSize
  BY <1>7, <1>8 DEF SameRest, SameWaiter, SameReceiver, SameBlocks
<1>10. Fit(u)
  BY <1>8, <1>9 DEF Fit, Bounded, BlocksOK
<1>11. MayEnter(u, "SYN_RECEIVED")
  BY <1>9, EmptyMayEnter DEF States
<1>12. Fit(ChangeState(u, "SYN_RECEIVED"))
  BY <1>8, <1>9, <1>11, ChangeStateFits DEF Fit, Bounded
<1>13. Fit(Free(u))
  BY <1>10, FreeFits
<1> QED BY <1>2, <1>12, <1>13

\* The data are taken to the send buffer, there is room for them, and sent.
LEMMA WriteDataFits ==
    ASSUME NEW s, Fit(s), NEW data \in Seq(Nat), s.sndUser + Len(data) <= TxBufferSize
    PROVE  LET t == WriteData(s, data) IN Fit(t) /\ Keeps(s, t)
<1> DEFINE x == s.sndNxt
           n == s.sndUser
           position == Plus(x, n)
           buffer == WriteBuffer(s.txBuffer, s.iss, position, data)
           more == n + Len(data)
           r == [s EXCEPT !.txBuffer = buffer, !.sndUser = more]
           t == UpdateEvents(r)
<1>1. DOMAIN s = SocketFields /\ SendOK(s) /\ Loose(s) /\ BlocksOK(s) /\ s.cwnd <= TxBufferSize
  BY DEF Fit, Bounded, Loose, WaitOK
<1>2. WriteData(s, data) = NagleAlgo(t, FALSE)
  BY DEF WriteData
<1>3. x \in SeqNums /\ n \in Int /\ more \in 0 .. TxBufferSize
  <2>1. x \in SeqNums /\ n \in 0 .. TxBufferSize
    BY <1>1 DEF SendOK
  <2>2. Len(data) \in Nat
    OBVIOUS
  <2>3. more <= TxBufferSize
    OBVIOUS
  <2> HIDE DEF x, n
  <2> QED BY <2>1, <2>2, <2>3, Sizes
<1> HIDE DEF x, n
<1>4. position \in SeqNums
  BY <1>3, PlusOf
<1> HIDE DEF position
<1>5. buffer \in Buffers
  BY <1>1, <1>4, WriteBufferOf DEF SendOK
<1> HIDE DEF buffer, more
<1>6. SendOK(r)
  BY <1>1, <1>3, <1>5 DEF SendOK, SocketFields
<1>7. SameRest(s, r) /\ r.cwnd = s.cwnd
  BY <1>1 DEF SameRest, SameReceiver, SameBlocks, SameWaiter, SocketFields
<1> HIDE DEF r
<1>8. Loose(r)
  BY <1>1, <1>6, <1>7, SameRestFits
<1>9. Fit(r) /\ Keeps(s, r)
  BY <1>1, <1>7, <1>8, RestKeeps
<1>10. /\ Loose(t) /\ t.cwnd = r.cwnd /\ t.state = r.state
       /\ SameReceiver(r, t) /\ t.eventMask = r.eventMask
  BY <1>8, UpdateEventsFits
<1> HIDE DEF t
<1>11. Fit(t) /\ Keeps(r, t)
  BY <1>9, <1>10, SameReceiverOK DEF Fit, Bounded, Keeps
<1> DEFINE no == FALSE
           z == NagleAlgo(t, no)
<1>12. WriteData(s, data) = z
  BY <1>2
<1> HIDE DEF no
<1>13. Fit(z) /\ Keeps(t, z)
  BY <1>11, NagleAlgoFits DEF Keeps
<1> HIDE DEF z
<1> QED BY <1>9, <1>11, <1>12, <1>13, KeepsOfKeeps

\* tcpShutdown: the FIN, behind the data.
LEMMA SendFinFits ==
    ASSUME NEW s, Fit(s), Apart(s, 0), NEW newState \in {"FIN_WAIT_1", "LAST_ACK"}
    PROVE  Fit(SendFin(s, newState))
<1> DEFINE flags == {"FIN", "ACK"}
           none == 0
           yes == TRUE
           seqNum == s.sndNxt
           ackNum == s.rcvNxt
           t == SendSegment(s, flags, seqNum, ackNum, none, yes)
           next == Plus(t.sndNxt, 1)
           r == [t EXCEPT !.sndNxt = next]
<1>1. SendFin(s, newState) = IF Fails(s) THEN t ELSE ChangeState(r, newState)
  BY DEF SendFin
<1>2. /\ flags \in SUBSET Flags /\ none \in 0 .. Mss /\ yes \in BOOLEAN
      /\ seqNum \in SeqNums /\ ackNum \in SeqNums
  BY Sizes DEF Flags, Fit, Bounded, Loose, SendOK, ReceiveOK
<1> HIDE DEF flags, none, yes, seqNum, ackNum
<1>3. Fit(t) /\ Keeps(s, t)
  BY <1>2, SendSegmentKeeps
<1> HIDE DEF t
<1>4. DOMAIN t = SocketFields /\ SendOK(t) /\ Loose(t) /\ t.cwnd <= TxBufferSize
  BY <1>3 DEF Fit, Bounded, Loose, WaitOK
<1>5. next \in SeqNums
  <2> DEFINE x == t.sndNxt
             one == 1
  <2>1. x \in SeqNums /\ one \in Int
    BY <1>4 DEF SendOK
  <2> HIDE DEF x, one
  <2>2. Plus(x, one) \in SeqNums
    BY <2>1, PlusOf
  <2> QED BY <2>2 DEF x, one
<1> HIDE DEF next
<1>6. SendOK(r)
  BY <1>4, <1>5 DEF SendOK, SocketFields
<1>7. SameRest(t, r) /\ r.cwnd = t.cwnd
  BY <1>4 DEF SameRest, SameReceiver, SameBlocks, SameWaiter, SocketFields
<1> HIDE DEF r
<1>8. Loose(r)
  BY <1>4, <1>6, <1>7, SameRestFits
<1>9. Apart(r, 0)
  <2>1. SameBlocks(s, t) /\ SameBlocks(t, r)
    BY <1>3, <1>7 DEF Keeps, SameRest, SameReceiver
  <2> QED BY <2>1, SameBlocksApart
<1>10. MayEnter(r, newState)
  BY <1>9 DEF MayEnter, States
<1>11. Fit(ChangeState(r, newState))
  BY <1>4, <1>7, <1>8, <1>10, ChangeStateFits DEF Fit, Bounded
<1> QED BY <1>1, <1>3, <1>11

LEMMA AbortFits ==
    ASSUME NEW s, Fit(s)
    PROVE  Fit(Abort(s))
<1> DEFINE flags == {"RST"}
           none == 0
           no == FALSE
           seqNum == s.sndNxt
           t == SendSegment(s, flags, seqNum, none, none, no)
           r == [s EXCEPT !.owned = FALSE]
<1>1. Abort(s) \in {Free(t), r, Free(s)}
  BY DEF Abort
<1>2. /\ flags \in SUBSET Flags /\ none \in 0 .. Mss /\ no \in BOOLEAN
      /\ none \in SeqNums /\ seqNum \in SeqNums
  BY Sizes DEF Flags, SeqNums, Fit, Bounded, Loose, SendOK
<1> HIDE DEF flags, none, no, seqNum
<1>3. Fit(t)
  BY <1>2, SendSegmentKeeps
<1> HIDE DEF t
<1>4. DOMAIN s = SocketFields
  BY DEF Fit, Bounded, Loose, WaitOK
<1>5. SameButEvents(s, r) /\ r.eventMask = s.eventMask /\ r.eventFlags = s.eventFlags
  BY <1>4 DEF SameButEvents, SameSender, SameReceiver, SameBlocks, SocketFields
<1> HIDE DEF r
<1>6. Fit(r)
  BY <1>5, SameButEventsFits DEF Fit, Bounded, Loose, WaitOK
<1>7. Fit(Free(t)) /\ Fit(Free(s))
  BY <1>3, FreeFits
<1> QED BY <1>1, <1>6, <1>7
-----------------------------------------------------------------------------
(* The hosts *)

\* A listener keeps its state, and waits for nothing but requests.
Listening(s) == s.state = "LISTEN" /\ s.eventMask \subseteq {"RX_READY"}

\* The call a task is in fits its socket s and the n units it has written:
\* socketSend never has more left than the program may still write, and what
\* waits for its data to be sent may send its FIN.
TaskFits(h, t, s, n) ==
    /\ t \in Tasks /\ (t.blocked => t.at \in Waits)
    /\ h = "client" /\ t.at = "start" => s.state = "CLOSED" /\ s.sackBlock = <<>>
    /\ t.at = "drain" => Draining(s)
    /\ n \in 0 .. Units[h]
    /\ t.at = "send" => t.size > 0 /\ n + t.size <= Units[h]

SocketsFit ==
    /\ sock \in [Sockets -> {sock[x] : x \in Sockets}]
    /\ \A x \in Sockets : AtRest(sock[x])
    /\ Listening(sock["listener"])

TasksFit ==
    /\ task \in [Hosts -> Tasks] /\ written \in [Hosts -> Nat]
    /\ \A h \in Hosts : TaskFits(h, task[h], sock[h], written[h])

NetFits == net \in [Hosts -> Seq(Segments)]

FaultsFit == faults \in 0 .. MaxFaults

HostsFit == SocketsFit /\ TasksFit /\ NetFits /\ FaultsFit

LEMMA System ==
    /\ ClientIss \in SeqNums /\ ServerIss \in SeqNums
    /\ \A h \in Hosts : Units[h] \in Nat
    /\ \A n \in WriteSizes : n \in Nat /\ n > 0
    /\ \A n \in ReadSizes : n \in Nat /\ n > 0
    /\ \A how \in Hows : how \in {"SEND", "RECEIVE", "BOTH"}
    /\ MaxFaults \in Nat
    /\ \A kind \in DOMAIN Weight : Weight[kind] \in Nat
BY SystemAssumption DEF Hosts

LEMMA FaultFits ==
    ASSUME FaultsFit, NEW kind, Fault(kind)
    PROVE  FaultsFit'
BY System DEF FaultsFit, Fault

LEMMA SendsFit ==
    ASSUME FaultsFit, NEW nic, Sends(nic)
    PROVE  FaultsFit'
BY FaultFits DEF FaultsFit, Sends

LEMMA ElapsesFit ==
    ASSUME FaultsFit, NEW due, NEW nic \in Nics, Elapses(due, nic)
    PROVE  FaultsFit'
BY FaultFits, SendsFit DEF Elapses

LEMMA ResumesFits ==
    ASSUME FaultsFit, NEW h, NEW place, NEW nic, Resumes(h, place, nic)
    PROVE  FaultsFit' /\ task[h].at = place
BY FaultFits, SendsFit DEF Resumes

LEMMA GoesOfGoes ==
    ASSUME NEW s, NEW t, NEW u, Goes(s, t), Goes(t, u)
    PROVE  Goes(s, u)
BY DEF Goes

LEMMA StaysGoes ==
    ASSUME NEW s, NEW t, Fit(t), SameReceiver(s, t), t.state = s.state
    PROVE  Goes(s, t)
<1>1. Apart(t, 0) <=> Apart(s, 0)
  BY SameBlocksApart DEF SameReceiver
<1> QED BY <1>1 DEF Goes, Draining, SameReceiver, SameBlocks

LEMMA TaskFitsGoes ==
    ASSUME NEW h, NEW t, NEW s, NEW u, NEW n, TaskFits(h, t, s, n), Goes(s, u)
    PROVE  TaskFits(h, t, u, n)
BY DEF TaskFits, Goes

\* What a step leaves of a socket: what it sent is under way.
Left(s) == [s EXCEPT !.out = <<>>, !.nic = "up"]

LEMMA SocketStepFits ==
    ASSUME SocketsFit, NEW x \in Sockets, NEW s, Fit(s),
           sock' = [sock EXCEPT ![x] = Left(s)],
           x = "listener" => Listening(s)
    PROVE  /\ SocketsFit' /\ Goes(s, sock'[x])
           /\ \A y \in Sockets : y # x => sock'[y] = sock[y]
<1> DEFINE t == Left(s)
<1>1. AtRest(t) /\ Keeps(s, t) /\ Goes(s, t)
  BY RestFits, KeepsGoes DEF AtRest, Left
<1> HIDE DEF t
<1>2. sock' = [sock EXCEPT ![x] = t]
  BY DEF t
<1>3. sock'[x] = t /\ \A y \in Sockets : y # x => sock'[y] = sock[y]
  BY <1>2 DEF SocketsFit
<1>4. sock' \in [Sockets -> {sock'[y] : y \in Sockets}]
  BY <1>2 DEF SocketsFit
<1>5. \A y \in Sockets : AtRest(sock'[y])
  BY <1>1, <1>3 DEF SocketsFit
<1>6. Listening(sock'["listener"])
  BY <1>1, <1>3 DEF SocketsFit, Listening, Keeps, Sockets
<1> QED BY <1>1, <1>3, <1>4, <1>5, <1>6 DEF SocketsFit

LEMMA PutFits ==
    ASSUME SocketsFit, NetFits, NEW x \in Sockets, NEW s, Fit(s), Put(x, s),
           x = "listener" => Listening(s)
    PROVE  /\ SocketsFit' /\ NetFits' /\ Goes(s, sock'[x])
           /\ \A y \in Sockets : y # x => sock'[y] = sock[y]
<1> DEFINE peer == Peer(HostOf(x))
<1>1. sock' = [sock EXCEPT ![x] = Left(s)] /\ net' = [net EXCEPT ![peer] = @ \o s.out]
  BY DEF Put, Left
<1>2. peer \in Hosts
  BY DEF Peer, HostOf, Hosts
<1>3. s.out \in Seq(Segments)
  BY DEF Fit, Bounded, Loose, SendOK
<1> HIDE DEF peer
<1>4. net[peer] \o s.out \in Seq(Segments)
  BY <1>2, <1>3, ConcatProperties DEF NetFits
<1>5. NetFits'
  BY <1>1, <1>2, <1>4 DEF NetFits
<1> QED BY <1>1, <1>5, SocketStepFits

\* A step of the net task.
LEMMA NetStepFits ==
    ASSUME HostsFit, NEW x \in Sockets, NEW s, Goes(sock[x], s),
           sock' = [sock EXCEPT ![x] = Left(s)],
           x = "listener" => Listening(s),
           UNCHANGED <<task, written>>, NetFits', FaultsFit'
    PROVE  HostsFit'
<1>1. Fit(s)
  BY DEF Goes
<1>2. /\ SocketsFit' /\ Goes(s, sock'[x])
      /\ \A y \in Sockets : y # x => sock'[y] = sock[y]
  BY <1>1, SocketStepFits DEF HostsFit
<1>3. Goes(sock[x], sock'[x])
  BY <1>2, GoesOfGoes
<1>4. \A g \in Hosts : TaskFits(g, task[g], sock'[g], written[g])
  BY <1>2, <1>3, TaskFitsGoes DEF HostsFit, TasksFit, Hosts, Sockets
<1>5. TasksFit'
  BY <1>4 DEF HostsFit, TasksFit
<1> QED BY <1>2, <1>5 DEF HostsFit

LEMMA TickFits ==
    ASSUME HostsFit, NEW h \in Hosts, NEW s, Goes(sock[h], s), Put(h, s),
           UNCHANGED <<task, written>>, FaultsFit'
    PROVE  HostsFit'
<1>1. h \in Sockets /\ h # "listener"
  BY DEF Hosts, Sockets
<1>2. NetFits' /\ sock' = [sock EXCEPT ![h] = Left(s)]
  BY <1>1, PutFits DEF HostsFit, Goes, Put, Left
<1> QED BY <1>1, <1>2, NetStepFits

\* A step of a task that works on its own socket.
LEMMA TaskStepFits ==
    ASSUME HostsFit, NEW h \in Hosts, NEW s, Fit(s), Put(h, s),
           NEW t, Become(h, t), NEW n \in Nat, TaskFits(h, t, s, n),
           written' = [written EXCEPT ![h] = n], FaultsFit'
    PROVE  HostsFit'
<1>1. h \in Sockets /\ h # "listener"
  BY DEF Hosts, Sockets
<1>2. /\ SocketsFit' /\ NetFits' /\ Goes(s, sock'[h])
      /\ \A y \in Sockets : y # h => sock'[y] = sock[y]
  BY <1>1, PutFits DEF HostsFit
<1>3. TaskFits(h, t, sock'[h], n)
  BY <1>2, TaskFitsGoes
<1>4. /\ task' \in [Hosts -> Tasks] /\ task'[h] = t
      /\ \A g \in Hosts : g # h => task'[g] = task[g]
  BY DEF HostsFit, TasksFit, Become, TaskFits
<1>5. /\ written' \in [Hosts -> Nat] /\ written'[h] = n
      /\ \A g \in Hosts : g # h => written'[g] = written[g]
  BY DEF HostsFit, TasksFit
<1>6. \A g \in Hosts : TaskFits(g, task'[g], sock'[g], written'[g])
  BY <1>2, <1>3, <1>4, <1>5 DEF HostsFit, TasksFit, Hosts, Sockets
<1>7. TasksFit'
  BY <1>4, <1>5, <1>6 DEF TasksFit
<1> QED BY <1>2, <1>7 DEF HostsFit

\* A task that is not about to accept works on the socket of its host.
Works(h) == h = "server" => task[h].at \notin {"start", "accept"}

LEMMA ReturnsFits ==
    ASSUME HostsFit, NEW h \in Hosts, Works(h), NEW s, Fit(s),
           NEW closing \in BOOLEAN, Returns(h, s, closing),
           NEW n \in 0 .. Units[h], written' = [written EXCEPT ![h] = n], FaultsFit'
    PROVE  HostsFit'
<1> DEFINE t == [Idle EXCEPT !.closing = closing]
           u == Unwatched(s)
<1>1. Put(h, u) /\ Become(h, t)
  BY DEF Returns, Own, Works
<1>2. Fit(u)
  BY UnwatchedFits
<1>3. TaskFits(h, t, u, n)
  BY DEF TaskFits, Idle, Tasks, Places, Waits
<1> HIDE DEF t, u
<1>4. n \in Nat
  BY System
<1> QED BY <1>1, <1>2, <1>3, <1>4, TaskStepFits

LEMMA AwaitFits ==
    ASSUME HostsFit, NEW h \in Hosts, Works(h), NEW s, Fit(s), NEW t,
           NEW mask \in SUBSET Events, Await(h, s, t, mask), t.at \in Waits,
           NEW n \in Nat, TaskFits(h, t, s, n),
           written' = [written EXCEPT ![h] = n], FaultsFit'
    PROVE  HostsFit'
<1> DEFINE w == WaitForEvents(s, mask)
           b == w.eventFlags = {}
           u == [t EXCEPT !.blocked = b]
<1>1. Put(h, w) /\ Become(h, u)
  BY DEF Await, Own, Works
<1>2. Fit(w) /\ SameReceiver(s, w) /\ w.state = s.state
  BY WaitForEventsFits
<1> HIDE DEF w
<1>3. Goes(s, w)
  BY <1>2, StaysGoes
<1>4. b \in BOOLEAN
  OBVIOUS
<1> HIDE DEF b
<1>5. u \in Tasks /\ u.at = t.at /\ u.size = t.size
  BY <1>4 DEF TaskFits, Tasks
<1> HIDE DEF u
<1>6. TaskFits(h, t, w, n)
  BY <1>3, TaskFitsGoes
<1>7. TaskFits(h, u, w, n)
  BY <1>5, <1>6 DEF TaskFits
<1> QED BY <1>1, <1>2, <1>7, TaskStepFits

LEMMA SameWritten ==
    ASSUME TasksFit, NEW h \in Hosts, UNCHANGED written
    PROVE  /\ written[h] \in 0 .. Units[h] /\ written[h] \in Nat
           /\ written' = [written EXCEPT ![h] = written[h]]
BY DEF TasksFit, TaskFits

LEMMA GotoOf ==
    ASSUME TasksFit, NEW h \in Hosts, NEW place \in Places
    PROVE  LET t == Goto(h, place)
           IN  /\ t \in Tasks /\ t.at = place /\ t.blocked = FALSE
               /\ t.size = task[h].size /\ t.how = task[h].how
BY DEF TasksFit, Goto, Tasks

\* A step of the server's task on the listener.
LEMMA ListenerStepFits ==
    ASSUME HostsFit, NEW s, Fit(s), Listening(s), Put("listener", s),
           NEW t \in Tasks, Become("server", t), t.at \in {"start", "accept"},
           t.blocked => t.at = "accept", UNCHANGED written, FaultsFit'
    PROVE  HostsFit'
<1>1. /\ SocketsFit' /\ NetFits'
      /\ \A y \in Sockets : y # "listener" => sock'[y] = sock[y]
  BY PutFits DEF HostsFit, Sockets
<1>2. /\ task' \in [Hosts -> Tasks] /\ task'["server"] = t
      /\ task'["client"] = task["client"]
  BY DEF HostsFit, TasksFit, Become, Hosts
<1>3. \A g \in Hosts : TaskFits(g, task'[g], sock'[g], written[g])
  BY <1>1, <1>2 DEF HostsFit, TasksFit, TaskFits, Hosts, Sockets, Waits
<1>4. TasksFit'
  BY <1>2, <1>3 DEF HostsFit, TasksFit
<1> QED BY <1>1, <1>4 DEF HostsFit

LEMMA SocketWithNic ==
    ASSUME HostsFit, NEW x \in Sockets, NEW nic \in Nics
    PROVE  LET s == [sock[x] EXCEPT !.nic = nic]
           IN  /\ Fit(s) /\ Goes(sock[x], s) /\ s.state = sock[x].state
               /\ s.eventMask = sock[x].eventMask /\ s.nic = nic
               /\ s.sndUser = sock[x].sndUser /\ s.sackBlock = sock[x].sackBlock
<1>1. Fit(sock[x]) /\ DOMAIN sock[x] = SocketFields
  BY DEF HostsFit, SocketsFit, AtRest, Fit, Bounded, Loose, WaitOK
<1>2. [sock[x] EXCEPT !.nic = nic].nic = nic
  BY <1>1 DEF SocketFields
<1> QED BY <1>1, <1>2, NicFits, KeepsGoes DEF Keeps

LEMMA OwnSocketFits ==
    ASSUME HostsFit, NEW h \in Hosts
    PROVE  h \in Sockets /\ h # "listener" /\ Fit(sock[h])
BY DEF HostsFit, SocketsFit, AtRest, Hosts, Sockets

LEMMA IdleWorks ==
    ASSUME NEW h \in Hosts, NEW place \in Places \ {"start", "accept"}, task[h].at = place
    PROVE  Works(h)
BY DEF Works

\* tcpConnect
LEMMA ConnectFits ==
    ASSUME HostsFit, NEW nic \in Nics, Connect(nic)
    PROVE  HostsFit'
<1> DEFINE r == [sock["client"] EXCEPT !.nic = nic]
           s == ActiveOpen(r, ClientIss)
           mask == {"CONNECTED", "CLOSED"}
           t == Goto("client", "connect")
           n == written["client"]
<1>1. "client" \in Hosts /\ "client" \in Sockets /\ Works("client") /\ "connect" \in Places
  BY DEF Hosts, Sockets, Works, Places, Waits
<1>2. /\ task["client"].at = "start" /\ Sends(nic) /\ UNCHANGED written
      /\ IF nic = "up" THEN Await("client", s, t, mask)
         ELSE Returns("client", s, TRUE)
  BY DEF Connect, ReturnError, history
<1>3. sock["client"].state = "CLOSED" /\ sock["client"].sackBlock = <<>>
  BY <1>1, <1>2 DEF HostsFit, TasksFit, TaskFits
<1>4. Fit(r) /\ r.state = "CLOSED" /\ r.sackBlock = <<>>
  BY <1>1, <1>3, SocketWithNic
<1> HIDE DEF r
<1>5. Fit(s)
  BY <1>4, ActiveOpenFits, System
<1>6. n \in 0 .. Units["client"] /\ n \in Nat /\ written' = [written EXCEPT !["client"] = n]
  BY <1>1, <1>2, SameWritten DEF HostsFit
<1>7. FaultsFit'
  BY <1>2, SendsFit DEF HostsFit
<1>8. t \in Tasks /\ t.at = "connect" /\ t.blocked = FALSE
  BY <1>1, GotoOf DEF HostsFit
<1> HIDE DEF s, t, n
<1>9. t.at \in Waits /\ TaskFits("client", t, s, n)
  BY <1>6, <1>8 DEF Waits, TaskFits
<1>10. mask \in SUBSET Events
  BY DEF Events
<1> HIDE DEF mask
<1>11. CASE nic = "up"
  BY <1>1, <1>2, <1>5, <1>6, <1>7, <1>9, <1>10, <1>11, AwaitFits
<1>12. CASE nic # "up"
  BY <1>1, <1>2, <1>5, <1>6, <1>7, <1>12, ReturnsFits
<1> QED BY <1>11, <1>12

LEMMA ConnectReturnsFits ==
    ASSUME HostsFit, ConnectReturns
    PROVE  HostsFit'
<1> DEFINE n == written["client"]
           closing == sock["client"].eventFlags # {"CONNECTED"}
<1>1. "client" \in Hosts /\ Works("client")
  BY DEF Hosts, Works
<1>2. /\ Resumes("client", "connect", "up") /\ UNCHANGED written
      /\ Returns("client", sock["client"], closing) /\ closing \in BOOLEAN
  BY DEF ConnectReturns, history
<1> HIDE DEF closing
<1>3. n \in 0 .. Units["client"] /\ n \in Nat /\ written' = [written EXCEPT !["client"] = n]
  BY <1>1, <1>2, SameWritten DEF HostsFit
<1> HIDE DEF n
<1>4. FaultsFit' /\ Fit(sock["client"])
  BY <1>1, <1>2, ResumesFits, OwnSocketFits DEF HostsFit
<1> QED BY <1>1, <1>2, <1>3, <1>4, ReturnsFits

\* tcpAccept
LEMMA AcceptFits ==
    ASSUME HostsFit, Accept
    PROVE  HostsFit'
<1> DEFINE s == sock["listener"]
           u == [s EXCEPT !.eventMask = {"RX_READY"}, !.event = FALSE]
           r == Goto("server", "accept")
           t == [r EXCEPT !.blocked = TRUE]
<1>1. /\ UNCHANGED written /\ UNCHANGED faults
      /\ \/ Put("listener", u) /\ Become("server", t)
         \/ Become("server", r) /\ UNCHANGED <<sock, net>>
  BY DEF Accept, history
<1>2. "listener" \in Sockets /\ "server" \in Hosts /\ "accept" \in Places
  BY DEF Sockets, Hosts, Places, Waits
<1>3. Fit(s) /\ DOMAIN s = SocketFields /\ Listening(s)
  BY <1>2 DEF HostsFit, SocketsFit, AtRest, Fit, Bounded, Loose, WaitOK
<1>4. FaultsFit'
  BY <1>1 DEF HostsFit, FaultsFit
<1>5. r \in Tasks /\ r.at = "accept" /\ r.blocked = FALSE
  BY <1>2, GotoOf DEF HostsFit
<1> HIDE DEF s, r
<1>6. Fit(u) /\ Listening(u)
  <2>1. SameButEvents(s, u) /\ u.eventMask = {"RX_READY"} /\ u.eventFlags = s.eventFlags
    BY <1>3 DEF SameButEvents, SameSender, SameReceiver, SameBlocks, SocketFields
  <2> HIDE DEF u
  <2>2. u.eventFlags \subseteq u.eventMask /\ u.eventMask \subseteq Events
    BY <1>3, <2>1 DEF Listening, Fit, Bounded, Loose, WaitOK, Events
  <2>3. Fit(u)
    BY <1>3, <2>1, <2>2, SameButEventsFits
  <2> QED BY <1>3, <2>1, <2>3 DEF Listening, SameButEvents
<1> HIDE DEF u
<1>7. t \in Tasks /\ t.at = "accept"
  BY <1>5 DEF Tasks
<1> HIDE DEF t
<1>8. CASE Put("listener", u) /\ Become("server", t)
  BY <1>1, <1>4, <1>6, <1>7, <1>8, ListenerStepFits
<1>9. CASE Become("server", r) /\ UNCHANGED <<sock, net>>
  <2>1. /\ task' \in [Hosts -> Tasks] /\ task'["server"] = r
        /\ task'["client"] = task["client"]
    BY <1>5, <1>9 DEF HostsFit, TasksFit, Become, Hosts
  <2>2. \A g \in Hosts : TaskFits(g, task'[g], sock[g], written[g])
    BY <1>5, <2>1 DEF HostsFit, TasksFit, TaskFits, Hosts, Waits
  <2>3. TasksFit'
    BY <1>1, <1>9, <2>1, <2>2 DEF HostsFit, TasksFit
  <2>4. SocketsFit' /\ NetFits'
    BY <1>9 DEF HostsFit, SocketsFit, NetFits
  <2> QED BY <1>4, <2>3, <2>4 DEF HostsFit
<1> QED BY <1>1, <1>8, <1>9

LEMMA RestOfQueueFits ==
    ASSUME NEW s, Fit(s), s.synQueue # <<>>
    PROVE  /\ LET t == [s EXCEPT !.synQueue = Tail(@)]
              IN  Fit(t) /\ t.state = s.state /\ t.eventMask = s.eventMask
           /\ Head(s.synQueue) \in Requests
<1> DEFINE q == s.synQueue
           rest == Tail(q)
           t == [s EXCEPT !.synQueue = rest]
<1>1. /\ DOMAIN s = SocketFields /\ SendOK(s) /\ ReceiveOK(s) /\ WaitOK(s)
      /\ BlocksOK(s) /\ s.cwnd <= TxBufferSize
  BY DEF Fit, Bounded, Loose, WaitOK
<1>2. q \in Seq(Requests) /\ q # <<>> /\ Len(q) <= SynQueueSize
  BY <1>1 DEF WaitOK
<1> HIDE DEF q
<1>3. Head(q) \in Requests /\ rest \in Seq(Requests) /\ Len(rest) <= SynQueueSize
  <2>1. Head(q) \in Requests /\ rest \in Seq(Requests) /\ Len(rest) = Len(q) - 1
    BY <1>2, HeadTailProperties
  <2>2. Len(q) \in Nat
    BY <1>2
  <2> HIDE DEF rest
  <2> QED BY <1>2, <2>1, <2>2, Sizes
<1> HIDE DEF rest
<1>4. /\ SameSender(s, t) /\ SameReceiver(s, t) /\ t.state = s.state
      /\ t.eventMask = s.eventMask /\ t.eventFlags = s.eventFlags
      /\ t.synQueue = rest /\ DOMAIN t = SocketFields
  BY <1>1 DEF SameSender, SameReceiver, SameBlocks, SocketFields
<1>5. t = [s EXCEPT !.synQueue = Tail(@)]
  BY DEF rest, q
<1> HIDE DEF t
<1>6. WaitOK(t)
  BY <1>1, <1>3, <1>4 DEF WaitOK
<1>7. SendOK(t) /\ ReceiveOK(t) /\ BlocksOK(t) /\ t.cwnd = s.cwnd
  BY <1>1, <1>4, SameSenderOK, SameReceiverOK DEF SameSender
<1>8. Fit(t)
  BY <1>1, <1>6, <1>7 DEF Fit, Bounded, Loose
<1> QED BY <1>3, <1>4, <1>5, <1>8 DEF q

LEMMA PassiveOpenNic ==
    ASSUME NEW s, Fit(s), s.state = "CLOSED", s.sackBlock = <<>>, s.nic = "up",
           NEW item
    PROVE  PassiveOpen(s, item, ServerIss).nic = "up"
<1> DEFINE q == InitControlBlock(s, ServerIss)
           r == [q EXCEPT !.irs = item.isn, !.rcvNxt = Plus(item.isn, 1)]
           u == SendSegment(r, {"SYN", "ACK"}, ServerIss, r.rcvNxt, 0, TRUE)
<1>1. PassiveOpen(s, item, ServerIss) = ChangeState(u, "SYN_RECEIVED")
  BY DEF PassiveOpen, Fails
<1>2. q.nic = "up" /\ DOMAIN q = SocketFields
  BY InitControlBlockFits, System
<1> HIDE DEF q
<1>3. r.nic = "up" /\ DOMAIN r = SocketFields
  BY <1>2 DEF SocketFields
<1> HIDE DEF r
<1>4. u.nic = "up" /\ DOMAIN u = SocketFields
  BY <1>3 DEF SendSegment, SocketFields
<1> HIDE DEF u
<1>5. ChangeState(u, "SYN_RECEIVED").nic = "up"
  BY <1>4 DEF ChangeState, UpdateEvents, SocketFields
<1> QED BY <1>1, <1>5

LEMMA OpenedFits ==
    ASSUME NEW nic \in Nics
    PROVE  LET s == [Opened EXCEPT !.nic = nic]
           IN  Fit(s) /\ s.state = "CLOSED" /\ s.sackBlock = <<>> /\ s.nic = nic
<1> DEFINE r == Unused
           t == [r EXCEPT !.used = TRUE]
<1>1. Fit(r) /\ DOMAIN r = SocketFields /\ r.state = "CLOSED" /\ r.sackBlock = <<>>
  BY UnusedFits
<1>2. Opened = t
  BY DEF Opened
<1> HIDE DEF r
<1>3. SameButEvents(r, t) /\ t.eventMask = r.eventMask /\ t.eventFlags = r.eventFlags
  BY <1>1 DEF SameButEvents, SameSender, SameReceiver, SameBlocks, SocketFields
<1> HIDE DEF t
<1>4. Fit(t)
  BY <1>1, <1>3, SameButEventsFits DEF Fit, Bounded, Loose, WaitOK
<1>5. t.state = "CLOSED" /\ t.sackBlock = <<>> /\ DOMAIN t = SocketFields
  BY <1>1, <1>3 DEF SameButEvents, SameReceiver, SameBlocks
<1>6. [t EXCEPT !.nic = nic].nic = nic
  BY <1>5 DEF SocketFields
<1> QED BY <1>2, <1>4, <1>5, <1>6, NicFits DEF Keeps

LEMMA AcceptTurnFits ==
    ASSUME HostsFit, NEW nic \in Nics, AcceptTurn(nic)
    PROVE  HostsFit'
<1> DEFINE s == sock["listener"]
           rest == [s EXCEPT !.synQueue = Tail(@)]
           r == [Opened EXCEPT !.nic = nic]
           item == Head(s.synQueue)
           new == PassiveOpen(r, item, ServerIss)
           x == Unwatched(s)
           y == Unwatched(rest)
           z == [new EXCEPT !.out = <<>>]
           sent == new.out
<1>1. /\ Resumes("server", "accept", nic) /\ UNCHANGED written
      /\ IF s.synQueue = <<>> THEN Put("listener", x) /\ Become("server", Start)
         ELSE IF nic = "up"
         THEN /\ sock' = [sock EXCEPT !["listener"] = y, !["server"] = z]
              /\ net' = [net EXCEPT !["client"] = @ \o sent]
              /\ Become("server", Idle)
         ELSE Put("listener", y) /\ Become("server", Start)
  BY DEF AcceptTurn, history
<1>2. Fit(s) /\ Listening(s) /\ AtRest(s)
  BY DEF HostsFit, SocketsFit, AtRest, Sockets
<1>3. FaultsFit'
  BY <1>1, ResumesFits DEF HostsFit
<1>4. Start \in Tasks /\ Start.at = "start" /\ Start.blocked = FALSE
  BY DEF Start, Idle, Tasks, Places, Waits
<1>5. Idle \in Tasks /\ Idle.at = "idle" /\ Idle.blocked = FALSE
  BY DEF Idle, Tasks, Places, Waits
<1> HIDE DEF s
<1>6. Fit(x) /\ Listening(x)
  BY <1>2, UnwatchedFits DEF Listening
<1>7. ASSUME s.synQueue # <<>>
      PROVE  AtRest(y) /\ Fit(y) /\ Listening(y) /\ item \in Requests
  <2>1. Fit(rest) /\ rest.state = "LISTEN" /\ item \in Requests
    BY <1>2, <1>7, RestOfQueueFits DEF Listening
  <2>2. rest.out = <<>> /\ rest.nic = "up"
    <3>1. DOMAIN s = SocketFields
      BY <1>2 DEF Fit, Bounded, Loose, WaitOK
    <3> QED BY <1>2, <3>1 DEF AtRest, SocketFields
  <2> HIDE DEF rest, item
  <2> QED BY <2>1, <2>2, UnwatchedFits DEF Listening, AtRest
<1>8. ASSUME s.synQueue # <<>>, nic = "up"
      PROVE  AtRest(z) /\ sent \in Seq(Segments)
  <2>1. Fit(r) /\ r.state = "CLOSED" /\ r.sackBlock = <<>> /\ r.nic = "up"
    BY <1>8, OpenedFits
  <2>2. item \in Requests
    BY <1>7, <1>8
  <2> HIDE DEF r, item
  <2>3. Fit(new) /\ new.nic = "up"
    BY <2>1, <2>2, System, PassiveOpenFits, PassiveOpenNic
  <2> HIDE DEF new
  <2>4. DOMAIN new = SocketFields /\ sent \in Seq(Segments)
    BY <2>3 DEF Fit, Bounded, Loose, WaitOK, SendOK
  <2>5. z = [new EXCEPT !.out = <<>>, !.nic = "up"]
    BY <2>3, <2>4 DEF SocketFields
  <2> QED BY <2>3, <2>4, <2>5, RestFits
<1> HIDE DEF x, y, z, sent
<1>9. CASE s.synQueue = <<>>
  BY <1>1, <1>3, <1>4, <1>6, <1>9, ListenerStepFits
<1>10. CASE s.synQueue # <<>> /\ nic # "up"
  BY <1>1, <1>3, <1>4, <1>7, <1>10, ListenerStepFits
<1>11. CASE s.synQueue # <<>> /\ nic = "up"
  <2>1. /\ sock' = [sock EXCEPT !["listener"] = y, !["server"] = z]
        /\ net' = [net EXCEPT !["client"] = @ \o sent]
        /\ task' = [task EXCEPT !["server"] = Idle]
    BY <1>1, <1>11 DEF Become
  <2>2. /\ sock' \in [Sockets -> {sock'[u] : u \in Sockets}]
        /\ sock'["listener"] = y /\ sock'["server"] = z /\ sock'["client"] = sock["client"]
    BY <2>1 DEF HostsFit, SocketsFit, Sockets
  <2>3. \A u \in Sockets : AtRest(sock'[u])
    BY <1>7, <1>8, <1>11, <2>2 DEF HostsFit, SocketsFit, Sockets
  <2>4. SocketsFit'
    BY <1>7, <1>11, <2>2, <2>3 DEF SocketsFit
  <2>5. net["client"] \o sent \in Seq(Segments)
    BY <1>8, <1>11, ConcatProperties DEF HostsFit, NetFits, Hosts
  <2>6. NetFits'
    BY <2>1, <2>5 DEF HostsFit, NetFits, Hosts
  <2>7. /\ task' \in [Hosts -> Tasks] /\ task'["server"] = Idle
        /\ task'["client"] = task["client"]
    BY <1>5, <2>1 DEF HostsFit, TasksFit, Hosts
  <2>8. \A g \in Hosts : TaskFits(g, task'[g], sock'[g], written[g])
    BY <1>5, <2>2, <2>7 DEF HostsFit, TasksFit, TaskFits, Hosts, Waits
  <2>9. TasksFit'
    BY <1>1, <2>7, <2>8 DEF HostsFit, TasksFit
  <2> QED BY <1>3, <2>4, <2>6, <2>9 DEF HostsFit
<1> QED BY <1>9, <1>10, <1>11

\* A call begins, or goes on, with a wait for mask; n units are written.
LEMMA CallFits ==
    ASSUME HostsFit, NEW h \in Hosts, Calls(h)
    PROVE  task[h].at = "idle" /\ Works(h)
BY IdleWorks DEF Calls, Places

\* tcpSend
LEMMA SendFits ==
    ASSUME HostsFit, NEW h \in Hosts, Send(h)
    PROVE  HostsFit'
<1> DEFINE n == written[h]
           mask == {"TX_READY"}
           r == Goto(h, "send")
<1>1. PICK m \in WriteSizes :
        /\ n + m <= Units[h]
        /\ Await(h, sock[h], [r EXCEPT !.size = m], mask)
  BY DEF Send
<1>2. Works(h) /\ UNCHANGED written /\ UNCHANGED faults
  BY CallFits DEF Send, history
<1>3. FaultsFit' /\ Fit(sock[h]) /\ mask \in SUBSET Events
  BY <1>2, OwnSocketFits DEF HostsFit, FaultsFit, Events
<1>4. n \in 0 .. Units[h] /\ n \in Nat /\ written' = [written EXCEPT ![h] = n]
  BY <1>2, SameWritten DEF HostsFit
<1>5. r \in Tasks /\ r.at = "send" /\ r.blocked = FALSE
  BY GotoOf DEF HostsFit, Places, Waits
<1> HIDE DEF n, mask, r
<1> DEFINE t == [r EXCEPT !.size = m]
<1>6. t \in Tasks /\ t.at = "send" /\ t.blocked = FALSE /\ t.size = m /\ m > 0
  BY <1>5, System DEF Tasks
<1>7. Await(h, sock[h], t, mask)
  BY <1>1
<1> HIDE DEF t
<1>8. t.at \in Waits /\ TaskFits(h, t, sock[h], n)
  BY <1>1, <1>4, <1>6 DEF Waits, TaskFits
<1> QED BY <1>2, <1>3, <1>4, <1>7, <1>8, AwaitFits

LEMMA RoomOf ==
    ASSUME NEW s, Fit(s)
    PROVE  /\ RoomToWrite(s) \in Int /\ s.sndUser \in Nat
           /\ s.sndUser + RoomToWrite(s) <= TxBufferSize
<1>1. s.sndUser \in 0 .. TxBufferSize /\ s.sndNxt \in SeqNums /\ s.sndUna \in SeqNums
  BY DEF Fit, Bounded, Loose, SendOK
<1> DEFINE f == InFlight(s)
<1>2. f \in Nat
  <2> DEFINE a == s.sndNxt
             b == s.sndUna
  <2>1. a \in SeqNums /\ b \in SeqNums /\ f = Minus(a, b)
    BY <1>1 DEF InFlight
  <2> HIDE DEF a, b, f
  <2>2. b \in Int
    BY <2>1, SeqNumsAreNats
  <2>3. f \in SeqNums
    BY <2>1, <2>2, MinusOf
  <2> QED BY <2>3, SeqNumsAreNats
<1>3. RoomToWrite(s) = TxBufferSize - (s.sndUser + f)
  BY DEF RoomToWrite
<1> HIDE DEF f
<1> QED BY <1>1, <1>2, <1>3, Sizes

LEMMA SendTurnFits ==
    ASSUME HostsFit, NEW h \in Hosts, NEW nic \in Nics, SendTurn(h, nic)
    PROVE  HostsFit'
<1> DEFINE s == [sock[h] EXCEPT !.nic = nic]
           room == RoomToWrite(s)
           size == task[h].size
           n == Least(room, size)
           w == written[h]
           data == [k \in 1 .. n |-> w + k]
           t == WriteData(s, data)
           left == size - n
           over == \/ s.eventFlags # {"TX_READY"}
                   \/ s.state \notin {"ESTABLISHED", "CLOSE_WAIT"}
                   \/ room <= 0
           r == Goto(h, "send")
           next == [r EXCEPT !.size = left]
           mask == {"TX_READY"}
<1>1. /\ Resumes(h, "send", nic)
      /\ IF over THEN Returns(h, s, TRUE) /\ UNCHANGED written
         ELSE /\ written' = [written EXCEPT ![h] = @ + n]
              /\ IF left = 0 THEN Returns(h, t, FALSE)
                 ELSE Await(h, t, next, mask)
  BY DEF SendTurn, ReturnError, Return
<1>2. FaultsFit' /\ task[h].at = "send" /\ Works(h)
  BY <1>1, ResumesFits, IdleWorks DEF HostsFit, Places, Waits
<1>3. h \in Sockets /\ Fit(s)
  BY OwnSocketFits, SocketWithNic
<1>4. /\ size \in Nat /\ size > 0 /\ w \in Nat /\ w + size <= Units[h]
      /\ Units[h] \in Nat
  BY <1>2, System DEF HostsFit, TasksFit, TaskFits, Tasks
<1>5. r \in Tasks /\ r.at = "send" /\ r.blocked = FALSE
  BY GotoOf DEF HostsFit, Places, Waits
<1>6. mask \in SUBSET Events
  BY DEF Events
<1>7. CASE over
  <2>1. Returns(h, s, TRUE) /\ UNCHANGED written
    BY <1>1, <1>7
  <2>2. w \in 0 .. Units[h] /\ written' = [written EXCEPT ![h] = w]
    BY <2>1, SameWritten DEF HostsFit
  <2> HIDE DEF s, w
  <2> QED BY <1>2, <1>3, <2>1, <2>2, ReturnsFits
<1>8. CASE ~over
  <2>1. room \in Int /\ room > 0 /\ s.sndUser \in Nat /\ s.sndUser + room <= TxBufferSize
    <3>1. ~(room <= 0)
      BY <1>8
    <3> HIDE DEF s
    <3>2. room \in Int /\ s.sndUser \in Nat /\ s.sndUser + room <= TxBufferSize
      BY <1>3, RoomOf
    <3> HIDE DEF room
    <3> QED BY <3>1, <3>2
  <2>2. written' = [written EXCEPT ![h] = w + n]
    BY <1>1, <1>8
  <2>3. IF left = 0 THEN Returns(h, t, FALSE) ELSE Await(h, t, next, mask)
    BY <1>1, <1>8
  <2> HIDE DEF s, room, size, w, r, mask
  <2>4. n \in Nat /\ n <= room /\ n <= size
    BY <1>4, <2>1 DEF Least
  <2> HIDE DEF n
  <2>5. left \in Nat /\ w + n \in 0 .. Units[h] /\ w + n \in Nat /\ w + n + left <= Units[h]
    BY <1>4, <2>4
  <2>6. data \in Seq(Nat) /\ Len(data) = n
    <3>1. \A k \in 1 .. n : w + k \in Nat
      BY <1>4, <2>4
    <3> QED BY <2>4, <3>1
  <2>7. s.sndUser + Len(data) <= TxBufferSize
    BY <2>1, <2>4, <2>6, Sizes
  <2> HIDE DEF data, left
  <2>8. Fit(t)
    BY <1>3, <2>6, <2>7, WriteDataFits
  <2> DEFINE m == w + n
  <2>9. m \in 0 .. Units[h] /\ m \in Nat /\ written' = [written EXCEPT ![h] = m]
    BY <2>2, <2>5
  <2>10. left # 0 => left > 0 /\ m + left <= Units[h]
    BY <2>5
  <2> HIDE DEF t, m
  <2>11. CASE left = 0
    BY <1>2, <2>3, <2>8, <2>9, <2>11, ReturnsFits
  <2>12. CASE left # 0
    <3>1. next \in Tasks /\ next.at = "send" /\ next.blocked = FALSE /\ next.size = left
      BY <1>5, <2>5 DEF Tasks
    <3>2. Await(h, t, next, mask)
      BY <2>3, <2>12
    <3> HIDE DEF next
    <3>3. next.at \in Waits /\ TaskFits(h, next, t, m)
      BY <2>9, <2>10, <2>12, <3>1 DEF Waits, TaskFits
    <3> QED BY <1>2, <1>6, <2>8, <2>9, <3>2, <3>3, AwaitFits
  <2> QED BY <2>11, <2>12
<1> QED BY <1>7, <1>8

\* tcpReceive
LEMMA ReceiveFits ==
    ASSUME HostsFit, NEW h \in Hosts, Receive(h)
    PROVE  HostsFit'
<1> DEFINE n == written[h]
           mask == {"RX_READY"}
           r == Goto(h, "receive")
<1>1. PICK m \in ReadSizes : Await(h, sock[h], [r EXCEPT !.size = m], mask)
  BY DEF Receive
<1>2. Works(h) /\ UNCHANGED written /\ UNCHANGED faults
  BY CallFits DEF Receive, history
<1>3. FaultsFit' /\ Fit(sock[h]) /\ mask \in SUBSET Events
  BY <1>2, OwnSocketFits DEF HostsFit, FaultsFit, Events
<1>4. n \in 0 .. Units[h] /\ n \in Nat /\ written' = [written EXCEPT ![h] = n]
  BY <1>2, SameWritten DEF HostsFit
<1>5. r \in Tasks /\ r.at = "receive" /\ r.blocked = FALSE
  BY GotoOf DEF HostsFit, Places, Waits
<1> HIDE DEF n, mask, r
<1> DEFINE t == [r EXCEPT !.size = m]
<1>6. t \in Tasks /\ t.at = "receive" /\ t.blocked = FALSE
  BY <1>5, System DEF Tasks
<1>7. Await(h, sock[h], t, mask)
  BY <1>1
<1> HIDE DEF t
<1>8. t.at \in Waits /\ TaskFits(h, t, sock[h], n)
  BY <1>4, <1>6 DEF Waits, TaskFits
<1> QED BY <1>2, <1>3, <1>4, <1>7, <1>8, AwaitFits

LEMMA ReceiveTurnFits ==
    ASSUME HostsFit, NEW h \in Hosts, NEW nic \in Nics, ReceiveTurn(h, nic)
    PROVE  HostsFit'
<1> DEFINE s == [sock[h] EXCEPT !.nic = nic]
           size == task[h].size
           n == Least(s.rcvUser, size)
           w == written[h]
<1>1. /\ Resumes(h, "receive", nic) /\ UNCHANGED written
      /\ \E closing \in BOOLEAN : Returns(h, s, closing) \/ Returns(h, Consume(s, n), closing)
  BY DEF ReceiveTurn, Return, ReturnError
<1>2. FaultsFit' /\ task[h].at = "receive" /\ Works(h)
  BY <1>1, ResumesFits, IdleWorks DEF HostsFit, Places, Waits
<1>3. Fit(s)
  BY OwnSocketFits, SocketWithNic
<1>4. size \in Nat
  BY DEF HostsFit, TasksFit, Tasks
<1>5. w \in 0 .. Units[h] /\ written' = [written EXCEPT ![h] = w]
  BY <1>1, SameWritten DEF HostsFit
<1> HIDE DEF s, size, w
<1>6. n \in Nat /\ n <= s.rcvUser
  BY <1>3, <1>4 DEF Fit, Bounded, Loose, ReceiveOK, Least
<1> HIDE DEF n
<1> DEFINE t == Consume(s, n)
<1>7. Fit(t)
  BY <1>3, <1>6, ConsumeFits
<1>8. PICK closing \in BOOLEAN : Returns(h, s, closing) \/ Returns(h, t, closing)
  BY <1>1
<1> HIDE DEF t
<1> QED BY <1>2, <1>3, <1>5, <1>7, <1>8, ReturnsFits

LEMMA WaitFits ==
    ASSUME HostsFit, NEW h \in Hosts, Works(h), NEW s, Fit(s), NEW t \in Tasks,
           t.at \in Waits \ {"send", "drain"}, NEW mask \in SUBSET Events,
           Await(h, s, t, mask), UNCHANGED written, FaultsFit'
    PROVE  HostsFit'
<1> DEFINE n == written[h]
<1>1. n \in 0 .. Units[h] /\ n \in Nat /\ written' = [written EXCEPT ![h] = n]
  BY SameWritten DEF HostsFit
<1> HIDE DEF n
<1>2. TaskFits(h, t, s, n)
  BY <1>1 DEF Waits, TaskFits
<1> QED BY <1>1, <1>2, AwaitFits

LEMMA EndFits ==
    ASSUME HostsFit, NEW h \in Hosts, Works(h), NEW s, Fit(s), NEW closing \in BOOLEAN,
           Returns(h, s, closing), UNCHANGED written, FaultsFit'
    PROVE  HostsFit'
<1> DEFINE n == written[h]
<1>1. n \in 0 .. Units[h] /\ written' = [written EXCEPT ![h] = n]
  BY SameWritten DEF HostsFit
<1> HIDE DEF n
<1> QED BY <1>1, ReturnsFits

\* tcpShutdown
LEMMA DisableReceptionFits ==
    ASSUME HostsFit, NEW h \in Hosts, Works(h), NEW s, Fit(s),
           NEW how \in {"SEND", "RECEIVE", "BOTH"}, DisableReception(h, s, how),
           UNCHANGED written, FaultsFit'
    PROVE  HostsFit'
<1> DEFINE r == Goto(h, "end")
           t == [r EXCEPT !.how = how]
           mask == {"RX_SHUTDOWN"}
           closing == how = "BOTH"
<1>1. Await(h, s, t, mask) \/ Returns(h, s, closing)
  BY DEF DisableReception, ShutdownReturns
<1>2. r \in Tasks /\ r.at = "end"
  BY GotoOf DEF HostsFit, Places, Waits
<1>3. mask \in SUBSET Events /\ closing \in BOOLEAN
  BY DEF Events
<1> HIDE DEF r, mask, closing
<1>4. t \in Tasks /\ t.at \in Waits \ {"send", "drain"}
  BY <1>2 DEF Tasks, Waits
<1> HIDE DEF t
<1>5. CASE Await(h, s, t, mask)
  BY <1>3, <1>4, <1>5, WaitFits
<1>6. CASE Returns(h, s, closing)
  BY <1>3, <1>6, EndFits
<1> QED BY <1>1, <1>5, <1>6

LEMMA ShutdownFits ==
    ASSUME HostsFit, NEW h \in Hosts, Shutdown(h)
    PROVE  HostsFit'
<1> DEFINE s == sock[h]
           Begin(place, how) == [Goto(h, place) EXCEPT !.how = how]
           finState == IF s.state = "CLOSE_WAIT" THEN "LAST_ACK" ELSE "FIN_WAIT_1"
           closing == TRUE
           ready == {"TX_READY"}
           ended_ == {"TX_SHUTDOWN"}
<1>1. PICK how \in Hows :
        \/ DisableReception(h, s, how)
        \/ Returns(h, s, closing)
        \/ Await(h, s, [Begin("flush", how) EXCEPT !.finState = finState], ready)
        \/ Await(h, s, Begin("fin", how), ended_)
  BY DEF Shutdown, ReturnError
<1>2. Works(h) /\ UNCHANGED written /\ UNCHANGED faults
  BY CallFits DEF Shutdown, history
<1>3. FaultsFit' /\ Fit(s)
  BY <1>2, OwnSocketFits DEF HostsFit, FaultsFit
<1>4. /\ closing \in BOOLEAN /\ ready \in SUBSET Events /\ ended_ \in SUBSET Events
      /\ finState \in {"FIN_WAIT_1", "LAST_ACK"}
  BY DEF Events
<1>5. how \in {"SEND", "RECEIVE", "BOTH"}
  BY System
<1> HIDE DEF s, finState, closing, ready, ended_
<1> DEFINE f == Goto(h, "flush")
           fh == [f EXCEPT !.how = how]
           t == [fh EXCEPT !.finState = finState]
           g == Goto(h, "fin")
           u == [g EXCEPT !.how = how]
<1>6. f \in Tasks /\ f.at = "flush" /\ g \in Tasks /\ g.at = "fin"
  BY GotoOf DEF HostsFit, Places, Waits
<1>7. \/ DisableReception(h, s, how) \/ Returns(h, s, closing)
      \/ Await(h, s, t, ready) \/ Await(h, s, u, ended_)
  BY <1>1
<1> HIDE DEF f, g
<1>8. fh \in Tasks /\ fh.at = "flush"
  BY <1>5, <1>6 DEF Tasks
<1>9. u \in Tasks /\ u.at \in Waits \ {"send", "drain"}
  BY <1>5, <1>6 DEF Tasks, Waits
<1> HIDE DEF fh, u
<1>10. t \in Tasks /\ t.at \in Waits \ {"send", "drain"}
  BY <1>4, <1>8 DEF Tasks, Waits
<1> HIDE DEF t
<1>11. CASE DisableReception(h, s, how)
  BY <1>2, <1>3, <1>5, <1>11, DisableReceptionFits
<1>12. CASE Returns(h, s, closing)
  BY <1>2, <1>3, <1>4, <1>12, EndFits
<1>13. CASE Await(h, s, t, ready)
  BY <1>2, <1>3, <1>4, <1>10, <1>13, WaitFits
<1>14. CASE Await(h, s, u, ended_)
  BY <1>2, <1>3, <1>4, <1>9, <1>14, WaitFits
<1> QED BY <1>7, <1>11, <1>12, <1>13, <1>14

LEMMA FlushTurnFits ==
    ASSUME HostsFit, NEW h \in Hosts, NEW nic \in Nics, FlushTurn(h, nic)
    PROVE  HostsFit'
<1> DEFINE s == [sock[h] EXCEPT !.nic = nic]
           noDelay == TRUE
           u == NagleAlgo(s, noDelay)
           t == Goto(h, "drain")
           mask == {"TX_DONE"}
           n == written[h]
<1>1. /\ Resumes(h, "flush", nic) /\ UNCHANGED written
      /\ \/ Returns(h, s, noDelay)
         \/ s.state \in {"ESTABLISHED", "CLOSE_WAIT"} /\ Await(h, u, t, mask)
  BY DEF FlushTurn, ReturnError, history
<1>2. FaultsFit' /\ task[h].at = "flush" /\ Works(h)
  BY <1>1, ResumesFits, IdleWorks DEF HostsFit, Places, Waits
<1>3. Fit(s)
  BY OwnSocketFits, SocketWithNic
<1>4. noDelay \in BOOLEAN /\ mask \in SUBSET Events
  BY DEF Events
<1>5. t \in Tasks /\ t.at = "drain" /\ t.blocked = FALSE
  BY GotoOf DEF HostsFit, Places, Waits
<1>6. n \in 0 .. Units[h] /\ n \in Nat /\ written' = [written EXCEPT ![h] = n]
  BY <1>1, SameWritten DEF HostsFit
<1> HIDE DEF s, noDelay, mask, t, n
<1>7. CASE Returns(h, s, noDelay)
  BY <1>1, <1>2, <1>3, <1>4, <1>7, EndFits
<1>8. CASE s.state \in {"ESTABLISHED", "CLOSE_WAIT"} /\ Await(h, u, t, mask)
  <2>1. Fit(u) /\ Goes(s, u)
    BY <1>3, NagleAlgoFits, StaysGoes
  <2>2. Draining(s)
    BY <1>3, <1>8, ApartLess DEF Draining, Fit, Bounded, Loose, BlocksOK
  <2>3. Draining(u)
    BY <2>1, <2>2 DEF Goes
  <2>4. Await(h, u, t, mask)
    BY <1>8
  <2> HIDE DEF u
  <2>5. t.at \in Waits /\ TaskFits(h, t, u, n)
    BY <1>5, <1>6, <2>3 DEF TaskFits, Waits
  <2> QED BY <1>2, <1>4, <1>6, <2>1, <2>4, <2>5, AwaitFits
<1> QED BY <1>1, <1>7, <1>8

LEMMA DrainTurnFits ==
    ASSUME HostsFit, NEW h \in Hosts, NEW nic \in Nics, DrainTurn(h, nic)
    PROVE  HostsFit'
<1> DEFINE s == [sock[h] EXCEPT !.nic = nic]
           finState == task[h].finState
           u == SendFin(s, finState)
           closing == TRUE
           t == Goto(h, "fin")
           mask == {"TX_SHUTDOWN"}
<1>1. /\ Resumes(h, "drain", nic) /\ UNCHANGED written
      /\ \/ Returns(h, s, closing)
         \/ Returns(h, u, closing)
         \/ Await(h, u, t, mask)
  BY DEF DrainTurn, ReturnError
<1>2. FaultsFit' /\ task[h].at = "drain" /\ Works(h)
  BY <1>1, ResumesFits, IdleWorks DEF HostsFit, Places, Waits
<1>3. Fit(s) /\ Goes(sock[h], s)
  BY OwnSocketFits, SocketWithNic
<1>4. closing \in BOOLEAN /\ mask \in SUBSET Events
  BY DEF Events
<1>5. t \in Tasks /\ t.at \in Waits \ {"send", "drain"}
  BY GotoOf DEF HostsFit, Places, Waits
<1>6. finState \in {"FIN_WAIT_1", "LAST_ACK"} /\ Draining(sock[h])
  BY <1>2 DEF HostsFit, TasksFit, TaskFits, Tasks
<1> HIDE DEF s, closing, mask, t, finState
<1>7. Apart(s, 0)
  BY <1>3, <1>6 DEF Goes, Draining
<1>8. Fit(u)
  BY <1>3, <1>6, <1>7, SendFinFits
<1> HIDE DEF u
<1>9. CASE Returns(h, s, closing)
  BY <1>1, <1>2, <1>3, <1>4, <1>9, EndFits
<1>10. CASE Returns(h, u, closing)
  BY <1>1, <1>2, <1>4, <1>8, <1>10, EndFits
<1>11. CASE Await(h, u, t, mask)
  BY <1>1, <1>2, <1>4, <1>5, <1>8, <1>11, WaitFits
<1> QED BY <1>1, <1>9, <1>10, <1>11

LEMMA FinTurnFits ==
    ASSUME HostsFit, NEW h \in Hosts, FinTurn(h)
    PROVE  HostsFit'
<1> DEFINE s == sock[h]
           closing == TRUE
           how == task[h].how
<1>1. /\ Resumes(h, "fin", "up") /\ UNCHANGED written
      /\ Returns(h, s, closing) \/ DisableReception(h, s, how)
  BY DEF FinTurn, ReturnError, history
<1>2. FaultsFit' /\ Works(h)
  BY <1>1, ResumesFits, IdleWorks DEF HostsFit, Places, Waits
<1>3. Fit(s) /\ closing \in BOOLEAN
  BY OwnSocketFits
<1>4. how \in {"SEND", "RECEIVE", "BOTH"}
  BY DEF HostsFit, TasksFit, Tasks
<1> HIDE DEF s, closing, how
<1>5. CASE Returns(h, s, closing)
  BY <1>1, <1>2, <1>3, <1>5, EndFits
<1>6. CASE DisableReception(h, s, how)
  BY <1>1, <1>2, <1>3, <1>4, <1>6, DisableReceptionFits
<1> QED BY <1>1, <1>5, <1>6

LEMMA EndTurnFits ==
    ASSUME HostsFit, NEW h \in Hosts, EndTurn(h)
    PROVE  HostsFit'
<1>1. /\ Resumes(h, "end", "up") /\ UNCHANGED written
      /\ \E closing \in BOOLEAN : Returns(h, sock[h], closing)
  BY DEF EndTurn, ShutdownReturns, ReturnError, history
<1>2. FaultsFit' /\ Works(h)
  BY <1>1, ResumesFits, IdleWorks DEF HostsFit, Places, Waits
<1> QED BY <1>1, <1>2, OwnSocketFits, EndFits

\* tcpAbort
LEMMA CloseActionFits ==
    ASSUME HostsFit, NEW h \in Hosts, NEW nic \in Nics, Close(h, nic)
    PROVE  HostsFit'
<1> DEFINE s == [sock[h] EXCEPT !.nic = nic]
           u == Abort(s)
           t == [Idle EXCEPT !.at = "closed"]
           n == written[h]
<1>1. Put(h, u) /\ Become(h, t) /\ UNCHANGED written
  BY DEF Close, history
<1>2. FaultsFit'
  BY SendsFit, FaultFits DEF Close, HostsFit
<1>3. Fit(s)
  BY OwnSocketFits, SocketWithNic
<1> HIDE DEF s
<1>4. Fit(u)
  BY <1>3, AbortFits
<1>5. t \in Tasks /\ t.at = "closed" /\ t.blocked = FALSE
  BY DEF Idle, Tasks, Places, Waits
<1>6. n \in 0 .. Units[h] /\ n \in Nat /\ written' = [written EXCEPT ![h] = n]
  BY <1>1, SameWritten DEF HostsFit
<1> HIDE DEF u, t, n
<1>7. TaskFits(h, t, u, n)
  BY <1>5, <1>6 DEF TaskFits
<1> QED BY <1>1, <1>2, <1>4, <1>6, <1>7, TaskStepFits

\* The net task
LEMMA HeadOf ==
    ASSUME NetFits, NEW h \in Hosts, net[h] # <<>>
    PROVE  Head(net[h]) \in Segments /\ Tail(net[h]) \in Seq(Segments)
<1> DEFINE q == net[h]
<1>1. q \in Seq(Segments) /\ q # <<>>
  BY DEF NetFits
<1> HIDE DEF q
<1>2. Head(q) \in Segments /\ Tail(q) \in Seq(Segments)
  BY <1>1, HeadTailProperties
<1> QED BY <1>2 DEF q

LEMMA ProcessSegmentFits ==
    ASSUME HostsFit, NEW h \in Hosts, NEW nic \in Nics, ProcessSegment(h, nic)
    PROVE  HostsFit'
<1> DEFINE seg == Head(net[h])
           rest == [net EXCEPT ![h] = Tail(@)]
           x == CHOOSE x \in Matching(h) : TRUE
           r == [sock[x] EXCEPT !.nic = nic]
           peer == Peer(h)
           z == [Unused EXCEPT !.nic = nic]
           s == IF Matching(h) = {} THEN StateClosed(z, seg)
                ELSE ProcessState(r, peer, seg)
<1>1. /\ net[h] # <<>> /\ Sends(nic)
      /\ sock' = [y \in Sockets |-> IF y \in Matching(h) THEN Left(s) ELSE sock[y]]
      /\ net' = [rest EXCEPT ![peer] = @ \o s.out]
      /\ UNCHANGED <<task, written>>
  BY DEF ProcessSegment, history, Left
<1>2. FaultsFit'
  BY <1>1, SendsFit DEF HostsFit
<1>3. seg \in Segments /\ Tail(net[h]) \in Seq(Segments)
  BY <1>1, HeadOf DEF HostsFit
<1>4. peer \in Hosts
  BY DEF Peer, Hosts
<1>5. rest \in [Hosts -> Seq(Segments)]
  BY <1>3 DEF HostsFit, NetFits
<1>6. ASSUME NEW e, Fit(e)
      PROVE  e.out \in Seq(Segments)
  BY <1>6 DEF Fit, Bounded, Loose, SendOK
<1>7. CASE Matching(h) = {}
  <2>1. Fit(z)
    BY UnusedFits, NicFits
  <2> HIDE DEF z, seg
  <2>2. Fit(s)
    BY <1>3, <1>7, <2>1, StateClosedGoes DEF Goes
  <2> HIDE DEF s
  <2>3. sock' = [y \in Sockets |-> sock[y]]
    BY <1>1, <1>7
  <2>4. sock' = sock
    BY <2>3 DEF HostsFit, SocketsFit
  <2>5. rest[peer] \o s.out \in Seq(Segments)
    BY <1>4, <1>5, <1>6, <2>2, ConcatProperties
  <2> HIDE DEF rest, peer
  <2>6. NetFits'
    BY <1>1, <1>4, <1>5, <2>5 DEF NetFits
  <2>7. SocketsFit' /\ TasksFit'
    BY <1>1, <2>4 DEF HostsFit, SocketsFit, TasksFit
  <2> QED BY <1>2, <2>6, <2>7 DEF HostsFit
<1>8. CASE Matching(h) # {}
  <2>1. x \in Sockets /\ Matching(h) = {x}
    BY <1>8 DEF Matching, Hosts, Sockets
  <2>2. s = ProcessState(r, peer, seg)
    BY <1>8
  <2> HIDE DEF x, seg, peer
  <2>3. Fit(r) /\ Goes(sock[x], r) /\ r.state = sock[x].state /\ r.eventMask = sock[x].eventMask
    BY <2>1, SocketWithNic
  <2> HIDE DEF r
  <2>4. Goes(r, ProcessState(r, peer, seg))
    BY <1>3, <1>4, <2>3, ProcessStateGoes
  <2>5. Goes(sock[x], s)
    BY <2>2, <2>3, <2>4, GoesOfGoes
  <2>6. x = "listener" => Listening(s)
    <3>1. CASE x = "listener"
      <4>1. r.state = "LISTEN" /\ r.eventMask \subseteq {"RX_READY"}
        BY <2>3, <3>1 DEF HostsFit, SocketsFit, Listening
      <4>2. s = StateListen(r, peer, seg)
        BY <2>2, <4>1 DEF ProcessState
      <4>3. s.state = r.state /\ s.eventMask = r.eventMask
        BY <1>3, <1>4, <2>3, <4>2, StateListenFits
      <4> QED BY <4>1, <4>3 DEF Listening
    <3> QED BY <3>1
  <2> HIDE DEF s
  <2>7. sock' = [sock EXCEPT ![x] = Left(s)]
    BY <1>1, <2>1 DEF HostsFit, SocketsFit
  <2>8. rest[peer] \o s.out \in Seq(Segments)
    BY <1>4, <1>5, <1>6, <2>5, ConcatProperties DEF Goes
  <2> HIDE DEF rest
  <2>9. NetFits'
    BY <1>1, <1>4, <1>5, <2>8 DEF NetFits
  <2> QED BY <1>1, <1>2, <2>1, <2>5, <2>6, <2>7, <2>9, NetStepFits
<1> QED BY <1>7, <1>8

\* tcpTick
LEMMA RetransmitTickFits ==
    ASSUME HostsFit, NEW h \in Hosts, NEW nic \in Nics, RetransmitTick(h, nic)
    PROVE  HostsFit'
<1> DEFINE s == [sock[h] EXCEPT !.nic = nic]
<1>1. Put(h, RetransmitTimeout(s)) /\ UNCHANGED <<task, written>>
  BY DEF RetransmitTick
<1>2. FaultsFit'
  BY ElapsesFit DEF RetransmitTick, HostsFit
<1>3. Fit(s) /\ Goes(sock[h], s)
  BY OwnSocketFits, SocketWithNic
<1> HIDE DEF s
<1>4. Goes(sock[h], RetransmitTimeout(s))
  BY <1>3, RetransmitTimeoutGoes, GoesOfGoes
<1> QED BY <1>1, <1>2, <1>4, TickFits

LEMMA PersistTickFits ==
    ASSUME HostsFit, NEW h \in Hosts, NEW nic \in Nics, PersistTick(h, nic)
    PROVE  HostsFit'
<1> DEFINE s == [sock[h] EXCEPT !.nic = nic]
<1>1. Put(h, PersistTimeout(s)) /\ UNCHANGED <<task, written>>
  BY DEF PersistTick, history
<1>2. FaultsFit'
  BY ElapsesFit DEF PersistTick, HostsFit
<1>3. Fit(s) /\ Goes(sock[h], s)
  BY OwnSocketFits, SocketWithNic
<1> HIDE DEF s
<1>4. Goes(sock[h], PersistTimeout(s))
  BY <1>3, PersistTimeoutGoes, GoesOfGoes
<1> QED BY <1>1, <1>2, <1>4, TickFits

LEMMA OverrideTickFits ==
    ASSUME HostsFit, NEW h \in Hosts, NEW nic \in Nics, OverrideTick(h, nic)
    PROVE  HostsFit'
<1> DEFINE s == [sock[h] EXCEPT !.nic = nic]
<1>1. Put(h, OverrideTimeout(s)) /\ UNCHANGED <<task, written>>
  BY DEF OverrideTick, history
<1>2. FaultsFit'
  BY SendsFit DEF OverrideTick, HostsFit
<1>3. Fit(s) /\ Goes(sock[h], s)
  BY OwnSocketFits, SocketWithNic
<1> HIDE DEF s
<1>4. Goes(sock[h], OverrideTimeout(s))
  BY <1>3, OverrideTimeoutGoes, GoesOfGoes
<1> QED BY <1>1, <1>2, <1>4, TickFits

LEMMA OtherTicksFit ==
    ASSUME HostsFit, NEW h \in Hosts, FinWait2Tick(h) \/ TimeWaitTick(h)
    PROVE  HostsFit'
<1> DEFINE s == sock[h]
           c == ChangeState(s, "CLOSED")
           d == Dispose(c)
           up == "up"
<1>1. /\ s.state \in {"FIN_WAIT_2", "TIME_WAIT"}
      /\ Put(h, c) \/ Put(h, d)
      /\ UNCHANGED <<task, written>> /\ \E due : Elapses(due, up)
  BY DEF FinWait2Tick, TimeWaitTick, FinWait2Timeout, TimeWaitTimeout, history
<1>2. FaultsFit'
  BY <1>1, ElapsesFit DEF HostsFit, Nics
<1>3. Fit(s)
  BY OwnSocketFits
<1>4. Fit(c)
  BY <1>3, CloseFits
<1> HIDE DEF s, c
<1>5. Fit(d)
  BY <1>4, FreeFits
<1> HIDE DEF d
<1>6. Goes(s, c) /\ Goes(s, d)
  BY <1>1, <1>4, <1>5, OtherGoes
<1> HIDE DEF up
<1>7. CASE Put(h, c)
  BY <1>1, <1>2, <1>6, <1>7, TickFits DEF s
<1>8. CASE Put(h, d)
  BY <1>1, <1>2, <1>6, <1>8, TickFits DEF s
<1> QED BY <1>1, <1>7, <1>8

LEMMA NetworkFits ==
    ASSUME HostsFit, NEW h \in Hosts, Network(h)
    PROVE  HostsFit'
<1> DEFINE q == net[h]
<1>1. /\ q # <<>> /\ UNCHANGED <<sock, task, written>>
      /\ \E kind : Fault(kind)
      /\ \/ net' = [net EXCEPT ![h] = Tail(q)]
         \/ net' = [net EXCEPT ![h] = Append(q, Head(q))]
         \/ net' = [net EXCEPT ![h] = Append(Tail(q), Head(q))]
  BY DEF Network, Lose, Duplicate, Delay, history
<1>2. FaultsFit'
  BY <1>1, FaultFits DEF HostsFit
<1>3. /\ q \in Seq(Segments) /\ Head(q) \in Segments /\ Tail(q) \in Seq(Segments)
  BY <1>1, HeadOf DEF HostsFit, NetFits
<1> HIDE DEF q
<1>4. Append(q, Head(q)) \in Seq(Segments) /\ Append(Tail(q), Head(q)) \in Seq(Segments)
  BY <1>3, AppendProperties
<1>5. NetFits'
  BY <1>1, <1>3, <1>4 DEF HostsFit, NetFits
<1>6. SocketsFit' /\ TasksFit'
  BY <1>1 DEF HostsFit, SocketsFit, TasksFit
<1> QED BY <1>2, <1>5, <1>6 DEF HostsFit

LEMMA InitFits ==
    ASSUME Init
    PROVE  HostsFit
<1> DEFINE r == Unused
           o == [r EXCEPT !.used = TRUE]
           l == [o EXCEPT !.state = "LISTEN"]
<1>1. /\ sock = [x \in Sockets |-> IF x = "client" THEN o
                                   ELSE IF x = "listener" THEN l ELSE r]
      /\ task = [h \in Hosts |-> Start]
      /\ net = [h \in Hosts |-> <<>>] /\ faults = 0
      /\ written = [h \in Hosts |-> 0]
  BY DEF Init, Opened
<1>2. /\ Fit(r) /\ DOMAIN r = SocketFields /\ r.state = "CLOSED" /\ r.sackBlock = <<>>
      /\ r.eventMask = {} /\ r.out = <<>> /\ r.nic = "up"
  BY UnusedFits
<1> HIDE DEF r
<1>3. /\ AtRest(o) /\ o.state = "CLOSED" /\ o.sackBlock = <<>> /\ o.eventMask = {}
      /\ DOMAIN o = SocketFields
  <2>1. SameButEvents(r, o) /\ o.eventMask = r.eventMask /\ o.eventFlags = r.eventFlags
    BY <1>2 DEF SameButEvents, SameSender, SameReceiver, SameBlocks, SocketFields
  <2> HIDE DEF o
  <2>2. Fit(o) /\ o.out = r.out /\ o.nic = r.nic
    BY <1>2, <2>1, SameButEventsFits DEF Fit, Bounded, Loose, WaitOK
  <2> QED BY <1>2, <2>1, <2>2 DEF AtRest, SameButEvents, SameReceiver, SameBlocks
<1> HIDE DEF o
<1>4. AtRest(l) /\ Listening(l)
  <2>1. /\ SameSender(o, l) /\ SameReceiver(o, l) /\ l.state = "LISTEN"
        /\ l.synQueue = o.synQueue /\ l.eventMask = o.eventMask
        /\ l.eventFlags = o.eventFlags /\ DOMAIN l = SocketFields
    BY <1>3 DEF SameSender, SameReceiver, SameBlocks, SocketFields
  <2> HIDE DEF l
  <2>2. /\ SendOK(o) /\ ReceiveOK(o) /\ WaitOK(o) /\ o.cwnd <= TxBufferSize
        /\ o.out = <<>> /\ o.nic = "up"
    BY <1>3 DEF AtRest, Fit, Bounded, Loose
  <2>3. SendOK(l) /\ ReceiveOK(l)
    BY <2>1, <2>2, SameSenderOK, SameReceiverOK
  <2>4. WaitOK(l)
    BY <2>1, <2>2 DEF WaitOK, States
  <2>5. BlocksOK(l)
    BY <2>1 DEF BlocksOK
  <2>6. l.out = <<>> /\ l.nic = "up" /\ l.cwnd <= TxBufferSize
    BY <2>1, <2>2 DEF SameSender
  <2> QED BY <1>3, <2>1, <2>3, <2>4, <2>5, <2>6 DEF AtRest, Fit, Bounded, Loose, Listening
<1>5. SocketsFit
  BY <1>1, <1>2, <1>3, <1>4 DEF SocketsFit, Sockets, AtRest
<1>6. NetFits /\ FaultsFit
  BY <1>1, System DEF NetFits, FaultsFit
<1>7. Start \in Tasks /\ Start.at = "start" /\ Start.blocked = FALSE
  BY DEF Start, Idle, Tasks, Places, Waits
<1>8. sock["client"] = o
  BY <1>1 DEF Sockets
<1>9. TasksFit
  BY <1>1, <1>3, <1>7, <1>8, System DEF TasksFit, TaskFits, Hosts
<1> QED BY <1>5, <1>6, <1>9 DEF HostsFit

LEMMA NextFits ==
    ASSUME HostsFit, [Next]_vars
    PROVE  HostsFit'
<1>1. CASE \E nic \in Nics : Connect(nic) \/ AcceptTurn(nic)
  BY <1>1, ConnectFits, AcceptTurnFits
<1>2. CASE ConnectReturns \/ Accept
  BY <1>2, ConnectReturnsFits, AcceptFits
<1>3. CASE \E h \in Hosts : Call(h) \/ Network(h)
  BY <1>3, SendFits, ReceiveFits, ShutdownFits, NetworkFits DEF Call
<1>4. ASSUME NEW h \in Hosts, NEW nic \in Nics, Turn(h, nic)
      PROVE  HostsFit'
  BY <1>4, SendTurnFits, ReceiveTurnFits, FlushTurnFits, DrainTurnFits, FinTurnFits,
     EndTurnFits DEF Turn
<1>5. ASSUME NEW h \in Hosts, NEW nic \in Nics, Tick(h, nic)
      PROVE  HostsFit'
  BY <1>5, RetransmitTickFits, PersistTickFits, OverrideTickFits, OtherTicksFit DEF Tick
<1>6. ASSUME NEW h \in Hosts, NEW nic \in Nics, Close(h, nic) \/ ProcessSegment(h, nic)
      PROVE  HostsFit'
  BY <1>6, CloseActionFits, ProcessSegmentFits
<1>7. CASE UNCHANGED vars
  BY <1>7 DEF vars, history, HostsFit, SocketsFit, TasksFit, NetFits, FaultsFit
<1> QED BY <1>1, <1>2, <1>3, <1>4, <1>5, <1>6, <1>7 DEF Next

LEMMA RestIsOK ==
    ASSUME NEW s, AtRest(s)
    PROVE  SocketOK(s)
<1>1. /\ SendOK(s) /\ ReceiveOK(s) /\ WaitOK(s) /\ s.cwnd <= TxBufferSize
      /\ s.out = <<>> /\ s.nic = "up"
  BY DEF AtRest, Fit, Bounded, Loose
<1>2. DOMAIN s = DOMAIN Unused
  BY <1>1, UnusedFits DEF WaitOK
<1>3. {s.sndWnd, s.maxSndWnd, s.rcvWnd, s.rcvUser} \subseteq 0 .. RxBufferSize
  <2>1. s.sndWnd \in 0 .. RxBufferSize /\ s.maxSndWnd \in 0 .. RxBufferSize
    BY <1>1 DEF SendOK
  <2>2. s.rcvUser \in Nat /\ s.rcvWnd \in Nat /\ s.rcvUser + s.rcvWnd <= RxBufferSize
    BY <1>1 DEF ReceiveOK
  <2> DEFINE a == s.rcvUser
             b == s.rcvWnd
  <2>3. a \in Nat /\ b \in Nat /\ a + b <= RxBufferSize
    BY <2>2
  <2> HIDE DEF a, b
  <2>4. a \in 0 .. RxBufferSize /\ b \in 0 .. RxBufferSize
    BY <2>3, Sizes
  <2> QED BY <2>1, <2>4 DEF a, b
<1>4. s.cwnd \in 0 .. TxBufferSize
  <2>1. s.cwnd \in Nat
    BY <1>1 DEF SendOK
  <2> QED BY <1>1, <2>1, Sizes
<1>5. \A i \in DOMAIN s.queue : s.queue[i] \in Headers
  BY <1>1 DEF SendOK
<1>6. {s.iss, s.irs, s.sndUna, s.sndNxt, s.sndWl1, s.sndWl2, s.rcvNxt, s.recover}
          \subseteq SeqNums
  BY <1>1 DEF SendOK, ReceiveOK
<1>7. {s.retransmitCount, s.wndProbeCount} \subseteq 0 .. MaxRetries
  BY <1>1 DEF SendOK
<1> QED BY <1>1, <1>2, <1>3, <1>4, <1>5, <1>6, <1>7
        DEF SocketOK, SendOK, ReceiveOK, WaitOK

LEMMA HostsAreTyped ==
    ASSUME HostsFit
    PROVE  TypeOK
<1>1. \A x \in Sockets : SocketOK(sock[x])
  BY RestIsOK DEF HostsFit, SocketsFit
<1>2. ASSUME NEW h \in Hosts, NEW i \in DOMAIN net[h]
      PROVE  IsSegment(net[h][i])
  <2>1. net[h][i] \in Segments
    BY DEF HostsFit, NetFits
  <2> QED BY <2>1, SegmentFields DEF IsSegment
<1>3. \A h \in Hosts :
        /\ task[h] \in Tasks
        /\ task[h].blocked => task[h].at \in Waits
        /\ written[h] \in 0 .. Units[h]
  BY DEF HostsFit, TasksFit, TaskFits
<1> QED BY <1>1, <1>2, <1>3 DEF TypeOK, HostsFit, FaultsFit

\* For every size of the buffers and windows, every sequence space they are a
\* small part of and every initial sequence number: the numbers stay reduced,
\* sndUser, cwnd and the windows stay within the buffers, tcpUpdateSackBlocks
\* never keeps more than its blocks, and a segment never carries more than an
\* MSS (TypeOK).  What makes it inductive is HostsFit: the blocks received out
\* of order are in the window and apart from each other, so that merging them
\* with what arrives never moves rcvNxt past the window.
THEOREM TypesKept == Spec => []TypeOK
<1>1. Init => HostsFit
  BY InitFits
<1>2. HostsFit /\ [Next]_vars => HostsFit'
  BY NextFits
<1>3. HostsFit => TypeOK
  BY HostsAreTyped
<1> QED BY <1>1, <1>2, <1>3, PTL DEF Spec

-----------------------------------------------------------------------------
(* The retransmission queue and what is in flight *)

Queues(s, x) == \E i \in DOMAIN s.queue : Covers(s.queue[i], x)

\* Every number in flight is in a queued segment, and no more than most are.
Queued(s, most) ==
    /\ InFlight(s) <= most
    /\ \A x \in Sequenced(s) : Queues(s, x)

\* t has in flight what s has, and has forgotten no segment.
StillQueued(s, t) ==
    /\ DOMAIN t = DOMAIN s
    /\ t.sndUna = s.sndUna /\ t.sndNxt = s.sndNxt
    /\ \A i \in DOMAIN s.queue : \E j \in DOMAIN t.queue : t.queue[j] = s.queue[i]

HasQueue(s) == {"sndUna", "sndNxt", "queue"} \subseteq DOMAIN s

\* The FIN is one more than the send buffer holds.
Mosts == {TxBufferSize, TxBufferSize + 1}

Progress(s, t) == \A most \in Mosts : Queued(s, most) => Queued(t, most)

LEMMA StillQueuedSelf ==
    ASSUME NEW s
    PROVE  StillQueued(s, s)
BY DEF StillQueued

LEMMA StillQueuedOf ==
    ASSUME NEW s, NEW t, NEW u, StillQueued(s, t), StillQueued(t, u)
    PROVE  StillQueued(s, u)
BY Zenon DEF StillQueued

LEMMA SameQueue ==
    ASSUME NEW s, NEW t, DOMAIN t = DOMAIN s, t.sndUna = s.sndUna, t.sndNxt = s.sndNxt, t.queue = s.queue
    PROVE  StillQueued(s, t)
BY DEF StillQueued

LEMMA StillQueuedProgress ==
    ASSUME NEW s, NEW t, StillQueued(s, t)
    PROVE  Progress(s, t)
<1>1. InFlight(t) = InFlight(s) /\ Sequenced(t) = Sequenced(s)
  BY DEF StillQueued, InFlight, Sequenced
<1>2. ASSUME NEW x, Queues(s, x)
      PROVE  Queues(t, x)
  BY <1>2 DEF Queues, StillQueued
<1> QED BY <1>1, <1>2, Zenon DEF Progress, Queued

LEMMA ProgressOf ==
    ASSUME NEW s, NEW t, NEW u, Progress(s, t), Progress(t, u)
    PROVE  Progress(s, u)
BY Zenon DEF Progress

LEMMA SelfProgress ==
    ASSUME NEW s
    PROVE  Progress(s, s)
BY Zenon DEF Progress

LEMMA MostsSmall ==
    ASSUME NEW most \in Mosts
    PROVE  /\ most \in Nat /\ TxBufferSize <= most /\ most <= TxBufferSize + 1
           /\ 2 * most < SeqSpace /\ 2 * (most + Mss + 1) <= SeqSpace
BY Sizes DEF Mosts

LEMMA MinusIs ==
    ASSUME NEW a \in SeqNums, NEW b \in SeqNums
    PROVE  /\ a \in 0 .. SeqSpace - 1 /\ b \in 0 .. SeqSpace - 1 /\ SeqSpace \in Nat
           /\ Minus(a, b) \in 0 .. SeqSpace - 1
           /\ Minus(a, b) = IF a >= b THEN a - b ELSE a - b + SeqSpace
<1>1. b \in Int /\ SeqSpace \in Nat
  BY SeqNumsAreNats, Sizes
<1>2. Minus(a, b) \in SeqNums /\ Minus(a, b) = IF a >= b THEN a - b ELSE a - b + SeqSpace
  BY <1>1, MinusOf
<1> QED BY <1>1, <1>2 DEF SeqNums

\* The numbers in flight are those less than InFlight beyond sndUna.
LEMMA SequencedOf ==
    ASSUME NEW s, s.sndUna \in SeqNums, s.sndNxt \in SeqNums
    PROVE  /\ InFlight(s) \in Nat
           /\ \A x : x \in Sequenced(s) <=> x \in SeqNums /\ Minus(x, s.sndUna) < InFlight(s)
<1> DEFINE una == s.sndUna
           n == InFlight(s)
<1>1. n \in 0 .. SeqSpace - 1 /\ una \in SeqNums /\ una \in 0 .. SeqSpace - 1 /\ SeqSpace \in Nat
  BY MinusIs DEF InFlight
<1>2. Sequenced(s) = {Plus(una, k) : k \in 0 .. n - 1}
  BY DEF Sequenced
<1> HIDE DEF una, n
<1>3. ASSUME NEW x \in Sequenced(s)
      PROVE  x \in SeqNums /\ Minus(x, una) < n
  <2>1. PICK k \in 0 .. n - 1 : x = Plus(una, k)
    BY <1>2
  <2>2. k \in Int /\ k \in 0 .. SeqSpace - 1 /\ k < n
    BY <1>1
  <2>3. Minus(una, una) = 0
    BY <1>1, MinusIs
  <2>4. Minus(x, una) = k
    BY <1>1, <2>1, <2>2, <2>3, MinusOfPlus
  <2> QED BY <1>1, <2>1, <2>2, <2>4, PlusOf
<1>4. ASSUME NEW x \in SeqNums, Minus(x, una) < n
      PROVE  x \in Sequenced(s)
  <2> DEFINE k == Minus(x, una)
  <2>1. x \in 0 .. SeqSpace - 1 /\ k = IF x >= una THEN x - una ELSE x - una + SeqSpace
    BY <1>1, <1>4, MinusIs
  <2>2. k \in 0 .. n - 1 /\ k \in 0 .. SeqSpace
    BY <1>1, <1>4, <2>1
  <2>3. Plus(una, k) = x
    <3> HIDE DEF k
    <3>1. Plus(una, k) = IF una + k < SeqSpace THEN una + k ELSE una + k - SeqSpace
      BY <1>1, <2>2, PlusOf
    <3> QED BY <1>1, <2>1, <2>2, <3>1
  <2> QED BY <1>2, <2>2, <2>3
<1> QED BY <1>1, <1>3, <1>4 DEF n, una

-----------------------------------------------------------------------------
(* What leaves the queue alone *)

LEMMA EventsQueue ==
    ASSUME NEW s, HasQueue(s), NEW newState, NEW mask
    PROVE  /\ StillQueued(s, UpdateEvents(s))
           /\ StillQueued(s, ChangeState(s, newState))
           /\ StillQueued(s, WaitForEvents(s, mask))
           /\ StillQueued(s, Unwatched(s))
           /\ StillQueued(s, Left(s))
<1>1. ASSUME NEW t, HasQueue(t)
      PROVE  StillQueued(t, UpdateEvents(t))
  BY <1>1, SameQueue DEF UpdateEvents, HasQueue
<1>2. StillQueued(s, ChangeState(s, newState))
  <2> DEFINE t == [s EXCEPT !.closedFlag = @ \/ (newState = "CLOSED" /\ s.state \in {"LAST_ACK", "TIME_WAIT"}),
                            !.resetFlag = @ \/ (newState = "CLOSED" /\ ~(s.state \in {"LAST_ACK", "TIME_WAIT"})),
                            !.state = newState]
  <2>1. ChangeState(s, newState) = UpdateEvents(t)
    BY DEF ChangeState
  <2>2. StillQueued(s, t)
    <3>1. /\ DOMAIN t = DOMAIN s /\ t.sndUna = s.sndUna /\ t.sndNxt = s.sndNxt
          /\ t.queue = s.queue
      BY DEF HasQueue
    <3> HIDE DEF t
    <3> QED BY <3>1, SameQueue
  <2> HIDE DEF t
  <2>3. HasQueue(t)
    BY <2>2 DEF StillQueued, HasQueue
  <2> QED BY <1>1, <2>1, <2>2, <2>3, StillQueuedOf
<1>3. StillQueued(s, WaitForEvents(s, mask))
  <2> DEFINE r == [s EXCEPT !.eventMask = mask]
             t == UpdateEvents(r)
             u == [t EXCEPT !.event = @ /\ t.eventFlags # {}]
  <2>1. WaitForEvents(s, mask) = u
    BY DEF WaitForEvents
  <2>2. StillQueued(s, r)
    BY SameQueue DEF HasQueue
  <2> HIDE DEF r
  <2>3. StillQueued(r, t)
    BY <1>1, <2>2 DEF StillQueued, HasQueue
  <2> HIDE DEF t
  <2>4. StillQueued(t, u)
    BY <2>2, <2>3, SameQueue DEF StillQueued, HasQueue
  <2> HIDE DEF u
  <2> QED BY <2>1, <2>2, <2>3, <2>4, StillQueuedOf
<1>4. StillQueued(s, Unwatched(s)) /\ StillQueued(s, Left(s))
  BY SameQueue DEF Unwatched, Left, HasQueue
<1> QED BY <1>1, <1>2, <1>3, <1>4

LEMMA SendSegmentQueue ==
    ASSUME NEW s, HasQueue(s), s.queue \in Seq(Headers), NEW flags, NEW seqNum, NEW ackNum,
           NEW length, NEW addToQueue
    PROVE  StillQueued(s, SendSegment(s, flags, seqNum, ackNum, length, addToQueue))
<1> DEFINE t == SendSegment(s, flags, seqNum, ackNum, length, addToQueue)
           h == Header(s, flags, seqNum, ackNum, length)
<1>1. t.sndUna = s.sndUna /\ t.sndNxt = s.sndNxt /\ DOMAIN t = DOMAIN s
  BY DEF SendSegment, HasQueue
<1>2. t.queue = s.queue \/ t.queue = Append(s.queue, h)
  BY DEF SendSegment, HasQueue
<1> HIDE DEF t, h
<1>4. \A i \in DOMAIN s.queue :
        i \in DOMAIN Append(s.queue, h) /\ Append(s.queue, h)[i] = s.queue[i]
  OBVIOUS
<1> QED BY <1>1, <1>2, <1>4 DEF StillQueued, t


LEMMA StillHasQueue ==
    ASSUME NEW s, HasQueue(s), NEW t, StillQueued(s, t)
    PROVE  HasQueue(t)
BY DEF HasQueue, StillQueued

LEMMA LooseHasQueue ==
    ASSUME NEW s, Loose(s)
    PROVE  /\ HasQueue(s) /\ s.queue \in Seq(Headers)
           /\ s.sndUna \in SeqNums /\ s.sndNxt \in SeqNums
BY DEF Loose, SendOK, WaitOK, HasQueue, SocketFields

LEMMA SendAckQueue ==
    ASSUME NEW s, HasQueue(s), s.queue \in Seq(Headers)
    PROVE  StillQueued(s, SendAck(s))
BY SendSegmentQueue DEF SendAck

LEMMA RetransmitSegmentQueue ==
    ASSUME NEW s, HasQueue(s)
    PROVE  StillQueued(s, RetransmitSegment(s))
<1> DEFINE dataUpTo[k \in 0 .. Len(s.queue)] ==
               IF k = 0 THEN 0 ELSE dataUpTo[k - 1] + s.queue[k].length
           sent == {k \in DOMAIN s.queue : dataUpTo[k] <= Mss}
           resent == [k \in 1 .. Cardinality(sent) |-> Segment(s, s.queue[k])]
           t == [s EXCEPT !.out = @ \o resent]
<1>1. RetransmitSegment(s) = IF Fails(s) THEN s ELSE t
  BY DEF RetransmitSegment
<1> HIDE DEF resent
<1>2. StillQueued(s, t)
  BY SameQueue DEF HasQueue
<1> QED BY <1>1, <1>2, StillQueuedSelf

LEMMA AckQueue ==
    ASSUME NEW s, HasQueue(s), NEW seg, NEW n
    PROVE  /\ StillQueued(s, UpdateSendWindow(s, seg))
           /\ StillQueued(s, InitSendWindow(s, seg))
           /\ StillQueued(s, CutCwnd(s))
           /\ StillQueued(s, FastRetransmit(s))
           /\ StillQueued(s, FastRecovery(s, seg, n))
           /\ StillQueued(s, FastLossRecovery(s, seg))
<1>1. StillQueued(s, UpdateSendWindow(s, seg))
  <2> DEFINE t == UpdateSendWindow(s, seg)
  <2>1. /\ DOMAIN t = DOMAIN s /\ t.sndUna = s.sndUna /\ t.sndNxt = s.sndNxt
        /\ t.queue = s.queue
    BY DEF HasQueue, UpdateSendWindow
  <2> HIDE DEF t
  <2>2. StillQueued(s, t)
    BY <2>1, SameQueue
  <2> QED BY <2>2 DEF t
<1>2. StillQueued(s, InitSendWindow(s, seg)) /\ StillQueued(s, CutCwnd(s))
  BY SameQueue DEF HasQueue, InitSendWindow, CutCwnd
<1>3. StillQueued(s, FastRetransmit(s))
  <2> DEFINE t == [s EXCEPT !.recover = Minus(s.sndNxt, 1), !.cwnd = TxBufferSize,
                            !.congestState = "RECOVERY"]
  <2>1. FastRetransmit(s) = RetransmitSegment(t)
    BY DEF FastRetransmit
  <2>2. StillQueued(s, t)
    BY SameQueue DEF HasQueue
  <2> HIDE DEF t
  <2> QED BY <2>1, <2>2, StillHasQueue, RetransmitSegmentQueue, StillQueuedOf
<1>4. StillQueued(s, FastRecovery(s, seg, n))
  <2> DEFINE t == RetransmitSegment(s)
             deflated == IF t.cwnd > n THEN t.cwnd - n ELSE t.cwnd
             u == [t EXCEPT !.cwnd = deflated + (IF n >= Mss THEN Mss ELSE 0)]
             v == [s EXCEPT !.cwnd = TxBufferSize, !.congestState = "IDLE"]
  <2>1. FastRecovery(s, seg, n) \in {u, v}
    BY DEF FastRecovery
  <2>2. StillQueued(s, v)
    BY SameQueue DEF HasQueue
  <2>3. StillQueued(s, t) /\ HasQueue(t)
    BY RetransmitSegmentQueue, StillHasQueue
  <2> HIDE DEF t, deflated, v
  <2>4. StillQueued(t, u)
    BY <2>3, SameQueue DEF HasQueue
  <2> HIDE DEF u
  <2> QED BY <2>1, <2>2, <2>3, <2>4, StillQueuedOf
<1>5. StillQueued(s, FastLossRecovery(s, seg))
  <2> DEFINE v == [s EXCEPT !.congestState = "IDLE"]
  <2>1. FastLossRecovery(s, seg) \in {RetransmitSegment(s), v}
    BY DEF FastLossRecovery
  <2>2. StillQueued(s, v)
    BY SameQueue DEF HasQueue
  <2> HIDE DEF v
  <2> QED BY <2>1, <2>2, RetransmitSegmentQueue
<1> QED BY <1>1, <1>2, <1>3, <1>4, <1>5

LEMMA AckOldDataQueue ==
    ASSUME NEW s, HasQueue(s), NEW seg, NEW duplicate
    PROVE  StillQueued(s, AckOldData(s, seg, duplicate))
<1> DEFINE t == [s EXCEPT !.dupAckCount =
                    IF duplicate THEN Least(@ + 1, FastRetransmitThres) ELSE 0]
           grown == [t EXCEPT !.cwnd = @ + Mss]
           x == IF s.congestState = "IDLE" /\ t.dupAckCount >= DupAckThreshold(t)
                   /\ After(seg.ack, Plus(t.recover, 1))
                THEN FastRetransmit(t)
                ELSE IF s.congestState = "RECOVERY" /\ duplicate THEN grown
                ELSE t
<1>1. AckOldData(s, seg, duplicate) = CutCwnd(x)
  BY DEF AckOldData
<1>2. StillQueued(s, t)
  BY SameQueue DEF HasQueue
<1> HIDE DEF t
<1>3. HasQueue(t)
  BY <1>2, StillHasQueue
<1>4. StillQueued(t, grown)
  BY <1>3, SameQueue DEF HasQueue
<1>5. StillQueued(t, FastRetransmit(t))
  BY <1>3, AckQueue
<1> HIDE DEF grown
<1>6. StillQueued(t, x)
  BY <1>4, <1>5, StillQueuedSelf
<1> HIDE DEF x
<1>7. StillQueued(s, x) /\ HasQueue(x)
  BY <1>2, <1>3, <1>6, StillQueuedOf, StillHasQueue
<1> QED BY <1>1, <1>7, AckQueue, StillQueuedOf

\* A socket and what an operation leaves of it, as far as the queue goes.
LEMMA QueueOf ==
    ASSUME NEW s, HasQueue(s), s.queue \in Seq(Headers), NEW t, StillQueued(s, t),
           t.queue = s.queue
    PROVE  HasQueue(t) /\ t.queue \in Seq(Headers)
BY StillHasQueue

LEMMA TakeDataQueue ==
    ASSUME NEW s, HasQueue(s), s.queue \in Seq(Headers), NEW got
    PROVE  StillQueued(s, TakeData(s, got))
<1> DEFINE n == Minus(got.right, got.left)
           t == [s EXCEPT !.rcvNxt = Plus(@, n), !.rcvUser = @ + n, !.rcvWnd = @ - n]
           u == SendAck(t)
<1>1. TakeData(s, got) \in {SendAck(s), UpdateEvents(u)}
  BY DEF TakeData
<1>2. DOMAIN t = DOMAIN s /\ t.sndUna = s.sndUna /\ t.sndNxt = s.sndNxt /\ t.queue = s.queue
  BY DEF HasQueue
<1> HIDE DEF t
<1>3. StillQueued(s, t) /\ HasQueue(t) /\ t.queue \in Seq(Headers)
  BY <1>2, SameQueue, QueueOf
<1>4. StillQueued(t, u) /\ HasQueue(u)
  BY <1>3, SendAckQueue, StillHasQueue
<1> HIDE DEF u
<1>5. StillQueued(u, UpdateEvents(u))
  BY <1>4, EventsQueue
<1> QED BY <1>1, <1>3, <1>4, <1>5, SendAckQueue, StillQueuedOf

LEMMA StoreDataQueue ==
    ASSUME NEW s, HasQueue(s), s.queue \in Seq(Headers), NEW at, NEW data, NEW got
    PROVE  StillQueued(s, StoreData(s, at, data, got))
<1> DEFINE t == [s EXCEPT !.rxBuffer = WriteBuffer(@, s.irs, at, data),
                          !.sackBlock = got.blocks]
<1>1. StoreData(s, at, data, got) = TakeData(t, got)
  BY DEF StoreData
<1>2. DOMAIN t = DOMAIN s /\ t.sndUna = s.sndUna /\ t.sndNxt = s.sndNxt /\ t.queue = s.queue
  BY DEF HasQueue
<1> HIDE DEF t
<1>3. StillQueued(s, t) /\ HasQueue(t) /\ t.queue \in Seq(Headers)
  BY <1>2, SameQueue, QueueOf
<1> QED BY <1>1, <1>3, TakeDataQueue, StillQueuedOf

LEMMA ReceiveQueue ==
    ASSUME NEW s, HasQueue(s), s.queue \in Seq(Headers), NEW seg
    PROVE  /\ StillQueued(s, ReceiveText(s, seg))
           /\ StillQueued(s, AckFin(s))
           /\ StillQueued(s, FinOfEstablished(s, seg))
<1>1. StillQueued(s, ReceiveText(s, seg))
  <2>1. StillQueued(s, ProcessSegmentData(s, seg))
    BY StoreDataQueue DEF ProcessSegmentData
  <2> QED BY <2>1, StillQueuedSelf DEF ReceiveText
<1>2. StillQueued(s, AckFin(s))
  <2> DEFINE t == [s EXCEPT !.rcvNxt = Plus(@, 1)]
  <2>1. AckFin(s) = SendAck(t)
    BY DEF AckFin
  <2>2. DOMAIN t = DOMAIN s /\ t.sndUna = s.sndUna /\ t.sndNxt = s.sndNxt /\ t.queue = s.queue
    BY DEF HasQueue
  <2> HIDE DEF t
  <2>3. StillQueued(s, t) /\ HasQueue(t) /\ t.queue \in Seq(Headers)
    BY <2>2, SameQueue, QueueOf
  <2> QED BY <2>1, <2>3, SendAckQueue, StillQueuedOf
<1>3. StillQueued(s, FinOfEstablished(s, seg))
  <2>1. FinOfEstablished(s, seg) \in {s, ChangeState(AckFin(s), "CLOSE_WAIT")}
    BY DEF FinOfEstablished
  <2>2. StillQueued(AckFin(s), ChangeState(AckFin(s), "CLOSE_WAIT"))
    BY <1>2, StillHasQueue, EventsQueue
  <2> QED BY <1>2, <2>1, <2>2, StillQueuedSelf, StillQueuedOf
<1> QED BY <1>1, <1>2, <1>3

LEMMA RefuseQueue ==
    ASSUME NEW s, HasQueue(s), s.queue \in Seq(Headers), NEW seg
    PROVE  StillQueued(s, Refuse(s, seg)) /\ StillQueued(s, RefuseAck(s, seg))
<1>1. StillQueued(s, ResetForSyn(s, seg))
  BY SendSegmentQueue DEF ResetForSyn
<1>2. /\ Refuse(s, seg) \in {s, SendAck(s), ChangeState(s, "CLOSED"), ResetForSyn(s, seg)}
      /\ RefuseAck(s, seg) \in {s, SendAck(s)}
  BY DEF Refuse, RefuseAck
<1> QED BY <1>1, <1>2, SendAckQueue, EventsQueue, StillQueuedSelf

LEMMA ConsumeQueue ==
    ASSUME NEW s, HasQueue(s), s.queue \in Seq(Headers), NEW n
    PROVE  StillQueued(s, Consume(s, n))
<1> DEFINE t == [s EXCEPT !.rcvUser = @ - n]
           opened == [t EXCEPT !.rcvWnd = RxBufferSize - t.rcvUser]
           u == UpdateReceiveWindow(t)
<1>1. Consume(s, n) = UpdateEvents(u)
  BY DEF Consume
<1>2. DOMAIN t = DOMAIN s /\ t.sndUna = s.sndUna /\ t.sndNxt = s.sndNxt /\ t.queue = s.queue
  BY DEF HasQueue
<1> HIDE DEF t
<1>3. StillQueued(s, t) /\ HasQueue(t) /\ t.queue \in Seq(Headers)
  BY <1>2, SameQueue, QueueOf
<1>4. /\ DOMAIN opened = DOMAIN t /\ opened.sndUna = t.sndUna
      /\ opened.sndNxt = t.sndNxt /\ opened.queue = t.queue
  BY <1>3 DEF HasQueue
<1>5. u \in {t, opened, SendAck(opened)}
  BY DEF UpdateReceiveWindow
<1> HIDE DEF opened, u
<1>6. StillQueued(t, opened) /\ HasQueue(opened) /\ opened.queue \in Seq(Headers)
  BY <1>3, <1>4, SameQueue, QueueOf
<1>7. StillQueued(t, u)
  BY <1>5, <1>6, SendAckQueue, StillQueuedSelf, StillQueuedOf
<1>8. StillQueued(s, u) /\ HasQueue(u)
  BY <1>3, <1>7, StillQueuedOf, StillHasQueue
<1> QED BY <1>1, <1>8, EventsQueue, StillQueuedOf

LEMMA TimeoutQueue ==
    ASSUME NEW s, HasQueue(s), s.queue \in Seq(Headers)
    PROVE  StillQueued(s, RetransmitTimeout(s)) /\ StillQueued(s, PersistTimeout(s))
<1>1. StillQueued(s, RetransmitTimeout(s))
  <2> DEFINE t == [s EXCEPT !.cwnd = Least(Mss, TxBufferSize),
                            !.recover = Minus(s.sndNxt, 1),
                            !.congestState = "LOSS_RECOVERY"]
             r == RetransmitSegment(t)
             again == [r EXCEPT !.retransmitCount = @ + 1]
             c == ChangeState(t, "CLOSED")
             over == [c EXCEPT !.retransmitTimer = FALSE]
  <2>1. RetransmitTimeout(s) \in {again, over}
    BY DEF RetransmitTimeout
  <2>2. StillQueued(s, t)
    BY SameQueue DEF HasQueue
  <2> HIDE DEF t
  <2>3. HasQueue(t)
    BY <2>2, StillHasQueue
  <2>4. StillQueued(t, r) /\ HasQueue(r) /\ StillQueued(t, c) /\ HasQueue(c)
    BY <2>3, RetransmitSegmentQueue, EventsQueue, StillHasQueue
  <2> HIDE DEF r, c
  <2>5. StillQueued(r, again) /\ StillQueued(c, over)
    BY <2>4, SameQueue DEF HasQueue
  <2> HIDE DEF again, over
  <2> QED BY <2>1, <2>2, <2>4, <2>5, StillQueuedOf
<1>2. StillQueued(s, PersistTimeout(s))
  <2> DEFINE probe == SendSegment(s, {"ACK"}, Minus(s.sndNxt, 1), s.rcvNxt, 0, FALSE)
             t == [probe EXCEPT !.wndProbeCount = @ + 1]
  <2>1. PersistTimeout(s) \in {t, ChangeState(s, "CLOSED")}
    BY DEF PersistTimeout
  <2>2. StillQueued(s, probe) /\ HasQueue(probe)
    BY SendSegmentQueue, StillHasQueue
  <2> HIDE DEF probe
  <2>3. StillQueued(probe, t)
    BY <2>2, SameQueue DEF HasQueue
  <2> HIDE DEF t
  <2> QED BY <2>1, <2>2, <2>3, EventsQueue, StillQueuedOf
<1> QED BY <1>1, <1>2

LEMMA OtherQueue ==
    ASSUME NEW s, HasQueue(s), NEW src, NEW seg, NEW nic
    PROVE  /\ StillQueued(s, StateClosed(s, seg)) /\ StillQueued(s, StateListen(s, src, seg))
           /\ StillQueued(s, [s EXCEPT !.nic = nic])
<1> DEFINE answered == [s EXCEPT !.out = Append(@, ResetSegment(seg))]
           asked == [s EXCEPT !.synQueue = Append(@, [src |-> src, isn |-> seg.seq])]
<1>1. /\ StateClosed(s, seg) \in {s, answered}
      /\ StateListen(s, src, seg) \in {s, answered, UpdateEvents(asked)}
  BY DEF StateClosed, StateListen
<1>2. StillQueued(s, answered) /\ StillQueued(s, asked) /\ StillQueued(s, [s EXCEPT !.nic = nic])
  BY SameQueue DEF HasQueue
<1> HIDE DEF answered, asked
<1>3. StillQueued(s, UpdateEvents(asked))
  BY <1>2, StillHasQueue, EventsQueue, StillQueuedOf
<1> QED BY <1>1, <1>2, <1>3, StillQueuedSelf

-----------------------------------------------------------------------------
(* Acknowledgments advance sndUna *)

\* A segment that covers a number in flight beyond the acknowledged ones is
\* pending, since its end is not far ahead.
LEMMA CoversPending ==
    ASSUME NEW s, s.sndUna \in SeqNums, NEW h \in Headers, NEW x \in SeqNums,
           NEW most \in Mosts, Minus(x, s.sndUna) < most, Covers(h, x)
    PROVE  Pending(s, h)
<1> DEFINE a == s.sndUna
           q == h.seq
           l == HeaderLength(h)
           e == Plus(q, l)
<1>1. q \in SeqNums /\ l \in 0 .. Mss + 1
  <2>1. h.seq \in SeqNums /\ h.length \in 0 .. Mss
    BY DEF Headers
  <2> QED BY <2>1, Sizes DEF HeaderLength
<1>2. Minus(x, q) < l
  BY DEF Covers
<1>3. Pending(s, h) <=> 2 * Minus(a, e) >= SeqSpace
  BY DEF Pending, Before
<1> HIDE DEF a, q, l
<1>4. a \in SeqNums /\ Minus(x, a) < most
  BY DEF a
<1>5. most \in Nat /\ 2 * (most + Mss + 1) <= SeqSpace /\ Mss \in Nat
  BY MostsSmall, Sizes
<1>6. e = (IF q + l < SeqSpace THEN q + l ELSE q + l - SeqSpace) /\ e \in SeqNums
  <2>1. l \in 0 .. SeqSpace /\ l \in Int
    BY <1>1, <1>5, MinusIs
  <2> QED BY <1>1, <2>1, PlusOf
<1> HIDE DEF e
<1>7. /\ a \in 0 .. SeqSpace - 1 /\ q \in 0 .. SeqSpace - 1 /\ x \in 0 .. SeqSpace - 1
      /\ e \in 0 .. SeqSpace - 1 /\ SeqSpace \in Nat
      /\ Minus(x, q) = IF x >= q THEN x - q ELSE x - q + SeqSpace
      /\ Minus(x, a) = IF x >= a THEN x - a ELSE x - a + SeqSpace
      /\ Minus(a, e) = IF a >= e THEN a - e ELSE a - e + SeqSpace
  BY <1>1, <1>4, <1>6, MinusIs
<1>8. 2 * Minus(a, e) >= SeqSpace
  BY <1>1, <1>2, <1>4, <1>5, <1>6, <1>7
<1> QED BY <1>3, <1>8

\* The acknowledged numbers are taken off what is in flight.
LEMMA AdvanceQueued ==
    ASSUME NEW s, s.sndUna \in SeqNums, s.sndNxt \in SeqNums, s.queue \in Seq(Headers),
           NEW most \in Mosts, Queued(s, most),
           NEW r, r.sndUna \in SeqNums, r.sndNxt = s.sndNxt, r.queue = s.queue,
           Minus(r.sndUna, s.sndUna) <= InFlight(s),
           NEW t, t.sndUna = r.sndUna, t.sndNxt = s.sndNxt, t.queue = PendingSegments(r)
    PROVE  Queued(t, most)
<1> DEFINE una == s.sndUna
           a == r.sndUna
           nxt == s.sndNxt
           k == Minus(a, una)
           n == InFlight(s)
<1>1. /\ una \in SeqNums /\ a \in SeqNums /\ nxt \in SeqNums /\ n = Minus(nxt, una)
      /\ n <= most /\ k <= n
  BY DEF InFlight, Queued
<1>2. most \in Nat /\ 2 * most < SeqSpace
  BY MostsSmall
<1> HIDE DEF una, a, nxt, n
<1>3. /\ k \in 0 .. SeqSpace - 1 /\ n \in 0 .. SeqSpace - 1 /\ SeqSpace \in Nat
      /\ SeqNums \subseteq Int
  <2>1. SeqNums \subseteq Int
    BY SeqNumsAreNats
  <2> QED BY <1>1, <2>1, MinusIs
<1> HIDE DEF k
<1>4. Minus(nxt, a) = n - k
  <2>1. Minus(a, una) <= most /\ Minus(nxt, una) <= most /\ Minus(a, una) <= Minus(nxt, una)
    BY <1>1, <1>2, <1>3 DEF k
  <2>2. Minus(nxt, a) = Minus(nxt, una) - Minus(a, una)
    BY <1>1, <1>2, <2>1, OrderOf
  <2> QED BY <1>1, <2>2 DEF k
<1>5. InFlight(t) = n - k
  BY <1>4 DEF InFlight, a, nxt
<1>6. ASSUME NEW x \in Sequenced(t)
      PROVE  Queues(t, x)
  <2>1. x \in SeqNums /\ Minus(x, a) < n - k
    BY <1>1, <1>5, SequencedOf DEF a, nxt
  <2>2. Minus(x, una) < n
    <3> DEFINE j == Minus(x, a)
    <3>1. j \in 0 .. SeqSpace - 1 /\ j < n - k /\ j \in Int
      BY <1>1, <2>1, MinusIs
    <3>2. x = Plus(a, j)
      <4>1. /\ x \in 0 .. SeqSpace - 1 /\ a \in 0 .. SeqSpace - 1
            /\ j = IF x >= a THEN x - a ELSE x - a + SeqSpace
        BY <1>1, <2>1, MinusIs
      <4> HIDE DEF j
      <4>2. j \in 0 .. SeqSpace
        BY <3>1, <1>3
      <4>3. Plus(a, j) = IF a + j < SeqSpace THEN a + j ELSE a + j - SeqSpace
        BY <1>1, <3>1, <4>2, PlusOf
      <4> QED BY <1>3, <4>1, <4>2, <4>3
    <3> HIDE DEF j
    <3>3. Minus(Plus(a, j), una) = IF Minus(a, una) + j < SeqSpace THEN Minus(a, una) + j
                                   ELSE Minus(a, una) + j - SeqSpace
      BY <1>1, <3>1, MinusOfPlus
    <3> QED BY <1>1, <1>2, <1>3, <3>1, <3>2, <3>3 DEF k
  <2>3. x \in Sequenced(s)
    BY <1>1, <2>1, <2>2, SequencedOf DEF una, nxt, n
  <2>4. PICK i \in DOMAIN s.queue : Covers(s.queue[i], x)
    BY <2>3 DEF Queued, Queues
  <2>5. s.queue[i] \in Headers /\ i \in 1 .. Len(s.queue)
    OBVIOUS
  <2>6. Minus(x, r.sndUna) < most
    <3>1. Minus(x, a) \in 0 .. SeqSpace - 1
      BY <1>1, <2>1, MinusIs
    <3>2. Minus(x, a) < most
      BY <1>1, <1>2, <1>3, <2>1, <3>1
    <3> QED BY <3>2 DEF a
  <2>7. Pending(r, s.queue[i])
    <3> DEFINE h == s.queue[i]
    <3>1. h \in Headers /\ Covers(h, x)
      BY <2>4, <2>5
    <3> HIDE DEF h
    <3>2. Pending(r, h)
      BY <2>1, <2>6, <3>1, CoversPending
    <3> QED BY <3>2 DEF h
  <2>8. /\ PendingSegments(r) \in Seq(Headers)
        /\ \A m \in 1 .. Len(r.queue) :
             Pending(r, r.queue[m]) => IsIn(r.queue[m], PendingSegments(r))
    BY PendingOf, Zenon
  <2>9. IsIn(s.queue[i], t.queue) /\ t.queue \in Seq(Headers)
    BY <2>5, <2>7, <2>8
  <2>10. PICK j \in 1 .. Len(t.queue) : t.queue[j] = s.queue[i]
    BY <2>9 DEF IsIn
  <2>11. j \in DOMAIN t.queue
    BY <2>9
  <2> QED BY <2>4, <2>10, <2>11 DEF Queues
<1>7. InFlight(t) <= most
  BY <1>1, <1>2, <1>3, <1>5
<1> QED BY <1>6, <1>7 DEF Queued

\* What tcpCheckAck accepts acknowledges no more than is in flight.
LEMMA AckedOf ==
    ASSUME NEW s, s.sndUna \in SeqNums, s.sndNxt \in SeqNums, NEW most \in Mosts,
           InFlight(s) <= most, NEW a \in SeqNums,
           ~Before(a, s.sndUna), ~After(a, s.sndNxt)
    PROVE  Minus(a, s.sndUna) <= InFlight(s)
<1> DEFINE una == s.sndUna
           nxt == s.sndNxt
<1>1. una \in SeqNums /\ nxt \in SeqNums /\ Minus(nxt, una) <= most
  BY DEF InFlight
<1>2. 2 * Minus(a, una) < SeqSpace \/ ~(Minus(a, una) \in Nat /\ SeqSpace \in Nat)
  BY DEF Before
<1>3. a = nxt \/ 2 * Minus(a, nxt) >= SeqSpace
  BY DEF After, Before
<1> HIDE DEF una, nxt
<1>4. most \in Nat /\ 2 * most < SeqSpace
  BY MostsSmall
<1>5. /\ a \in 0 .. SeqSpace - 1 /\ una \in 0 .. SeqSpace - 1 /\ nxt \in 0 .. SeqSpace - 1
      /\ SeqSpace \in Nat /\ Minus(a, una) \in 0 .. SeqSpace - 1
      /\ Minus(a, una) = IF a >= una THEN a - una ELSE a - una + SeqSpace
      /\ Minus(a, nxt) = IF a >= nxt THEN a - nxt ELSE a - nxt + SeqSpace
      /\ Minus(nxt, una) = IF nxt >= una THEN nxt - una ELSE nxt - una + SeqSpace
  BY <1>1, MinusIs
<1>6. 2 * Minus(a, una) < SeqSpace
  BY <1>2, <1>5
<1>7. Minus(a, una) <= Minus(nxt, una)
  BY <1>1, <1>3, <1>4, <1>5, <1>6
<1> QED BY <1>7 DEF InFlight, una, nxt

LEMMA UpdateRetransmitQueueProgress ==
    ASSUME NEW s, Loose(s), NEW a \in SeqNums,
           ~Before(a, s.sndUna), ~After(a, s.sndNxt),
           NEW r, HasQueue(r), r.sndUna = a, r.sndNxt = s.sndNxt, r.queue = s.queue
    PROVE  LET t == UpdateRetransmitQueue(r)
           IN  Progress(s, t) /\ HasQueue(t) /\ t.sndUna = a /\ t.sndNxt = s.sndNxt
<1> DEFINE rest == PendingSegments(r)
           t == UpdateRetransmitQueue(r)
<1>1. /\ t.queue = rest /\ t.sndUna = r.sndUna /\ t.sndNxt = r.sndNxt
      /\ DOMAIN t = DOMAIN r
  BY DEF UpdateRetransmitQueue, HasQueue
<1> HIDE DEF t
<1>2. /\ s.sndUna \in SeqNums /\ s.sndNxt \in SeqNums /\ s.queue \in Seq(Headers)
      /\ HasQueue(s)
  BY LooseHasQueue
<1>3. ASSUME NEW most \in Mosts, Queued(s, most)
      PROVE  Queued(t, most)
  <2>1. Minus(r.sndUna, s.sndUna) <= InFlight(s)
    BY <1>2, <1>3, AckedOf DEF Queued
  <2> QED BY <1>1, <1>2, <1>3, <2>1, AdvanceQueued
<1>4. HasQueue(t)
  BY <1>1 DEF HasQueue
<1> QED BY <1>1, <1>3, <1>4 DEF Progress, t

LEMMA AckNewDataProgress ==
    ASSUME NEW s, Loose(s), NEW seg \in Segments,
           ~Before(seg.ack, s.sndUna), ~After(seg.ack, s.sndNxt)
    PROVE  Progress(s, AckNewData(s, seg))
<1> DEFINE n == Minus(seg.ack, s.sndUna) - (IF s.sndUna = s.iss THEN 1 ELSE 0)
           r == [s EXCEPT !.sndUna = seg.ack]
           t == UpdateRetransmitQueue(r)
           u == [t EXCEPT !.dupAckCount = 0]
           v == IF s.congestState = "LOSS_RECOVERY" THEN FastLossRecovery(u, seg) ELSE u
           w == [v EXCEPT !.cwnd = @ + Least(n, Mss)]
           x == IF s.congestState = "RECOVERY" THEN FastRecovery(t, seg, n) ELSE w
<1>1. AckNewData(s, seg) = CutCwnd(x)
  BY DEF AckNewData
<1>2. HasQueue(s) /\ seg.ack \in SeqNums
  BY LooseHasQueue, SegmentFields
<1>3. HasQueue(r) /\ r.sndUna = seg.ack /\ r.sndNxt = s.sndNxt /\ r.queue = s.queue
  BY <1>2 DEF HasQueue
<1> HIDE DEF r, n
<1>4. Progress(s, t) /\ HasQueue(t)
  <2> DEFINE a == seg.ack
  <2>1. a \in SeqNums /\ ~Before(a, s.sndUna) /\ ~After(a, s.sndNxt) /\ r.sndUna = a
    BY <1>2, <1>3
  <2> HIDE DEF a
  <2> QED BY <1>3, <2>1, UpdateRetransmitQueueProgress
<1> HIDE DEF t
<1>5. StillQueued(t, u)
  BY <1>4, SameQueue DEF HasQueue
<1> HIDE DEF u
<1>6. StillQueued(t, v) /\ HasQueue(v)
  <2>1. HasQueue(u)
    BY <1>4, <1>5, StillHasQueue
  <2>2. StillQueued(u, v)
    BY <2>1, AckQueue, StillQueuedSelf
  <2> HIDE DEF v
  <2> QED BY <1>5, <2>1, <2>2, StillQueuedOf, StillHasQueue
<1> HIDE DEF v
<1>7. StillQueued(v, w)
  BY <1>6, SameQueue DEF HasQueue
<1> HIDE DEF w
<1>8. StillQueued(t, x)
  <2>1. StillQueued(t, FastRecovery(t, seg, n))
    BY <1>4, AckQueue
  <2> QED BY <1>6, <1>7, <2>1, StillQueuedOf
<1> HIDE DEF x
<1>9. StillQueued(t, CutCwnd(x))
  BY <1>4, <1>8, StillHasQueue, AckQueue, StillQueuedOf
<1> QED BY <1>1, <1>4, <1>9, StillQueuedProgress, ProgressOf

LEMMA CheckAckProgress ==
    ASSUME NEW s, Fit(s), NEW seg \in Segments, ~AckRefused(s, seg)
    PROVE  Progress(s, CheckAck(s, seg))
<1> DEFINE t == UpdateSendWindow(s, seg)
           x == IF After(seg.ack, s.sndUna) THEN AckNewData(t, seg)
                ELSE AckOldData(t, seg, IsDuplicateAck(s, seg))
<1>1. CheckAck(s, seg) = IF Before(seg.ack, s.sndUna) THEN s ELSE UpdateEvents(x)
  BY DEF CheckAck
<1>2. Loose(s) /\ HasQueue(s)
  BY LooseHasQueue DEF Fit, Bounded
<1>3. Loose(t) /\ StillQueued(s, t)
  BY <1>2, UpdateSendWindowFits, AckQueue
<1> HIDE DEF t
<1>4. HasQueue(t) /\ t.sndUna = s.sndUna /\ t.sndNxt = s.sndNxt
  BY <1>2, <1>3, StillHasQueue DEF StillQueued
<1>5. CASE Before(seg.ack, s.sndUna)
  BY <1>1, <1>5, SelfProgress
<1>6. CASE ~Before(seg.ack, s.sndUna)
  <2>1. ~After(seg.ack, s.sndNxt)
    BY <1>6 DEF AckRefused
  <2>2. Progress(t, AckNewData(t, seg))
    BY <1>3, <1>4, <1>6, <2>1, AckNewDataProgress
  <2>3. Progress(t, x)
    BY <1>4, <2>2, AckOldDataQueue, StillQueuedProgress
  <2>4. Loose(x) /\ HasQueue(x)
    <3>1. After(seg.ack, s.sndUna) => Loose(AckNewData(t, seg))
      BY <1>3, <1>4, AckNewDataFits DEF Bounded
    <3>2. Loose(AckOldData(t, seg, IsDuplicateAck(s, seg)))
      BY <1>3, AckOldDataFits DEF Bounded
    <3>3. Loose(x)
      BY <3>1, <3>2
    <3> QED BY <3>3, LooseHasQueue
  <2> HIDE DEF x
  <2>5. Progress(x, UpdateEvents(x))
    BY <2>4, EventsQueue, StillQueuedProgress
  <2>6. Progress(s, t)
    BY <1>3, StillQueuedProgress
  <2> QED BY <1>1, <1>6, <2>3, <2>5, <2>6, ProgressOf
<1> QED BY <1>5, <1>6

-----------------------------------------------------------------------------
(* Sending advances sndNxt *)

LEMMA UsableWindowOf ==
    ASSUME NEW s, Loose(s)
    PROVE  /\ UsableWindow(s) \in Int /\ InFlight(s) \in Nat
           /\ UsableWindow(s) <= TxBufferSize - InFlight(s)
<1> DEFINE n == InFlight(s)
           wnd == s.sndWnd
           cwnd == s.cwnd
<1>1. n \in Nat /\ wnd \in Nat /\ cwnd \in Nat
  <2>1. s.sndUna \in SeqNums /\ s.sndNxt \in SeqNums
    BY LooseHasQueue
  <2>2. n \in 0 .. SeqSpace - 1
    BY <2>1, MinusIs DEF InFlight
  <2> QED BY <2>2, Sizes DEF Loose, SendOK
<1>2. UsableWindow(s) = Least(Least(wnd, TxBufferSize), cwnd) - n
  BY DEF UsableWindow
<1> HIDE DEF n, wnd, cwnd
<1>3. UsableWindow(s) \in Int /\ UsableWindow(s) <= TxBufferSize - n
  BY <1>1, <1>2, Sizes DEF Least
<1> QED BY <1>1, <1>3 DEF n

\* Each number sent is in the segment of the data it is part of.
LEMMA CutCovers ==
    ASSUME NEW amount \in 1 .. TxBufferSize, NEW s, s.sndNxt \in SeqNums,
           NEW x \in SeqNums, Minus(x, s.sndNxt) < amount
    PROVE  \E i \in 1 .. ((amount + Mss - 1) \div Mss) :
               Covers(Header(s, {"ACK"}, Plus(s.sndNxt, (i - 1) * Mss), s.rcvNxt,
                             Least(Mss, amount - (i - 1) * Mss)), x)
<1> DEFINE count == (amount + Mss - 1) \div Mss
           nxt == s.sndNxt
           p == Minus(x, nxt)
           Data(i) == Header(s, {"ACK"}, Plus(s.sndNxt, (i - 1) * Mss), s.rcvNxt,
                             Least(Mss, amount - (i - 1) * Mss))
<1>1. count \in 1 .. 2 /\ amount <= count * Mss
  BY CutAtMss
<1>2. nxt \in SeqNums /\ p \in 0 .. SeqSpace - 1 /\ p < amount /\ SeqSpace \in Nat
  BY MinusIs
<1>3. ASSUME NEW i
      PROVE  Covers(Data(i), x) <=> Minus(x, Plus(nxt, (i - 1) * Mss)) < Least(Mss, amount - (i - 1) * Mss)
  BY DEF Covers, HeaderLength, Header
<1> HIDE DEF count, nxt, p, Data
<1>4. Mss \in Nat /\ Mss >= 1 /\ amount \in Nat /\ amount <= TxBufferSize /\ 4 * TxBufferSize < SeqSpace
      /\ TxBufferSize \in Nat
  BY Sizes
<1>5. ASSUME NEW j \in Nat, j <= p
      PROVE  Minus(x, Plus(nxt, j)) = p - j
  <2>1. 2 * p < SeqSpace /\ p \in Nat
    BY <1>2, <1>4
  <2> QED BY <1>2, <1>5, <2>1, ClosestOf DEF p
<1>6. CASE p < Mss
  <2>1. (1 - 1) * Mss = 0
    BY <1>4
  <2>2. Minus(x, Plus(nxt, (1 - 1) * Mss)) = p
    BY <1>2, <1>5, <2>1
  <2>3. p < Least(Mss, amount - (1 - 1) * Mss)
    BY <1>2, <1>4, <1>6, <2>1 DEF Least
  <2>4. Covers(Data(1), x) /\ 1 \in 1 .. count
    BY <1>1, <1>3, <2>2, <2>3
  <2> QED BY <2>4 DEF count, Data
<1>7. CASE ~(p < Mss)
  <2>1. (2 - 1) * Mss = Mss
    BY <1>4
  <2>2. Minus(x, Plus(nxt, (2 - 1) * Mss)) = p - Mss
    BY <1>2, <1>4, <1>5, <1>7, <2>1
  <2>3. count = 2 /\ amount <= 2 * Mss
    BY <1>1, <1>2, <1>4, <1>7
  <2>4. p - Mss < Least(Mss, amount - (2 - 1) * Mss)
    BY <1>2, <1>4, <1>7, <2>1, <2>3 DEF Least
  <2>5. Covers(Data(2), x) /\ 2 \in 1 .. count
    BY <1>3, <2>2, <2>3, <2>4
  <2> QED BY <2>5 DEF count, Data
<1> QED BY <1>6, <1>7

\* What is in flight after sndNxt has advanced was in flight or is new.
LEMMA AdvancedOf ==
    ASSUME NEW s, s.sndUna \in SeqNums, s.sndNxt \in SeqNums, NEW most \in Mosts,
           NEW amount \in Nat, InFlight(s) + amount <= most,
           NEW t, t.sndUna = s.sndUna, t.sndNxt = Plus(s.sndNxt, amount)
    PROVE  /\ InFlight(t) = InFlight(s) + amount
           /\ \A x \in Sequenced(t) :
                x \in SeqNums /\ (x \in Sequenced(s) \/ Minus(x, s.sndNxt) < amount)
<1> DEFINE una == s.sndUna
           nxt == s.sndNxt
           n == InFlight(s)
<1>1. una \in SeqNums /\ nxt \in SeqNums /\ n = Minus(nxt, una) /\ n + amount <= most
  BY DEF InFlight
<1>2. InFlight(t) = Minus(Plus(nxt, amount), una)
  BY DEF InFlight
<1> HIDE DEF una, nxt, n
<1>3. n \in 0 .. SeqSpace - 1 /\ SeqSpace \in Nat
  BY <1>1, MinusIs
<1>4. most \in Nat /\ 2 * most < SeqSpace
  BY MostsSmall
<1>5. amount \in 0 .. SeqSpace - 1 /\ amount \in Int
  BY <1>1, <1>3, <1>4
<1>6. InFlight(t) = n + amount
  <2>1. Minus(Plus(nxt, amount), una) = IF Minus(nxt, una) + amount < SeqSpace
                                        THEN Minus(nxt, una) + amount
                                        ELSE Minus(nxt, una) + amount - SeqSpace
    BY <1>1, <1>5, MinusOfPlus
  <2> QED BY <1>1, <1>2, <1>3, <1>4, <2>1
<1>7. ASSUME NEW x \in Sequenced(t)
      PROVE  x \in SeqNums /\ (x \in Sequenced(s) \/ Minus(x, nxt) < amount)
  <2>1. t.sndNxt \in SeqNums /\ t.sndUna \in SeqNums
    BY <1>1, <1>5, PlusOf DEF una, nxt
  <2>2. x \in SeqNums /\ Minus(x, una) < n + amount
    BY <1>6, <2>1, SequencedOf DEF una
  <2>3. CASE Minus(x, una) < n
    BY <1>1, <2>2, <2>3, SequencedOf DEF una, nxt, n
  <2>4. CASE ~(Minus(x, una) < n)
    <3>1. Minus(x, una) \in 0 .. SeqSpace - 1
      BY <1>1, <2>2, MinusIs
    <3>2. Minus(nxt, una) <= most /\ Minus(x, una) <= most /\ Minus(nxt, una) <= Minus(x, una)
      BY <1>1, <1>3, <1>4, <2>2, <2>4, <3>1
    <3>3. Minus(x, nxt) = Minus(x, una) - Minus(nxt, una)
      BY <1>1, <1>4, <2>2, <3>2, OrderOf
    <3>4. Minus(x, nxt) < amount
      BY <1>1, <1>3, <2>2, <3>1, <3>3
    <3> QED BY <2>2, <3>4
  <2> QED BY <2>3, <2>4
<1> QED BY <1>6, <1>7 DEF n, nxt

\* The segments of one turn cover what sndNxt advances by.
LEMMA SendDataProgress ==
    ASSUME NEW s, Loose(s), NEW amount \in Int, amount <= s.sndUser,
           amount <= 0 \/ amount <= TxBufferSize - InFlight(s)
    PROVE  Progress(s, SendData(s, amount)) /\ HasQueue(SendData(s, amount))
<1> DEFINE count == (amount + Mss - 1) \div Mss
           Data(i) == Header(s, {"ACK"}, Plus(s.sndNxt, (i - 1) * Mss), s.rcvNxt,
                             Least(Mss, amount - (i - 1) * Mss))
           headers == [i \in 1 .. count |-> Data(i)]
           t == SendData(s, amount)
<1>1. /\ HasQueue(s) /\ s.queue \in Seq(Headers)
      /\ s.sndUna \in SeqNums /\ s.sndNxt \in SeqNums
  BY LooseHasQueue
<1>2. CASE amount <= 0
  BY <1>1, <1>2, SelfProgress DEF SendData
<1>3. CASE ~(amount <= 0) /\ Fails(s)
  <2>1. t = SendSegment(s, {"ACK"}, s.sndNxt, s.rcvNxt, Least(Mss, amount), TRUE)
    BY <1>3 DEF SendData
  <2>2. StillQueued(s, t)
    BY <1>1, <2>1, SendSegmentQueue
  <2> HIDE DEF t
  <2>3. Progress(s, t) /\ HasQueue(t)
    BY <1>1, <2>2, StillQueuedProgress, StillHasQueue
  <2> QED BY <2>3 DEF t
<1>4. CASE ~(amount <= 0) /\ ~Fails(s)
  <2>1. amount \in 1 .. TxBufferSize /\ amount \in Nat
    <3>1. s.sndUser \in 0 .. TxBufferSize
      BY DEF Loose, SendOK
    <3> QED BY <1>4, <3>1, Sizes
  <2>2. count \in 1 .. 2
    BY <2>1, CutAtMss
  <2>3. /\ t.queue = s.queue \o headers /\ t.sndNxt = Plus(s.sndNxt, amount)
        /\ t.sndUna = s.sndUna /\ DOMAIN t = DOMAIN s
    <3> HIDE DEF headers
    <3>1. \E out, timer, tries, user :
            t = [s EXCEPT !.queue = @ \o headers, !.retransmitTimer = timer,
                          !.retransmitCount = tries, !.out = out,
                          !.sndNxt = Plus(@, amount), !.sndUser = user]
      BY <1>4 DEF SendData, headers
    <3> QED BY <1>1, <3>1 DEF HasQueue
  <2> HIDE DEF t, count, Data
  <2> DEFINE S == {Data(i) : i \in 1 .. count}
  <2>4. headers \in Seq(S) /\ Len(headers) = count
    <3>1. \A i \in 1 .. count : Data(i) \in S
      OBVIOUS
    <3> HIDE DEF S
    <3> QED BY <2>2, <3>1
  <2>5. \A i \in 1 .. count : headers[i] = Data(i)
    OBVIOUS
  <2> HIDE DEF headers, S
  <2>6. /\ \A i \in 1 .. Len(s.queue) : i \in DOMAIN t.queue /\ t.queue[i] = s.queue[i]
        /\ \A i \in 1 .. count : /\ Len(s.queue) + i \in DOMAIN t.queue
                                 /\ t.queue[Len(s.queue) + i] = Data(i)
    BY <1>1, <2>2, <2>3, <2>4, <2>5
  <2>7. ASSUME NEW most \in Mosts, Queued(s, most)
        PROVE  Queued(t, most)
    <3>1. InFlight(s) + amount <= most /\ InFlight(s) \in Nat
      BY <2>1, MostsSmall, UsableWindowOf, Sizes
    <3>2. /\ InFlight(t) = InFlight(s) + amount
          /\ \A x \in Sequenced(t) :
                x \in SeqNums /\ (x \in Sequenced(s) \/ Minus(x, s.sndNxt) < amount)
      BY <1>1, <2>1, <2>3, <3>1, AdvancedOf
    <3>3. ASSUME NEW x \in Sequenced(t)
          PROVE  Queues(t, x)
      <4>1. CASE x \in Sequenced(s)
        <5>1. PICK i \in DOMAIN s.queue : Covers(s.queue[i], x)
          BY <2>7, <4>1 DEF Queued, Queues
        <5>2. i \in 1 .. Len(s.queue)
          BY <1>1
        <5>3. i \in DOMAIN t.queue /\ t.queue[i] = s.queue[i]
          BY <2>6, <5>2
        <5> QED BY <5>1, <5>3 DEF Queues
      <4>2. CASE Minus(x, s.sndNxt) < amount
        <5>1. x \in SeqNums
          BY <3>2
        <5>2. PICK i \in 1 .. count : Covers(Data(i), x)
          BY <1>1, <2>1, <4>2, <5>1, CutCovers DEF count, Data
        <5>3. Len(s.queue) + i \in DOMAIN t.queue /\ t.queue[Len(s.queue) + i] = Data(i)
          BY <2>6
        <5> QED BY <5>2, <5>3 DEF Queues
      <4> QED BY <3>2, <4>1, <4>2
    <3> QED BY <3>1, <3>2, <3>3 DEF Queued
  <2>8. HasQueue(t)
    BY <1>1, <2>3 DEF HasQueue
  <2> QED BY <2>7, <2>8 DEF Progress, t
<1> QED BY <1>2, <1>3, <1>4

LEMMA NagleAmountWithin ==
    ASSUME NEW s, Loose(s), NEW noDelay
    PROVE  NagleAmount(s, noDelay) <= 0 \/ NagleAmount(s, noDelay) <= TxBufferSize - InFlight(s)
<1> DEFINE most == Least(s.sndUser, UsableWindow(s))
           full == Mss * (most \div Mss)
           room == TxBufferSize - InFlight(s)
<1>1. s.sndUser \in Nat
  BY Sizes DEF Loose, SendOK
<1>2. most \in Int /\ room \in Int /\ most <= room
  BY <1>1, UsableWindowOf, Sizes DEF Least
<1>3. NagleAmount(s, noDelay) \in {IF most <= 0 THEN 0 ELSE most, IF most <= 0 THEN 0 ELSE full}
  BY DEF NagleAmount
<1> HIDE DEF most, room
<1>4. full \in Int /\ full <= most
  BY <1>2, Sizes
<1> HIDE DEF full
<1>5. NagleAmount(s, noDelay) <= 0 \/ NagleAmount(s, noDelay) <= room
  BY <1>2, <1>3, <1>4
<1> QED BY <1>5 DEF room

LEMMA NagleProgress ==
    ASSUME NEW s, Fit(s), NEW noDelay
    PROVE  Progress(s, NagleAlgo(s, noDelay))
<1> DEFINE amount == NagleAmount(s, noDelay)
           r == SendData(s, amount)
<1>1. Loose(s)
  BY DEF Fit, Bounded
<1>2. amount \in Int /\ amount <= s.sndUser
  BY <1>1, NagleAmountOf
<1>3. amount <= 0 \/ amount <= TxBufferSize - InFlight(s)
  BY <1>1, NagleAmountWithin
<1>4. NagleAlgo(s, noDelay) \in {r, UpdateEvents(r)}
  BY DEF NagleAlgo
<1> HIDE DEF amount
<1>5. Progress(s, r) /\ HasQueue(r)
  BY <1>1, <1>2, <1>3, SendDataProgress
<1> HIDE DEF r
<1>6. Progress(r, UpdateEvents(r))
  BY <1>5, EventsQueue, StillQueuedProgress
<1> QED BY <1>4, <1>5, <1>6, ProgressOf

LEMMA OverrideProgress ==
    ASSUME NEW s, Fit(s)
    PROVE  Progress(s, OverrideTimeout(s))
<1> DEFINE amount == Least(s.sndUser, UsableWindow(s))
           r == SendData(s, amount)
<1>1. Loose(s)
  BY DEF Fit, Bounded
<1>2. amount \in Int /\ amount <= s.sndUser /\ amount <= TxBufferSize - InFlight(s)
  <2>1. s.sndUser \in Nat
    BY <1>1, Sizes DEF Loose, SendOK
  <2> QED BY <1>1, <2>1, UsableWindowOf, Sizes DEF Least
<1>3. OverrideTimeout(s) = UpdateEvents(r)
  BY DEF OverrideTimeout
<1> HIDE DEF amount
<1>4. Progress(s, r) /\ HasQueue(r)
  BY <1>1, <1>2, SendDataProgress
<1> HIDE DEF r
<1>5. Progress(r, UpdateEvents(r))
  BY <1>4, EventsQueue, StillQueuedProgress
<1> QED BY <1>3, <1>4, <1>5, ProgressOf

LEMMA WriteDataProgress ==
    ASSUME NEW s, Fit(s), NEW data \in Seq(Nat), s.sndUser + Len(data) <= TxBufferSize
    PROVE  Progress(s, WriteData(s, data))
<1> DEFINE buffer == WriteBuffer(s.txBuffer, s.iss, Plus(s.sndNxt, s.sndUser), data)
           more == s.sndUser + Len(data)
           r == [s EXCEPT !.txBuffer = buffer, !.sndUser = more]
           t == UpdateEvents(r)
<1>1. DOMAIN s = SocketFields /\ SendOK(s) /\ Loose(s) /\ BlocksOK(s) /\ s.cwnd <= TxBufferSize
  BY DEF Fit, Bounded, Loose, WaitOK
<1>2. WriteData(s, data) = NagleAlgo(t, FALSE)
  BY DEF WriteData
<1>3. more \in 0 .. TxBufferSize
  <2>1. s.sndUser \in 0 .. TxBufferSize
    BY <1>1 DEF SendOK
  <2> QED BY <2>1, Sizes
<1>4. buffer \in Buffers
  <2> DEFINE position == Plus(s.sndNxt, s.sndUser)
  <2>1. s.sndNxt \in SeqNums /\ s.sndUser \in Int
    BY <1>1, Sizes DEF SendOK
  <2>2. position \in SeqNums
    BY <2>1, PlusOf
  <2> HIDE DEF position
  <2>3. WriteBuffer(s.txBuffer, s.iss, position, data) \in Buffers
    BY <1>1, <2>2, WriteBufferOf DEF SendOK
  <2> QED BY <2>3 DEF position
<1> HIDE DEF buffer, more
<1>5. SendOK(r)
  BY <1>1, <1>3, <1>4 DEF SendOK, SocketFields
<1>6. SameRest(s, r) /\ r.cwnd = s.cwnd
  BY <1>1 DEF SameRest, SameReceiver, SameBlocks, SameWaiter, SocketFields
<1>7. /\ DOMAIN r = DOMAIN s /\ r.sndUna = s.sndUna /\ r.sndNxt = s.sndNxt
      /\ r.queue = s.queue
  BY <1>1 DEF SocketFields
<1> HIDE DEF r
<1>8. Loose(r)
  BY <1>1, <1>5, <1>6, SameRestFits
<1>9. Fit(r)
  BY <1>1, <1>6, <1>8, RestKeeps
<1>10. Fit(t)
  <2>1. /\ Loose(t) /\ t.cwnd = r.cwnd /\ t.state = r.state
        /\ SameReceiver(r, t) /\ t.eventMask = r.eventMask
    BY <1>8, UpdateEventsFits
  <2> HIDE DEF t
  <2> QED BY <1>9, <2>1, SameReceiverOK DEF Fit, Bounded, Keeps
<1>11. StillQueued(s, t)
  <2>1. StillQueued(s, r)
    BY <1>7, SameQueue
  <2> QED BY <1>8, <2>1, LooseHasQueue, EventsQueue, StillQueuedOf
<1> HIDE DEF t
<1> DEFINE no == FALSE
<1>12. WriteData(s, data) = NagleAlgo(t, no)
  BY <1>2
<1> HIDE DEF no
<1>13. Progress(t, NagleAlgo(t, no))
  BY <1>10, NagleProgress
<1> QED BY <1>11, <1>12, <1>13, StillQueuedProgress, ProgressOf

LEMMA HeaderCovers ==
    ASSUME NEW s, NEW flags, flags \cap {"SYN", "FIN"} # {}, NEW ackNum,
           NEW x \in SeqNums
    PROVE  Covers(Header(s, flags, x, ackNum, 0), x)
<1>1. Minus(x, x) = 0
  BY MinusIs
<1>2. HeaderLength(Header(s, flags, x, ackNum, 0)) = 1
  BY DEF HeaderLength, Header
<1>3. Header(s, flags, x, ackNum, 0).seq = x
  BY DEF Header
<1> QED BY <1>1, <1>2, <1>3 DEF Covers

\* The SYN and the FIN count for one number.
LEMMA OneMoreQueued ==
    ASSUME NEW s, s.sndUna \in SeqNums, s.sndNxt \in SeqNums, s.queue \in Seq(Headers),
           NEW h, NEW x \in SeqNums, Covers(h, x), x = s.sndNxt,
           NEW most \in Mosts, InFlight(s) + 1 <= most,
           \A y \in Sequenced(s) : Queues(s, y),
           NEW t, t.sndUna = s.sndUna, t.sndNxt = Plus(s.sndNxt, 1),
           t.queue = Append(s.queue, h)
    PROVE  Queued(t, most)
<1> DEFINE one == 1
<1>1. one \in Nat /\ InFlight(s) + one <= most /\ t.sndNxt = Plus(s.sndNxt, one)
  OBVIOUS
<1> HIDE DEF one
<1>2. /\ InFlight(t) = InFlight(s) + one
      /\ \A y \in Sequenced(t) :
            y \in SeqNums /\ (y \in Sequenced(s) \/ Minus(y, s.sndNxt) < one)
  BY <1>1, AdvancedOf
<1>3. /\ \A i \in DOMAIN s.queue : i \in DOMAIN t.queue /\ t.queue[i] = s.queue[i]
      /\ \E i \in DOMAIN t.queue : t.queue[i] = h
  <2>1. /\ Len(s.queue) + 1 \in DOMAIN Append(s.queue, h)
        /\ Append(s.queue, h)[Len(s.queue) + 1] = h
        /\ \A i \in DOMAIN s.queue : /\ i \in DOMAIN Append(s.queue, h)
                                     /\ Append(s.queue, h)[i] = s.queue[i]
    OBVIOUS
  <2> QED BY <2>1
<1>4. ASSUME NEW y \in Sequenced(t)
      PROVE  Queues(t, y)
  <2>1. CASE y \in Sequenced(s)
    <3>1. PICK i \in DOMAIN s.queue : Covers(s.queue[i], y)
      BY <2>1 DEF Queues
    <3> QED BY <1>3, <3>1 DEF Queues
  <2>2. CASE Minus(y, s.sndNxt) < one
    <3> DEFINE nxt == s.sndNxt
    <3>1. y \in SeqNums /\ nxt \in SeqNums /\ Minus(y, nxt) < 1
      BY <1>2, <2>2 DEF one
    <3> HIDE DEF nxt
    <3>2. y = nxt
      <4>1. /\ y \in 0 .. SeqSpace - 1 /\ nxt \in 0 .. SeqSpace - 1 /\ SeqSpace \in Nat
            /\ Minus(y, nxt) = IF y >= nxt THEN y - nxt ELSE y - nxt + SeqSpace
        BY <3>1, MinusIs
      <4> QED BY <3>1, <4>1
    <3>3. Covers(h, y)
      BY <3>2 DEF nxt
    <3> QED BY <1>3, <3>3 DEF Queues
  <2> QED BY <1>2, <2>1, <2>2
<1> QED BY <1>1, <1>2, <1>4 DEF Queued, one

\* A segment that is sent, or refused, is the last of the queue.
Appends(s, t, h) ==
    /\ t.sndUna = s.sndUna /\ t.sndNxt = s.sndNxt /\ DOMAIN t = DOMAIN s
    /\ t.queue = Append(s.queue, h)

LEMMA AppendedQueue ==
    ASSUME NEW s, Loose(s), ~Fails(s), NEW flags, NEW seqNum, NEW ackNum,
           NEW length, NEW addToQueue \in {TRUE}
    PROVE  Appends(s, SendSegment(s, flags, seqNum, ackNum, length, addToQueue),
                   Header(s, flags, seqNum, ackNum, length))
<1> DEFINE h == Header(s, flags, seqNum, ackNum, length)
           t == SendSegment(s, flags, seqNum, ackNum, length, addToQueue)
<1>1. HasQueue(s) /\ s.nic # "memory"
  BY LooseHasQueue DEF Fails
<1>2. t.sndUna = s.sndUna /\ t.sndNxt = s.sndNxt /\ DOMAIN t = DOMAIN s
  BY <1>1 DEF SendSegment, HasQueue
<1>3. t.queue = Append(s.queue, h)
  BY <1>1 DEF SendSegment, HasQueue
<1> QED BY <1>2, <1>3 DEF Appends

LEMMA SendFinQueued ==
    ASSUME NEW s, Fit(s), NEW newState
    PROVE  LET t == SendFin(s, newState)
           IN  /\ Fails(s) => StillQueued(s, t)
               /\ ~Fails(s) /\ Queued(s, TxBufferSize) => Queued(t, TxBufferSize + 1)
<1> DEFINE flags == {"FIN", "ACK"}
           none == 0
           yes == TRUE
           r == SendSegment(s, flags, s.sndNxt, s.rcvNxt, none, yes)
           h == Header(s, flags, s.sndNxt, s.rcvNxt, none)
           u == [r EXCEPT !.sndNxt = Plus(@, 1)]
           t == ChangeState(u, newState)
<1>1. Loose(s) /\ HasQueue(s) /\ s.queue \in Seq(Headers) /\ s.sndUna \in SeqNums
      /\ s.sndNxt \in SeqNums
  BY LooseHasQueue DEF Fit, Bounded
<1>2. SendFin(s, newState) = IF Fails(s) THEN r ELSE t
  BY DEF SendFin
<1>3. StillQueued(s, r)
  BY <1>1, SendSegmentQueue
<1>4. ASSUME ~Fails(s), Queued(s, TxBufferSize)
      PROVE  Queued(t, TxBufferSize + 1)
  <2>1. Appends(s, r, h)
    <3>1. yes \in {TRUE}
      OBVIOUS
    <3> HIDE DEF flags, none, yes
    <3> QED BY <1>1, <1>4, <3>1, AppendedQueue
  <2>2. Covers(h, s.sndNxt)
    <3> DEFINE x == s.sndNxt
               ack == s.rcvNxt
    <3>1. x \in SeqNums /\ flags \cap {"SYN", "FIN"} # {}
      BY <1>1
    <3> HIDE DEF x, ack, flags
    <3>2. Covers(Header(s, flags, x, ack, 0), x)
      BY <3>1, HeaderCovers
    <3> QED BY <3>2 DEF x, ack, none
  <2> HIDE DEF r, h
  <2>3. /\ u.sndUna = s.sndUna /\ u.sndNxt = Plus(s.sndNxt, 1) /\ u.queue = Append(s.queue, h)
        /\ HasQueue(u)
    BY <1>1, <2>1 DEF HasQueue, Appends
  <2> HIDE DEF u
  <2> DEFINE most == TxBufferSize + 1
  <2>4. most \in Mosts /\ InFlight(s) + 1 <= most /\ \A y \in Sequenced(s) : Queues(s, y)
    <3>1. InFlight(s) \in Nat /\ InFlight(s) <= TxBufferSize
      BY <1>1, <1>4, SequencedOf DEF Queued
    <3> QED BY <1>4, <3>1, Sizes DEF Queued, Mosts
  <2> HIDE DEF most
  <2>5. Queued(u, most)
    <3> DEFINE x == s.sndNxt
    <3>1. x \in SeqNums /\ Covers(h, x) /\ x = s.sndNxt
      BY <1>1, <2>2
    <3> HIDE DEF x
    <3> QED BY <1>1, <2>3, <2>4, <3>1, OneMoreQueued
  <2>6. Progress(u, t)
    BY <2>3, EventsQueue, StillQueuedProgress
  <2> HIDE DEF t
  <2>7. Queued(t, most)
    BY <2>4, <2>5, <2>6 DEF Progress
  <2> QED BY <2>7 DEF most
<1> HIDE DEF t, r
<1> QED BY <1>2, <1>3, <1>4

LEMMA SynQueued ==
    ASSUME NEW s, Loose(s), ~Fails(s), NEW iss \in SeqNums,
           s.sndUna = iss, s.sndNxt = Plus(iss, 1),
           NEW flags, "SYN" \in flags, NEW ackNum, NEW newState
    PROVE  Queued(ChangeState(SendSegment(s, flags, iss, ackNum, 0, TRUE), newState),
                  TxBufferSize)
<1> DEFINE none == 0
           yes == TRUE
           h == Header(s, flags, iss, ackNum, none)
           q == s.queue
           p == [sndUna |-> iss, sndNxt |-> iss, queue |-> q]
           r == SendSegment(s, flags, iss, ackNum, none, yes)
           t == ChangeState(r, newState)
           most == TxBufferSize
<1>1. /\ r.sndUna = iss /\ r.sndNxt = Plus(iss, 1) /\ r.queue = Append(q, h)
      /\ HasQueue(r) /\ q \in Seq(Headers)
  <2>1. yes \in {TRUE}
    OBVIOUS
  <2>2. Appends(s, r, h)
    <3> HIDE DEF none, yes
    <3> QED BY <2>1, AppendedQueue
  <2> HIDE DEF r, h, yes, none
  <2> QED BY <2>2, LooseHasQueue DEF HasQueue, Appends
<1>2. Covers(h, iss)
  BY HeaderCovers
<1> HIDE DEF r, h, q
<1>3. p.sndUna = iss /\ p.sndNxt = iss /\ p.queue = q
  OBVIOUS
<1> HIDE DEF p
<1>4. InFlight(p) = 0 /\ \A y \in Sequenced(p) : Queues(p, y)
  <2>1. InFlight(p) = 0
    BY <1>3, MinusIs DEF InFlight
  <2>2. Sequenced(p) = {}
    BY <2>1 DEF Sequenced
  <2> QED BY <2>1, <2>2
<1>5. most \in Mosts /\ InFlight(p) + 1 <= most
  BY <1>4, Sizes DEF Mosts
<1> HIDE DEF most
<1>6. Queued(r, most)
  BY <1>1, <1>2, <1>3, <1>4, <1>5, OneMoreQueued
<1>7. Progress(r, t)
  BY <1>1, EventsQueue, StillQueuedProgress
<1> HIDE DEF t
<1>8. Queued(t, most)
  BY <1>5, <1>6, <1>7 DEF Progress
<1> QED BY <1>8 DEF most, t, r

LEMMA OpensQueued ==
    ASSUME NEW s, Fit(s), s.sackBlock = <<>>, ~Fails(s), NEW iss \in SeqNums,
           NEW item \in Requests
    PROVE  /\ Queued(ActiveOpen(s, iss), TxBufferSize)
           /\ Queued(PassiveOpen(s, item, iss), TxBufferSize)
<1> DEFINE q == InitControlBlock(s, iss)
           isn == item.isn
           next == Plus(isn, 1)
           r == [q EXCEPT !.irs = isn, !.rcvNxt = next]
           syn == {"SYN"}
           synAck == {"SYN", "ACK"}
<1>1. ActiveOpen(s, iss) = ChangeState(SendSegment(q, syn, iss, 0, 0, TRUE), "SYN_SENT")
  BY DEF ActiveOpen
<1>2. PassiveOpen(s, item, iss) =
        ChangeState(SendSegment(r, synAck, iss, r.rcvNxt, 0, TRUE), "SYN_RECEIVED")
  BY DEF PassiveOpen
<1>3. /\ Loose(q) /\ q.nic = s.nic /\ DOMAIN q = SocketFields
  BY InitControlBlockFits DEF Bounded
<1>4. q.sndUna = iss /\ q.sndNxt = Plus(iss, 1)
  <2>1. DOMAIN s = SocketFields
    BY DEF Fit, Bounded, Loose, WaitOK
  <2> QED BY <2>1 DEF InitControlBlock, SocketFields
<1>5. ~Fails(q)
  BY <1>3 DEF Fails
<1>6. isn \in SeqNums /\ next \in SeqNums
  BY PlusOf DEF Requests
<1>7. "SYN" \in syn /\ "SYN" \in synAck
  OBVIOUS
<1> HIDE DEF q, isn, next, syn, synAck
<1>8. /\ SameSender(q, r) /\ SameWaiter(q, r) /\ r.irs = isn /\ r.rcvNxt = next
      /\ r.rcvUser = q.rcvUser /\ r.rcvWnd = q.rcvWnd /\ r.sackBlock = q.sackBlock
  BY <1>3 DEF SameSender, SameWaiter, SocketFields
<1> HIDE DEF r
<1>9. Loose(r)
  <2>1. SendOK(r) /\ WaitOK(r)
    BY <1>3, <1>8, SameSenderOK, SameWaiterOK DEF Loose
  <2>2. ReceiveOK(r)
    BY <1>3, <1>6, <1>8 DEF Loose, ReceiveOK
  <2> QED BY <2>1, <2>2 DEF Loose
<1>10. ~Fails(r) /\ r.sndUna = iss /\ r.sndNxt = Plus(iss, 1)
  BY <1>4, <1>5, <1>8 DEF Fails, SameSender
<1>11. Queued(ActiveOpen(s, iss), TxBufferSize)
  <2> DEFINE state == "SYN_SENT"
             none == 0
  <2>1. ActiveOpen(s, iss) = ChangeState(SendSegment(q, syn, iss, none, 0, TRUE), state)
    BY <1>1
  <2> HIDE DEF state, none
  <2> QED BY <1>3, <1>4, <1>5, <1>7, <2>1, SynQueued
<1>12. Queued(PassiveOpen(s, item, iss), TxBufferSize)
  <2> DEFINE state == "SYN_RECEIVED"
             ack == r.rcvNxt
  <2>1. PassiveOpen(s, item, iss) = ChangeState(SendSegment(r, synAck, iss, ack, 0, TRUE), state)
    BY <1>2
  <2> HIDE DEF state, ack
  <2> QED BY <1>7, <1>9, <1>10, <2>1, SynQueued
<1> QED BY <1>11, <1>12

LEMMA FreeQueued ==
    ASSUME NEW s, NEW most \in Mosts
    PROVE  Queued(Free(s), most) /\ Queued(Unused, most)
<1>1. 0 \in SeqNums /\ most \in Nat
  BY Sizes, MostsSmall DEF SeqNums
<1>2. Minus(0, 0) = 0
  BY <1>1, MinusIs
<1>3. /\ InFlight(Free(s)) = 0 /\ InFlight(Unused) = 0
  BY <1>2 DEF InFlight, Free, Unused
<1>4. Sequenced(Free(s)) = {} /\ Sequenced(Unused) = {}
  BY <1>3 DEF Sequenced
<1> QED BY <1>1, <1>3, <1>4 DEF Queued

-----------------------------------------------------------------------------
(* The state machine and the queue *)

\* The states behind the FIN.
Finishing == {"FIN_WAIT_1", "FIN_WAIT_2", "CLOSING", "LAST_ACK"}
Over == {"TIME_WAIT", "CLOSED"}

\* What a step of the net task does to a socket: no way back from a state to
\* one before it, and the queue covers what is in flight as long as it is kept.
Moves(s, t) ==
    /\ s.state = "CLOSED" => t.state = "CLOSED"
    /\ s.state = "TIME_WAIT" => t.state \in Over
    /\ s.state \in Finishing => t.state \in Finishing \cup Over
    /\ s.state # "TIME_WAIT" => t.state = "TIME_WAIT" \/ Progress(s, t)

LEMMA StillMoves ==
    ASSUME NEW s, NEW t, StillQueued(s, t), t.state \in {s.state, "CLOSED"}
    PROVE  Moves(s, t)
BY StillQueuedProgress DEF Moves, Finishing, Over

LEMMA OpenMoves ==
    ASSUME NEW s, NEW t, Progress(s, t),
           s.state \in {"SYN_SENT", "SYN_RECEIVED", "ESTABLISHED", "CLOSE_WAIT"}
    PROVE  Moves(s, t)
BY DEF Moves, Finishing

LEMMA SelfMoves ==
    ASSUME NEW s
    PROVE  Moves(s, s)
BY StillQueuedSelf, StillMoves

LEMMA FitHasQueue ==
    ASSUME NEW s, Fit(s)
    PROVE  /\ Loose(s) /\ HasQueue(s) /\ s.queue \in Seq(Headers)
           /\ s.sndUna \in SeqNums /\ s.sndNxt \in SeqNums /\ s.state \in States
BY LooseHasQueue DEF Fit, Bounded, Loose, WaitOK

LEMMA RefuseMoves ==
    ASSUME NEW s, Fit(s), NEW seg \in Segments
    PROVE  Moves(s, Refuse(s, seg)) /\ Moves(s, RefuseAck(s, seg))
<1>1. Moves(s, Refuse(s, seg))
  BY FitHasQueue, RefuseQueue, RefuseFits, StillMoves DEF Ends
<1>2. Moves(s, RefuseAck(s, seg))
  BY FitHasQueue, RefuseQueue, RefuseAckFits, StillMoves DEF Keeps
<1> QED BY <1>1, <1>2

LEMMA StateEstablishedMoves ==
    ASSUME NEW s, Fit(s), s.state = "ESTABLISHED", NEW seg \in Segments
    PROVE  Progress(s, StateEstablished(s, seg))
<1> DEFINE t == CheckAck(s, seg)
           u == ReceiveText(t, seg)
           v == FinOfEstablished(u, seg)
           w == SendPending(v)
<1>1. CASE Refused(s, seg) \/ AckRefused(s, seg)
  BY <1>1, FitHasQueue, RefuseQueue, StillQueuedProgress DEF StateEstablished
<1>2. CASE ~Refused(s, seg) /\ ~AckRefused(s, seg)
  <2>1. StateEstablished(s, seg) = w
    BY <1>2 DEF StateEstablished
  <2>2. Fit(t) /\ Keeps(s, t) /\ Progress(s, t)
    BY <1>2, CheckAckFits, CheckAckProgress
  <2> HIDE DEF t
  <2>3. Acceptable(t, seg) /\ t.state = "ESTABLISHED"
    BY <1>2, <2>2 DEF Refused, Acceptable, InWindow, Keeps, SameReceiver, SameBlocks
  <2>4. Fit(u) /\ u.state = "ESTABLISHED" /\ Progress(t, u)
    <3>1. StillQueued(t, u)
      BY <2>2, FitHasQueue, ReceiveQueue
    <3> QED BY <2>2, <2>3, <3>1, ReceiveTextFits, StillQueuedProgress DEF Receiving
  <2> HIDE DEF u
  <2>5. Fit(v) /\ Progress(u, v)
    <3>1. StillQueued(u, v)
      BY <2>4, FitHasQueue, ReceiveQueue
    <3> QED BY <2>4, <3>1, FinOfEstablishedFits, StillQueuedProgress
  <2> HIDE DEF v
  <2>6. Progress(v, w)
    BY <2>5, NagleProgress DEF SendPending
  <2> HIDE DEF w
  <2> QED BY <2>1, <2>2, <2>4, <2>5, <2>6, ProgressOf
<1> QED BY <1>1, <1>2

LEMMA StateSynReceivedMoves ==
    ASSUME NEW s, Fit(s), s.state = "SYN_RECEIVED", NEW seg \in Segments
    PROVE  Progress(s, StateSynReceived(s, seg))
<1> DEFINE a == SendSegment(s, {"RST"}, seg.ack, 0, 0, FALSE)
           r == InitSendWindow(s, seg)
           t == ChangeState(r, "ESTABLISHED")
           b == StateEstablished(t, seg)
<1>1. StateSynReceived(s, seg) \in {s, Refuse(s, seg), a, b}
  BY DEF StateSynReceived
<1>2. StillQueued(s, a) /\ StillQueued(s, Refuse(s, seg)) /\ StillQueued(s, s)
  BY FitHasQueue, SendSegmentQueue, RefuseQueue, StillQueuedSelf
<1>3. Fit(t) /\ t.state = "ESTABLISHED" /\ StillQueued(s, t)
  <2>1. Loose(s) /\ Apart(s, 1) /\ s.cwnd <= TxBufferSize /\ HasQueue(s)
    BY LooseHasQueue DEF Fit, Bounded, BlocksOK
  <2>2. Loose(r) /\ SameRest(s, r) /\ r.cwnd = s.cwnd /\ StillQueued(s, r)
    BY <2>1, InitSendWindowFits, AckQueue
  <2> HIDE DEF r
  <2>3. MayEnter(r, "ESTABLISHED")
    BY <2>1, <2>2, SameBlocksApart DEF MayEnter, SameRest, SameReceiver, States
  <2>4. StillQueued(r, t)
    BY <2>1, <2>2, StillHasQueue, EventsQueue
  <2> QED BY <2>1, <2>2, <2>3, <2>4, ChangeStateFits, StillQueuedOf DEF Fit, Bounded
<1> HIDE DEF t, a
<1>4. Progress(t, b)
  BY <1>3, StateEstablishedMoves
<1> HIDE DEF b
<1> QED BY <1>1, <1>2, <1>3, <1>4, StillQueuedProgress, ProgressOf

LEMMA StateCloseWaitMoves ==
    ASSUME NEW s, Fit(s), NEW seg \in Segments
    PROVE  Progress(s, StateCloseWait(s, seg))
<1> DEFINE t == CheckAck(s, seg)
           w == SendPending(t)
<1>1. CASE Refused(s, seg) \/ AckRefused(s, seg)
  BY <1>1, FitHasQueue, RefuseQueue, StillQueuedProgress DEF StateCloseWait
<1>2. CASE ~Refused(s, seg) /\ ~AckRefused(s, seg)
  <2>1. StateCloseWait(s, seg) = w
    BY <1>2 DEF StateCloseWait
  <2>2. Fit(t) /\ Progress(s, t)
    BY <1>2, CheckAckFits, CheckAckProgress
  <2> HIDE DEF t
  <2>3. Progress(t, w)
    BY <2>2, NagleProgress DEF SendPending
  <2> HIDE DEF w
  <2> QED BY <2>1, <2>2, <2>3, ProgressOf
<1> QED BY <1>1, <1>2

\* What tcpStateSynSent takes as acknowledged: nothing or the SYN.
LEMMA SynAcked ==
    ASSUME NEW s, Loose(s), NEW most \in Mosts, InFlight(s) <= most,
           NEW a \in {s.sndUna, s.sndNxt}
    PROVE  a \in SeqNums /\ ~Before(a, s.sndUna) /\ ~After(a, s.sndNxt)
<1> DEFINE una == s.sndUna
           nxt == s.sndNxt
<1>1. una \in SeqNums /\ nxt \in SeqNums /\ Minus(nxt, una) <= most /\ a \in {una, nxt}
  BY LooseHasQueue DEF InFlight
<1> HIDE DEF una, nxt
<1>2. most \in Nat /\ 2 * most < SeqSpace
  BY MostsSmall
<1>3. /\ una \in 0 .. SeqSpace - 1 /\ nxt \in 0 .. SeqSpace - 1 /\ SeqSpace \in Nat
      /\ Minus(una, una) = 0
      /\ Minus(una, nxt) = IF una >= nxt THEN una - nxt ELSE una - nxt + SeqSpace
      /\ Minus(nxt, una) = IF nxt >= una THEN nxt - una ELSE nxt - una + SeqSpace
  BY <1>1, MinusIs
<1>4. ~Before(a, una)
  BY <1>1, <1>2, <1>3 DEF Before
<1>5. ~After(a, nxt)
  BY <1>1, <1>2, <1>3 DEF Before, After
<1> QED BY <1>1, <1>4, <1>5 DEF una, nxt

LEMMA StateSynSentMoves ==
    ASSUME NEW s, Fit(s), NEW seg \in Segments
    PROVE  Progress(s, StateSynSent(s, seg))
<1> DEFINE acked == "ACK" \in seg.flags
           una == IF acked THEN seg.ack ELSE s.sndUna
           next == Plus(seg.seq, 1)
           r == [s EXCEPT !.irs = seg.seq, !.rcvNxt = next, !.sndUna = una]
           t == UpdateRetransmitQueue(r)
           u == [t EXCEPT !.cwnd = Least(3 * Mss, TxBufferSize)]
           a == SendSegment(s, {"RST"}, seg.ack, 0, 0, FALSE)
           b == ChangeState(s, "CLOSED")
           v == InitSendWindow(u, seg)
           w == SendAck(v)
           c == ChangeState(w, "ESTABLISHED")
           d == SendSegment(u, {"SYN", "ACK"}, u.iss, u.rcvNxt, 0, TRUE)
           e == ChangeState(d, "SYN_RECEIVED")
<1>1. /\ DOMAIN s = SocketFields /\ Loose(s) /\ HasQueue(s) /\ s.queue \in Seq(Headers)
      /\ s.sndUna \in SeqNums /\ s.sndNxt \in SeqNums
  BY LooseHasQueue DEF Fit, Bounded, Loose, WaitOK
<1>2. \/ StateSynSent(s, seg) \in {s, a, b}
      \/ una \in {s.sndUna, s.sndNxt} /\ StateSynSent(s, seg) \in {c, e}
  <2>1. r = [s EXCEPT !.irs = seg.seq, !.rcvNxt = Plus(seg.seq, 1),
                      !.sndUna = IF acked THEN seg.ack ELSE @]
    BY <1>1
  <2> HIDE DEF r
  <2> QED BY <2>1 DEF StateSynSent
<1>3. StillQueued(s, s) /\ StillQueued(s, a) /\ StillQueued(s, b)
  BY <1>1, StillQueuedSelf, SendSegmentQueue, EventsQueue
<1> HIDE DEF a, b
<1>4. CASE StateSynSent(s, seg) \in {s, a, b}
  BY <1>3, <1>4, StillQueuedProgress
<1>5. CASE una \in {s.sndUna, s.sndNxt} /\ StateSynSent(s, seg) \in {c, e}
  <2>1. /\ HasQueue(r) /\ r.sndUna = una /\ r.sndNxt = s.sndNxt /\ r.queue = s.queue
    BY <1>1 DEF HasQueue, SocketFields
  <2> HIDE DEF una, next
  <2>2. t.queue = PendingSegments(r) /\ HasQueue(t)
    BY <2>1 DEF UpdateRetransmitQueue, HasQueue
  <2>3. t.queue \in Seq(Headers)
    BY <1>1, <2>1, <2>2, PendingOf, Zenon
  <2> HIDE DEF r
  <2>4. Progress(s, t)
    <3>1. ASSUME NEW most \in Mosts, Queued(s, most)
          PROVE  Queued(t, most)
      <4>1. una \in SeqNums /\ ~Before(una, s.sndUna) /\ ~After(una, s.sndNxt)
        BY <1>1, <1>5, <3>1, SynAcked DEF Queued
      <4>2. Progress(s, t)
        BY <1>1, <2>1, <4>1, UpdateRetransmitQueueProgress
      <4> QED BY <3>1, <4>2, Zenon DEF Progress
    <3> QED BY <3>1, Zenon DEF Progress
  <2> HIDE DEF t
  <2>5. StillQueued(t, u) /\ u.queue = t.queue
    BY <2>2, SameQueue DEF HasQueue
  <2> HIDE DEF u
  <2>6. HasQueue(u) /\ u.queue \in Seq(Headers)
    BY <2>2, <2>3, <2>5, StillHasQueue
  <2>7. StillQueued(u, c)
    <3>1. StillQueued(u, v) /\ v.queue = u.queue
      BY <2>6, AckQueue DEF HasQueue, InitSendWindow
    <3> HIDE DEF v
    <3>2. StillQueued(v, w) /\ HasQueue(w)
      BY <2>6, <3>1, StillHasQueue, SendAckQueue
    <3> HIDE DEF w
    <3>3. StillQueued(w, c)
      BY <3>2, EventsQueue
    <3> QED BY <3>1, <3>2, <3>3, StillQueuedOf
  <2> HIDE DEF c
  <2>8. StillQueued(u, e)
    <3>1. StillQueued(u, d) /\ HasQueue(d)
      BY <2>6, SendSegmentQueue, StillHasQueue
    <3> HIDE DEF d
    <3>2. StillQueued(d, e)
      BY <3>1, EventsQueue
    <3> QED BY <3>1, <3>2, StillQueuedOf
  <2> HIDE DEF e
  <2> QED BY <1>5, <2>4, <2>5, <2>7, <2>8, StillQueuedOf, StillQueuedProgress, ProgressOf
<1> QED BY <1>2, <1>4, <1>5

LEMMA FinishMoves ==
    ASSUME NEW s, s.state \in Finishing, NEW t,
           \/ t.state \in Finishing \cup {"CLOSED"} /\ Progress(s, t)
           \/ t.state = "TIME_WAIT"
    PROVE  Moves(s, t)
BY DEF Moves, Finishing, Over

LEMMA StateLastAckMoves ==
    ASSUME NEW s, Fit(s), NEW seg \in Segments
    PROVE  Moves(s, StateLastAck(s, seg))
<1> DEFINE t == ChangeState(s, "CLOSED")
<1>1. StateLastAck(s, seg) \in {Refuse(s, seg), t, s}
  BY DEF StateLastAck
<1>2. Moves(s, t)
  <2>1. StillQueued(s, t) /\ t.state = "CLOSED"
    BY FitHasQueue, EventsQueue, CloseFits
  <2> HIDE DEF t
  <2> QED BY <2>1, StillMoves
<1> HIDE DEF t
<1> QED BY <1>1, <1>2, RefuseMoves, SelfMoves

LEMMA FinInFinWaitMoves ==
    ASSUME NEW s, Fit(s), s.state \in Finishing, NEW seg
    PROVE  Moves(s, FinInFinWait1(s, seg)) /\ Moves(s, FinInFinWait2(s, seg))
<1> DEFINE r == AckFin(s)
           a == EnterTimeWait(r)
           b == ChangeState(r, "CLOSING")
<1>1. FinInFinWait1(s, seg) \in {s, a, b} /\ FinInFinWait2(s, seg) \in {s, a}
  BY DEF FinInFinWait1, FinInFinWait2
<1>2. Bounded(r) /\ StillQueued(s, r) /\ HasQueue(r)
  BY AckFinFits, FitHasQueue, ReceiveQueue, StillHasQueue DEF Fit
<1> HIDE DEF r
<1>3. Moves(s, a)
  <2>1. a.state = "TIME_WAIT"
    BY <1>2, EnterTimeWaitFits
  <2> HIDE DEF a
  <2> QED BY <2>1, FinishMoves
<1>4. Moves(s, b)
  <2>1. StillQueued(r, b)
    BY <1>2, EventsQueue
  <2>2. MayEnter(r, "CLOSING")
    BY DEF MayEnter, States
  <2>3. b.state = "CLOSING"
    BY <1>2, <2>2, ChangeStateFits DEF Bounded
  <2> HIDE DEF b
  <2>4. Progress(s, b)
    BY <1>2, <2>1, StillQueuedOf, StillQueuedProgress
  <2> QED BY <2>3, <2>4, FinishMoves DEF Finishing
<1> HIDE DEF a, b
<1> QED BY <1>1, <1>3, <1>4, SelfMoves

\* The first of two moves leaves a socket that finishes in a finishing state.
LEMMA MovesOfProgress ==
    ASSUME NEW s, NEW t, NEW u, s.state \in Finishing, t.state \in Finishing,
           Progress(s, t), Moves(t, u)
    PROVE  Moves(s, u)
<1>1. t.state # "TIME_WAIT" /\ s.state \notin {"CLOSED", "TIME_WAIT"}
  BY DEF Finishing
<1>2. u.state = "TIME_WAIT" \/ Progress(s, u)
  BY <1>1, ProgressOf DEF Moves
<1> QED BY <1>1, <1>2 DEF Moves

LEMMA StateFinWait1Moves ==
    ASSUME NEW s, Fit(s), s.state = "FIN_WAIT_1", NEW seg \in Segments
    PROVE  Moves(s, StateFinWait1(s, seg))
<1> DEFINE t == CheckAck(s, seg)
           u == AckInFinWait1(t, seg)
           v == ReceiveText(u, seg)
           w == FinInFinWait1(v, seg)
<1>1. CASE Refused(s, seg) \/ AckRefused(s, seg)
  BY <1>1, RefuseMoves DEF StateFinWait1
<1>2. CASE ~Refused(s, seg) /\ ~AckRefused(s, seg)
  <2>1. StateFinWait1(s, seg) = w
    BY <1>2 DEF StateFinWait1
  <2>2. Fit(t) /\ Keeps(s, t) /\ Progress(s, t)
    BY <1>2, CheckAckFits, CheckAckProgress
  <2> HIDE DEF t
  <2>3. u \in {t, ChangeState(t, "FIN_WAIT_2")}
    BY DEF AckInFinWait1
  <2>4. MayEnter(t, "FIN_WAIT_2")
    BY <2>2 DEF MayEnter, States, Fit, BlocksOK, Keeps
  <2> DEFINE x == ChangeState(t, "FIN_WAIT_2")
  <2>5. Fit(x) /\ SameReceiver(t, x) /\ x.state = "FIN_WAIT_2" /\ StillQueued(t, x)
    BY <2>2, <2>4, ChangeStateFits, FitHasQueue, EventsQueue DEF Fit, Bounded
  <2> HIDE DEF u, x
  <2>6. /\ Fit(u) /\ SameReceiver(s, u) /\ u.state \in Receiving \cap Finishing
        /\ StillQueued(t, u)
    <3>1. u = t \/ u = x
      BY <2>3 DEF x
    <3>2. /\ t.state = "FIN_WAIT_1" /\ SameReceiver(s, t) /\ SameReceiver(s, x)
      BY <2>2, <2>5 DEF Keeps, SameReceiver, SameBlocks
    <3> QED BY <2>2, <2>5, <3>1, <3>2, StillQueuedSelf DEF Receiving, Finishing
  <2>7. Acceptable(u, seg)
    BY <1>2, <2>6 DEF Refused, Acceptable, InWindow, SameReceiver, SameBlocks
  <2>8. Fit(v) /\ v.state = u.state /\ StillQueued(u, v)
    BY <2>6, <2>7, ReceiveTextFits, FitHasQueue, ReceiveQueue
  <2> HIDE DEF v
  <2>9. Moves(v, w)
    BY <2>6, <2>8, FinInFinWaitMoves
  <2> HIDE DEF w
  <2>10. Progress(s, v)
    BY <2>2, <2>6, <2>8, StillQueuedOf, StillQueuedProgress, ProgressOf
  <2>11. s.state \in Finishing /\ v.state \in Finishing
    BY <2>6, <2>8 DEF Finishing
  <2> QED BY <2>1, <2>9, <2>10, <2>11, MovesOfProgress
<1> QED BY <1>1, <1>2

LEMMA StateFinWait2Moves ==
    ASSUME NEW s, Fit(s), s.state = "FIN_WAIT_2", NEW seg \in Segments
    PROVE  Moves(s, StateFinWait2(s, seg))
<1> DEFINE t == CheckAck(s, seg)
           v == ReceiveText(t, seg)
           w == FinInFinWait2(v, seg)
<1>1. CASE Refused(s, seg) \/ AckRefused(s, seg)
  BY <1>1, RefuseMoves DEF StateFinWait2
<1>2. CASE ~Refused(s, seg) /\ ~AckRefused(s, seg)
  <2>1. StateFinWait2(s, seg) = w
    BY <1>2 DEF StateFinWait2
  <2>2. Fit(t) /\ Keeps(s, t) /\ Progress(s, t)
    BY <1>2, CheckAckFits, CheckAckProgress
  <2> HIDE DEF t
  <2>3. Acceptable(t, seg) /\ t.state = "FIN_WAIT_2"
    BY <1>2, <2>2 DEF Refused, Acceptable, InWindow, Keeps, SameReceiver, SameBlocks
  <2>4. Fit(v) /\ v.state = t.state /\ StillQueued(t, v)
    BY <2>2, <2>3, ReceiveTextFits, FitHasQueue, ReceiveQueue DEF Receiving
  <2> HIDE DEF v
  <2>5. s.state \in Finishing /\ v.state \in Finishing
    BY <2>3, <2>4 DEF Finishing
  <2>6. Moves(v, w)
    BY <2>4, <2>5, FinInFinWaitMoves
  <2> HIDE DEF w
  <2>7. Progress(s, v)
    BY <2>2, <2>4, StillQueuedProgress, ProgressOf
  <2> QED BY <2>1, <2>5, <2>6, <2>7, MovesOfProgress
<1> QED BY <1>1, <1>2

LEMMA StateClosingMoves ==
    ASSUME NEW s, Fit(s), s.state = "CLOSING", NEW seg \in Segments
    PROVE  Moves(s, StateClosing(s, seg))
<1> DEFINE t == CheckAck(s, seg)
           a == EnterTimeWait(t)
<1>1. CASE Refused(s, seg) \/ AckRefused(s, seg)
  BY <1>1, RefuseMoves DEF StateClosing
<1>2. CASE ~Refused(s, seg) /\ ~AckRefused(s, seg)
  <2>1. StateClosing(s, seg) \in {t, a}
    BY <1>2 DEF StateClosing, AckInClosing
  <2>2. Fit(t) /\ Keeps(s, t) /\ Progress(s, t)
    BY <1>2, CheckAckFits, CheckAckProgress
  <2> HIDE DEF t
  <2>3. a.state = "TIME_WAIT"
    BY <2>2, EnterTimeWaitFits DEF Fit
  <2> HIDE DEF a
  <2>4. s.state \in Finishing /\ t.state \in Finishing
    BY <2>2 DEF Keeps, Finishing
  <2> QED BY <2>1, <2>2, <2>3, <2>4, FinishMoves
<1> QED BY <1>1, <1>2

\* A connection in TIME_WAIT, whose queue is gone, can only close.
LEMMA DisposeMoves ==
    ASSUME NEW s, Fit(s), s.state = "TIME_WAIT"
    PROVE  Moves(s, Dispose(ChangeState(s, "CLOSED")))
<1> DEFINE t == ChangeState(s, "CLOSED")
           u == Dispose(t)
<1>1. t.state = "CLOSED"
  BY CloseFits
<1> HIDE DEF t
<1>2. u.state = "CLOSED"
  BY <1>1 DEF Dispose, Free, Unused
<1> HIDE DEF u
<1>3. Moves(s, u)
  BY <1>2 DEF Moves, Finishing, Over
<1> QED BY <1>3 DEF u, t

LEMMA StateTimeWaitMoves ==
    ASSUME NEW s, Fit(s), s.state = "TIME_WAIT", NEW seg \in Segments
    PROVE  Moves(s, StateTimeWait(s, seg))
<1> DEFINE t == Dispose(ChangeState(s, "CLOSED"))
           a == SendAck(s)
<1>1. StateTimeWait(s, seg) \in {t, Refuse(s, seg), a, s}
  BY DEF StateTimeWait
<1>2. Moves(s, t)
  BY DisposeMoves
<1>3. Moves(s, a)
  <2>1. StillQueued(s, a) /\ a.state = s.state
    BY FitHasQueue, SendAckQueue, SendAckKeeps DEF Keeps
  <2> HIDE DEF a
  <2> QED BY <2>1, StillMoves
<1> HIDE DEF t, a
<1> QED BY <1>1, <1>2, <1>3, RefuseMoves, SelfMoves

LEMMA ProcessStateMoves ==
    ASSUME NEW s, Fit(s), NEW src \in Hosts, NEW seg \in Segments
    PROVE  Moves(s, ProcessState(s, src, seg))
<1> DEFINE t == ProcessState(s, src, seg)
<1>1. s.state \in States /\ HasQueue(s)
  BY FitHasQueue
<1>2. CASE s.state \in {"CLOSED", "LISTEN"}
  <2>1. DOMAIN s = SocketFields
    BY DEF Fit, Bounded, Loose, WaitOK
  <2>2. StillQueued(s, t)
    BY <1>1, <1>2, OtherQueue DEF ProcessState
  <2>3. t.state = s.state
    BY <1>2, <2>1 DEF ProcessState, StateClosed, StateListen, UpdateEvents, SocketFields
  <2> HIDE DEF t
  <2>4. Moves(s, t)
    BY <2>2, <2>3, StillMoves
  <2> QED BY <2>4 DEF t
<1>3. CASE s.state = "SYN_SENT"
  BY <1>3, StateSynSentMoves, OpenMoves DEF ProcessState
<1>4. CASE s.state = "SYN_RECEIVED"
  BY <1>4, StateSynReceivedMoves, OpenMoves DEF ProcessState
<1>5. CASE s.state = "ESTABLISHED"
  BY <1>5, StateEstablishedMoves, OpenMoves DEF ProcessState
<1>6. CASE s.state = "CLOSE_WAIT"
  BY <1>6, StateCloseWaitMoves, OpenMoves DEF ProcessState
<1>7. CASE s.state = "LAST_ACK"
  BY <1>7, StateLastAckMoves DEF ProcessState
<1>8. CASE s.state = "FIN_WAIT_1"
  BY <1>8, StateFinWait1Moves DEF ProcessState
<1>9. CASE s.state = "FIN_WAIT_2"
  BY <1>9, StateFinWait2Moves DEF ProcessState
<1>10. CASE s.state = "CLOSING"
  BY <1>10, StateClosingMoves DEF ProcessState
<1>11. CASE s.state = "TIME_WAIT"
  BY <1>11, StateTimeWaitMoves DEF ProcessState
<1> QED BY <1>1, <1>2, <1>3, <1>4, <1>5, <1>6, <1>7, <1>8, <1>9, <1>10, <1>11 DEF States

LEMMA StateOfEvents ==
    ASSUME NEW s, DOMAIN s = SocketFields, NEW newState, NEW mask
    PROVE  /\ UpdateEvents(s).state = s.state
           /\ ChangeState(s, newState).state = newState
           /\ WaitForEvents(s, mask).state = s.state
           /\ Unwatched(s).state = s.state
           /\ Left(s).state = s.state
<1>1. ASSUME NEW u, DOMAIN u = SocketFields
      PROVE  UpdateEvents(u).state = u.state
  BY <1>1 DEF UpdateEvents, SocketFields
<1>2. ChangeState(s, newState).state = newState
  BY <1>1 DEF ChangeState, SocketFields
<1>3. WaitForEvents(s, mask).state = s.state
  BY <1>1 DEF WaitForEvents, SocketFields
<1> QED BY <1>1, <1>2, <1>3 DEF Unwatched, Left, SocketFields

LEMMA TimeoutMoves ==
    ASSUME NEW s, Fit(s)
    PROVE  Moves(s, RetransmitTimeout(s)) /\ Moves(s, PersistTimeout(s))
<1>1. DOMAIN s = SocketFields /\ HasQueue(s) /\ s.queue \in Seq(Headers)
  BY FitHasQueue DEF Loose, WaitOK
<1>2. RetransmitTimeout(s).state \in {s.state, "CLOSED"}
  <2> DEFINE t == [s EXCEPT !.cwnd = Least(Mss, TxBufferSize),
                            !.recover = Minus(s.sndNxt, 1),
                            !.congestState = "LOSS_RECOVERY"]
             r == RetransmitSegment(t)
             c == ChangeState(t, "CLOSED")
  <2>1. RetransmitTimeout(s) \in {[r EXCEPT !.retransmitCount = @ + 1],
                                  [c EXCEPT !.retransmitTimer = FALSE]}
    BY DEF RetransmitTimeout
  <2>2. t.state = s.state /\ DOMAIN t = SocketFields
    BY <1>1 DEF SocketFields
  <2> HIDE DEF t
  <2>3. r.state = t.state /\ DOMAIN r = SocketFields
    BY <2>2 DEF RetransmitSegment, SocketFields
  <2>4. c.state = "CLOSED" /\ DOMAIN c = SocketFields
    BY <2>2, StateOfEvents DEF ChangeState, UpdateEvents
  <2> HIDE DEF r, c
  <2> QED BY <2>1, <2>2, <2>3, <2>4 DEF SocketFields
<1>3. PersistTimeout(s).state \in {s.state, "CLOSED"}
  <2> DEFINE r == SendSegment(s, {"ACK"}, Minus(s.sndNxt, 1), s.rcvNxt, 0, FALSE)
             c == ChangeState(s, "CLOSED")
  <2>1. PersistTimeout(s) \in {[r EXCEPT !.wndProbeCount = @ + 1], c}
    BY DEF PersistTimeout
  <2>2. r.state = s.state /\ DOMAIN r = SocketFields
    BY <1>1 DEF SendSegment, SocketFields
  <2>3. c.state = "CLOSED"
    BY <1>1, StateOfEvents
  <2> HIDE DEF r, c
  <2> QED BY <2>1, <2>2, <2>3 DEF SocketFields
<1> QED BY <1>1, <1>2, <1>3, TimeoutQueue, StillMoves

LEMMA OtherTimeoutMoves ==
    ASSUME NEW s, Fit(s)
    PROVE  /\ OverrideTimerRuns(s) => Moves(s, OverrideTimeout(s))
           /\ Moves(s, FinWait2Timeout(s))
           /\ s.state = "TIME_WAIT" => Moves(s, TimeWaitTimeout(s))
<1>1. OverrideTimerRuns(s) => Moves(s, OverrideTimeout(s))
  BY OverrideProgress, OpenMoves DEF OverrideTimerRuns
<1>2. Moves(s, FinWait2Timeout(s))
  <2> DEFINE t == ChangeState(s, "CLOSED")
  <2>1. StillQueued(s, t) /\ t.state = "CLOSED"
    BY FitHasQueue, EventsQueue, CloseFits
  <2> HIDE DEF t
  <2>2. Moves(s, t)
    BY <2>1, StillMoves
  <2> QED BY <2>2 DEF t, FinWait2Timeout
<1> QED BY <1>1, <1>2, DisposeMoves DEF TimeWaitTimeout

-----------------------------------------------------------------------------
(* The queues of the hosts *)

\* What a connection has in flight is queued until it closes or its queue is
\* deleted in TIME_WAIT.  It is one more than the send buffer holds only once
\* the FIN is sent, and a call in "drain" sends it even after an abrupt end.
HostQueued(place, s) ==
    /\ s.state \in States \ (Finishing \cup Over) \/ place = "drain"
       => Queued(s, TxBufferSize)
    /\ s.state \in Finishing => Queued(s, TxBufferSize + 1)

QueuesFit == \A h \in Hosts : HostQueued(task[h].at, sock[h])

LEMMA QueuedMore ==
    ASSUME NEW s, Fit(s), Queued(s, TxBufferSize)
    PROVE  Queued(s, TxBufferSize + 1)
<1> DEFINE n == InFlight(s)
<1>1. n \in Nat
  BY FitHasQueue, SequencedOf
<1>2. n <= TxBufferSize => n <= TxBufferSize + 1
  <2> HIDE DEF n
  <2> QED BY <1>1, Sizes
<1> QED BY <1>2 DEF Queued

LEMMA QueuedHost ==
    ASSUME NEW s, Fit(s), Queued(s, TxBufferSize), NEW place
    PROVE  HostQueued(place, s)
BY QueuedMore DEF HostQueued

LEMMA LeavesQueued ==
    ASSUME NEW s, NEW place, HostQueued(place, s), NEW next, next # "drain"
    PROVE  HostQueued(next, s)
BY DEF HostQueued

LEMMA StillProgress ==
    ASSUME NEW s, NEW t, StillQueued(s, t)
    PROVE  /\ Queued(s, TxBufferSize) => Queued(t, TxBufferSize)
           /\ Queued(s, TxBufferSize + 1) => Queued(t, TxBufferSize + 1)
BY StillQueuedProgress DEF Progress, Mosts

LEMMA SameHostQueued ==
    ASSUME NEW place, NEW s, HostQueued(place, s), NEW t, StillQueued(s, t),
           t.state = s.state
    PROVE  HostQueued(place, t)
BY StillProgress DEF HostQueued

LEMMA ProgressHostQueued ==
    ASSUME NEW place, NEW s, HostQueued(place, s), NEW t, Fit(t), Progress(s, t),
           s.state \in {"ESTABLISHED", "CLOSE_WAIT"}, NEW next
    PROVE  HostQueued(next, t)
<1>1. Queued(s, TxBufferSize)
  BY DEF HostQueued, States, Finishing, Over
<1>2. Queued(t, TxBufferSize)
  BY <1>1 DEF Progress, Mosts
<1> QED BY <1>2, QueuedHost

\* A step of the net task.
LEMMA MovesQueued ==
    ASSUME NEW place, NEW s, HostQueued(place, s), NEW t, Moves(s, t), Goes(s, t),
           s.state \in States, place = "drain" => Draining(s)
    PROVE  HostQueued(place, t)
<1>1. t.state \in States /\ Fit(t)
  BY FitHasQueue DEF Goes
<1>2. CASE place = "drain"
  <2>1. t.state \in {"ESTABLISHED", "CLOSE_WAIT", "CLOSED"} /\ s.state # "TIME_WAIT"
    BY <1>2 DEF Goes, Draining
  <2>2. Progress(s, t)
    BY <2>1 DEF Moves
  <2>3. Queued(t, TxBufferSize)
    BY <1>2, <2>2 DEF HostQueued, Progress, Mosts
  <2> QED BY <1>1, <2>3, QueuedHost
<1>3. CASE place # "drain" /\ t.state \in States \ (Finishing \cup Over)
  <2>1. s.state \in States \ (Finishing \cup Over) /\ Progress(s, t)
    BY <1>3 DEF Moves, Over, Finishing
  <2>2. Queued(t, TxBufferSize)
    BY <2>1 DEF HostQueued, Progress, Mosts
  <2> QED BY <1>1, <2>2, QueuedHost
<1>4. CASE place # "drain" /\ t.state \in Finishing
  <2>1. s.state \notin Over /\ Progress(s, t)
    BY <1>4 DEF Moves, Over, Finishing
  <2>2. CASE s.state \in Finishing
    <3>1. Queued(t, TxBufferSize + 1)
      BY <2>1, <2>2 DEF HostQueued, Progress, Mosts
    <3> QED BY <1>4, <3>1 DEF HostQueued
  <2>3. CASE s.state \notin Finishing
    <3>1. Queued(t, TxBufferSize)
      BY <2>1, <2>3 DEF HostQueued, Progress, Mosts
    <3> QED BY <1>1, <3>1, QueuedHost
  <2> QED BY <2>2, <2>3
<1>5. CASE place # "drain" /\ t.state \in Over
  BY <1>5 DEF HostQueued, Over, Finishing
<1> QED BY <1>1, <1>2, <1>3, <1>4, <1>5

LEMMA LeftQueued ==
    ASSUME NEW place, NEW s, HostQueued(place, s), Fit(s)
    PROVE  HostQueued(place, Left(s)) /\ HostQueued(place, Unwatched(s))
<1>1. StillQueued(s, Left(s)) /\ Left(s).state = s.state
  <2>1. /\ DOMAIN Left(s) = DOMAIN s /\ Left(s).sndUna = s.sndUna
        /\ Left(s).sndNxt = s.sndNxt /\ Left(s).queue = s.queue
    BY FitHasQueue DEF Left, HasQueue
  <2> QED BY <2>1, SameQueue, FitHasQueue, StateOfEvents DEF Loose, WaitOK
<1>2. StillQueued(s, Unwatched(s)) /\ Unwatched(s).state = s.state
  BY FitHasQueue, EventsQueue, StateOfEvents DEF Loose, WaitOK
<1> QED BY <1>1, <1>2, SameHostQueued

LEMMA NicQueued ==
    ASSUME HostsFit, QueuesFit, NEW h \in Hosts, NEW nic \in Nics
    PROVE  HostQueued(task[h].at, [sock[h] EXCEPT !.nic = nic])
<1> DEFINE s == sock[h]
           t == [s EXCEPT !.nic = nic]
<1>1. Fit(s) /\ t.state = s.state
  BY OwnSocketFits, SocketWithNic
<1>2. HostQueued(task[h].at, s)
  BY DEF QueuesFit
<1> HIDE DEF s
<1>3. StillQueued(s, t)
  BY <1>1, FitHasQueue, OtherQueue
<1> HIDE DEF t
<1>4. HostQueued(task[h].at, t)
  BY <1>1, <1>2, <1>3, SameHostQueued
<1> QED BY <1>4 DEF s, t

\* The step leaves the other host alone.
LEMMA HostStepQueued ==
    ASSUME HostsFit, QueuesFit, NEW h \in Hosts, NEW place, HostQueued(place, sock'[h]),
           task'[h].at = place,
           \A g \in Hosts : g # h => sock'[g] = sock[g] /\ task'[g] = task[g]
    PROVE  QueuesFit'
BY DEF QueuesFit

LEMMA SocketStep ==
    ASSUME HostsFit, NEW x \in Sockets, NEW s, sock' = [sock EXCEPT ![x] = Left(s)]
    PROVE  /\ sock'[x] = Left(s)
           /\ \A g \in Hosts : g # x => sock'[g] = sock[g]
BY DEF HostsFit, SocketsFit, Hosts, Sockets

LEMMA TaskStep ==
    ASSUME HostsFit, NEW h \in Hosts, NEW t, Become(h, t)
    PROVE  /\ task'[h] = t
           /\ \A g \in Hosts : g # h => task'[g] = task[g]
BY DEF HostsFit, TasksFit, Become

LEMMA NetStepQueued ==
    ASSUME HostsFit, QueuesFit, NEW h \in Hosts, NEW nic \in Nics, NEW s,
           LET r == [sock[h] EXCEPT !.nic = nic] IN Moves(r, s) /\ Goes(r, s),
           sock' = [sock EXCEPT ![h] = Left(s)], UNCHANGED task
    PROVE  QueuesFit'
<1> DEFINE r == [sock[h] EXCEPT !.nic = nic]
           place == task[h].at
<1>1. Moves(r, s) /\ Goes(r, s)
  OBVIOUS
<1>2. Fit(r) /\ Goes(sock[h], r) /\ HostQueued(place, r)
  BY OwnSocketFits, SocketWithNic, NicQueued
<1>3. place = "drain" => Draining(r)
  BY <1>2 DEF HostsFit, TasksFit, TaskFits, Goes
<1> HIDE DEF r, place
<1>4. HostQueued(place, s) /\ Fit(s)
  BY <1>1, <1>2, <1>3, FitHasQueue, MovesQueued DEF Goes
<1>5. HostQueued(place, Left(s))
  BY <1>4, LeftQueued
<1>6. h \in Sockets
  BY DEF Hosts, Sockets
<1>7. HostQueued(place, sock'[h]) /\ \A g \in Hosts : g # h => sock'[g] = sock[g]
  BY <1>5, <1>6, SocketStep
<1> QED BY <1>7, HostStepQueued DEF place

LEMMA TickQueued ==
    ASSUME HostsFit, QueuesFit, NEW h \in Hosts, NEW nic \in Nics, NEW s,
           LET r == [sock[h] EXCEPT !.nic = nic] IN Moves(r, s) /\ Goes(r, s),
           Put(h, s), UNCHANGED task
    PROVE  QueuesFit'
<1>1. sock' = [sock EXCEPT ![h] = Left(s)]
  BY DEF Put, Left
<1> QED BY <1>1, NetStepQueued

LEMMA TaskStepQueued ==
    ASSUME HostsFit, QueuesFit, NEW h \in Hosts, NEW s, Fit(s), Put(h, s),
           NEW t, Become(h, t), HostQueued(t.at, s)
    PROVE  QueuesFit'
<1> DEFINE place == t.at
<1>1. h \in Sockets /\ sock' = [sock EXCEPT ![h] = Left(s)]
  BY DEF Put, Left, Hosts, Sockets
<1>2. HostQueued(place, Left(s))
  BY LeftQueued
<1>3. /\ HostQueued(place, sock'[h]) /\ task'[h].at = place
      /\ \A g \in Hosts : g # h => sock'[g] = sock[g] /\ task'[g] = task[g]
  BY <1>1, <1>2, SocketStep, TaskStep
<1> HIDE DEF place
<1> QED BY <1>3, HostStepQueued

LEMMA ReturnsQueued ==
    ASSUME HostsFit, QueuesFit, NEW h \in Hosts, Works(h), NEW s, Fit(s),
           NEW closing \in BOOLEAN, Returns(h, s, closing), NEW place, HostQueued(place, s)
    PROVE  QueuesFit'
<1> DEFINE t == [Idle EXCEPT !.closing = closing]
           u == Unwatched(s)
<1>1. Put(h, u) /\ Become(h, t)
  BY DEF Returns, Own, Works
<1>2. t.at = "idle"
  BY DEF Idle
<1>3. Fit(u) /\ HostQueued("idle", u)
  BY UnwatchedFits, LeavesQueued, LeftQueued
<1> HIDE DEF t, u
<1> QED BY <1>1, <1>2, <1>3, TaskStepQueued

LEMMA AwaitQueued ==
    ASSUME HostsFit, QueuesFit, NEW h \in Hosts, Works(h), NEW s, Fit(s), NEW t \in Tasks,
           NEW mask \in SUBSET Events, Await(h, s, t, mask), HostQueued(t.at, s)
    PROVE  QueuesFit'
<1> DEFINE w == WaitForEvents(s, mask)
           b == w.eventFlags = {}
           u == [t EXCEPT !.blocked = b]
<1>1. Put(h, w) /\ Become(h, u)
  BY DEF Await, Own, Works
<1>2. u.at = t.at
  BY DEF Tasks
<1>3. Fit(w) /\ w.state = s.state /\ StillQueued(s, w)
  BY WaitForEventsFits, FitHasQueue, EventsQueue
<1> HIDE DEF u, b
<1> HIDE DEF w
<1>4. HostQueued(t.at, w)
  BY <1>3, SameHostQueued
<1> QED BY <1>1, <1>2, <1>3, <1>4, TaskStepQueued

\* A step of the server's task on the listener.
LEMMA ListenerStepQueued ==
    ASSUME HostsFit, QueuesFit, NEW t, Become("server", t), t.at # "drain",
           \/ \E s : Put("listener", s)
           \/ UNCHANGED sock
    PROVE  QueuesFit'
<1> DEFINE h == "server"
           place == t.at
<1>1. h \in Hosts /\ \A g \in Hosts : sock'[g] = sock[g]
  BY DEF Put, HostsFit, SocketsFit, Hosts, Sockets
<1>2. HostQueued(place, sock'[h])
  BY <1>1, LeavesQueued DEF QueuesFit
<1>3. task'[h].at = place /\ \A g \in Hosts : g # h => task'[g] = task[g]
  BY <1>1, TaskStep
<1> HIDE DEF h, place
<1> QED BY <1>1, <1>2, <1>3, HostStepQueued

LEMMA ConnectQueued ==
    ASSUME HostsFit, QueuesFit, NEW nic \in Nics, Connect(nic)
    PROVE  QueuesFit'
<1> DEFINE r == [sock["client"] EXCEPT !.nic = nic]
           s == ActiveOpen(r, ClientIss)
           mask == {"CONNECTED", "CLOSED"}
           t == Goto("client", "connect")
           closing == TRUE
<1>1. "client" \in Hosts /\ "client" \in Sockets /\ Works("client") /\ "connect" \in Places
  BY DEF Hosts, Sockets, Works, Places, Waits
<1>2. /\ task["client"].at = "start"
      /\ IF nic = "up" THEN Await("client", s, t, mask)
         ELSE Returns("client", s, closing)
  BY DEF Connect, ReturnError
<1>3. sock["client"].state = "CLOSED" /\ sock["client"].sackBlock = <<>>
  BY <1>1, <1>2 DEF HostsFit, TasksFit, TaskFits
<1>4. Fit(r) /\ r.state = "CLOSED" /\ r.sackBlock = <<>> /\ r.nic = nic
  BY <1>1, <1>3, SocketWithNic
<1> HIDE DEF r
<1>5. Fit(s)
  BY <1>4, ActiveOpenFits, System
<1>6. t \in Tasks /\ t.at = "connect"
  BY <1>1, GotoOf DEF HostsFit
<1>7. mask \in SUBSET Events /\ closing \in BOOLEAN
  BY DEF Events
<1> HIDE DEF mask, t, closing
<1>8. CASE nic = "up"
  <2> DEFINE item == [src |-> "client", isn |-> 0]
  <2>1. item \in Requests
    BY Sizes DEF Requests, SeqNums, Hosts
  <2> HIDE DEF item
  <2>2. Queued(s, TxBufferSize)
    BY <1>4, <1>8, <2>1, System, OpensQueued DEF Fails
  <2> HIDE DEF s
  <2>3. HostQueued(t.at, s)
    BY <1>5, <2>2, QueuedHost
  <2> QED BY <1>1, <1>2, <1>5, <1>6, <1>7, <1>8, <2>3, AwaitQueued
<1>9. CASE nic # "up"
  <2>1. s.state = "CLOSED"
    <3> DEFINE q == InitControlBlock(r, ClientIss)
               u == SendSegment(q, {"SYN"}, ClientIss, 0, 0, TRUE)
    <3>1. s = u
      BY <1>4, <1>9 DEF ActiveOpen, Fails
    <3>2. DOMAIN r = SocketFields
      BY <1>4 DEF Fit, Bounded, Loose, WaitOK
    <3>3. q.state = "CLOSED" /\ DOMAIN q = SocketFields
      BY <1>4, <3>2 DEF InitControlBlock, SocketFields
    <3> HIDE DEF q
    <3>4. u.state = q.state
      BY <3>3 DEF SendSegment, SocketFields
    <3> QED BY <3>1, <3>3, <3>4
  <2> HIDE DEF s
  <2>2. HostQueued("idle", s)
    BY <2>1 DEF HostQueued, Over, Finishing
  <2> QED BY <1>1, <1>2, <1>5, <1>7, <1>9, <2>2, ReturnsQueued
<1> QED BY <1>8, <1>9

\* Calls that leave the queue of the socket alone, and return or wait.
LEMMA ReturnsSelfQueued ==
    ASSUME HostsFit, QueuesFit, NEW h \in Hosts, Works(h), NEW nic \in Nics,
           NEW closing \in BOOLEAN, Returns(h, [sock[h] EXCEPT !.nic = nic], closing)
    PROVE  QueuesFit'
<1> DEFINE s == [sock[h] EXCEPT !.nic = nic]
           place == task[h].at
<1>1. Fit(s) /\ HostQueued(place, s) /\ Returns(h, s, closing)
  BY OwnSocketFits, SocketWithNic, NicQueued
<1> HIDE DEF s, place
<1> QED BY <1>1, ReturnsQueued

LEMMA ReturnsSockQueued ==
    ASSUME HostsFit, QueuesFit, NEW h \in Hosts, Works(h),
           NEW closing \in BOOLEAN, Returns(h, sock[h], closing)
    PROVE  QueuesFit'
<1> DEFINE s == sock[h]
           place == task[h].at
<1>1. Fit(s) /\ HostQueued(place, s) /\ Returns(h, s, closing)
  BY OwnSocketFits DEF QueuesFit
<1> HIDE DEF s, place
<1> QED BY <1>1, ReturnsQueued

LEMMA AwaitSockQueued ==
    ASSUME HostsFit, QueuesFit, NEW h \in Hosts, Works(h), NEW t \in Tasks,
           t.at # "drain", NEW mask \in SUBSET Events, Await(h, sock[h], t, mask)
    PROVE  QueuesFit'
<1> DEFINE s == sock[h]
<1>1. Fit(s) /\ HostQueued(t.at, s) /\ Await(h, s, t, mask)
  BY OwnSocketFits, LeavesQueued DEF QueuesFit
<1> HIDE DEF s
<1> QED BY <1>1, AwaitQueued

LEMMA ConnectReturnsQueued ==
    ASSUME HostsFit, QueuesFit, ConnectReturns
    PROVE  QueuesFit'
<1> DEFINE closing == sock["client"].eventFlags # {"CONNECTED"}
<1>1. "client" \in Hosts /\ Works("client") /\ closing \in BOOLEAN
      /\ Returns("client", sock["client"], closing)
  BY DEF Hosts, Works, ConnectReturns
<1> HIDE DEF closing
<1> QED BY <1>1, ReturnsSockQueued

LEMMA AcceptQueued ==
    ASSUME HostsFit, QueuesFit, Accept
    PROVE  QueuesFit'
<1> DEFINE r == Goto("server", "accept")
           t == [r EXCEPT !.blocked = TRUE]
<1>1. \/ (\E s : Put("listener", s)) /\ Become("server", t)
      \/ UNCHANGED sock /\ Become("server", r)
  BY DEF Accept
<1>2. r \in Tasks /\ r.at = "accept"
  BY GotoOf DEF HostsFit, Hosts, Places, Waits
<1> HIDE DEF r
<1>3. t.at = "accept"
  BY <1>2 DEF Tasks
<1> HIDE DEF t
<1> QED BY <1>1, <1>2, <1>3, ListenerStepQueued

LEMMA AcceptTurnQueued ==
    ASSUME HostsFit, QueuesFit, NEW nic \in Nics, AcceptTurn(nic)
    PROVE  QueuesFit'
<1> DEFINE s == sock["listener"]
           rest == [s EXCEPT !.synQueue = Tail(@)]
           r == [Opened EXCEPT !.nic = nic]
           item == Head(s.synQueue)
           new == PassiveOpen(r, item, ServerIss)
           x == Unwatched(s)
           y == Unwatched(rest)
           z == [new EXCEPT !.out = <<>>]
<1>1. IF s.synQueue = <<>> THEN Put("listener", x) /\ Become("server", Start)
      ELSE IF nic = "up"
      THEN /\ sock' = [sock EXCEPT !["listener"] = y, !["server"] = z]
           /\ Become("server", Idle)
      ELSE Put("listener", y) /\ Become("server", Start)
  BY DEF AcceptTurn
<1>2. Fit(s)
  BY DEF HostsFit, SocketsFit, AtRest, Sockets
<1>3. Start.at = "start" /\ Idle.at = "idle"
  BY DEF Start, Idle
<1> HIDE DEF s
<1>4. ASSUME s.synQueue # <<>>
      PROVE  item \in Requests
  BY <1>2, <1>4, RestOfQueueFits
<1> HIDE DEF x, y, item
<1>5. ASSUME s.synQueue # <<>>, nic = "up"
      PROVE  HostQueued("idle", z)
  <2>1. Fit(r) /\ r.state = "CLOSED" /\ r.sackBlock = <<>> /\ r.nic = "up"
    BY <1>5, OpenedFits
  <2> HIDE DEF r
  <2>2. Fit(new) /\ Queued(new, TxBufferSize)
    BY <1>4, <1>5, <2>1, System, PassiveOpenFits, OpensQueued DEF Fails
  <2>3. HostQueued("idle", new)
    BY <2>2, QueuedHost
  <2> HIDE DEF new
  <2>4. DOMAIN new = SocketFields /\ HasQueue(new)
    BY <2>2, FitHasQueue DEF Fit, Bounded, Loose, WaitOK
  <2>5. /\ DOMAIN z = DOMAIN new /\ z.sndUna = new.sndUna /\ z.sndNxt = new.sndNxt
        /\ z.queue = new.queue /\ z.state = new.state
    BY <2>4 DEF SocketFields
  <2> HIDE DEF z
  <2>6. StillQueued(new, z)
    BY <2>5, SameQueue
  <2> QED BY <2>3, <2>5, <2>6, SameHostQueued
<1> HIDE DEF z
<1>6. CASE s.synQueue = <<>> \/ nic # "up"
  <2>1. (\E u : Put("listener", u)) /\ Become("server", Start)
    BY <1>1, <1>6
  <2> QED BY <1>3, <2>1, ListenerStepQueued
<1>7. CASE s.synQueue # <<>> /\ nic = "up"
  <2> DEFINE h == "server"
             place == "idle"
  <2>1. sock' = [sock EXCEPT !["listener"] = y, !["server"] = z] /\ Become("server", Idle)
    BY <1>1, <1>7
  <2>2. h \in Hosts /\ sock'[h] = z /\ \A g \in Hosts : g # h => sock'[g] = sock[g]
    BY <2>1 DEF HostsFit, SocketsFit, Sockets, Hosts
  <2>3. task'[h].at = place /\ \A g \in Hosts : g # h => task'[g] = task[g]
    BY <1>3, <2>1, <2>2, TaskStep
  <2>4. HostQueued(place, sock'[h])
    BY <1>5, <1>7, <2>2
  <2> HIDE DEF h, place
  <2> QED BY <2>2, <2>3, <2>4, HostStepQueued
<1> QED BY <1>6, <1>7

LEMMA CallQueued ==
    ASSUME HostsFit, QueuesFit, NEW h \in Hosts, Send(h) \/ Receive(h)
    PROVE  QueuesFit'
<1> DEFINE p == Goto(h, "send")
           q == Goto(h, "receive")
           ready == {"TX_READY"}
           readable == {"RX_READY"}
<1>1. Works(h)
  BY CallFits DEF Send, Receive
<1>2. \E m \in WriteSizes \cup ReadSizes :
        \/ Await(h, sock[h], [p EXCEPT !.size = m], ready)
        \/ Await(h, sock[h], [q EXCEPT !.size = m], readable)
  BY DEF Send, Receive
<1>3. ready \in SUBSET Events /\ readable \in SUBSET Events
  BY DEF Events
<1>4. p \in Tasks /\ p.at = "send" /\ q \in Tasks /\ q.at = "receive"
  BY GotoOf DEF HostsFit, Places, Waits
<1> HIDE DEF p, q, ready, readable
<1>5. PICK m \in WriteSizes \cup ReadSizes :
        \/ Await(h, sock[h], [p EXCEPT !.size = m], ready)
        \/ Await(h, sock[h], [q EXCEPT !.size = m], readable)
  BY <1>2
<1> DEFINE t == [p EXCEPT !.size = m]
           u == [q EXCEPT !.size = m]
<1>6. t \in Tasks /\ t.at = "send" /\ u \in Tasks /\ u.at = "receive"
  BY <1>4, System DEF Tasks
<1>7. Await(h, sock[h], t, ready) \/ Await(h, sock[h], u, readable)
  BY <1>5
<1> HIDE DEF t, u
<1> QED BY <1>1, <1>3, <1>6, <1>7, AwaitSockQueued

LEMMA SendTurnQueued ==
    ASSUME HostsFit, QueuesFit, NEW h \in Hosts, NEW nic \in Nics, SendTurn(h, nic)
    PROVE  QueuesFit'
<1> DEFINE s == [sock[h] EXCEPT !.nic = nic]
           room == RoomToWrite(s)
           size == task[h].size
           n == Least(room, size)
           w == written[h]
           data == [k \in 1 .. n |-> w + k]
           t == WriteData(s, data)
           left == size - n
           over == \/ s.eventFlags # {"TX_READY"}
                   \/ s.state \notin {"ESTABLISHED", "CLOSE_WAIT"}
                   \/ room <= 0
           r == Goto(h, "send")
           next == [r EXCEPT !.size = left]
           mask == {"TX_READY"}
           place == task[h].at
           error == TRUE
           fine == FALSE
<1>1. /\ Resumes(h, "send", nic)
      /\ IF over THEN Returns(h, s, error)
         ELSE IF left = 0 THEN Returns(h, t, fine)
         ELSE Await(h, t, next, mask)
  BY DEF SendTurn, ReturnError, Return
<1>2. place = "send" /\ Works(h)
  BY <1>1, ResumesFits, IdleWorks DEF HostsFit, Places, Waits
<1>3. Fit(s) /\ HostQueued(place, s)
  BY OwnSocketFits, SocketWithNic, NicQueued
<1>4. size \in Nat /\ size > 0 /\ w \in Nat
  BY <1>2 DEF HostsFit, TasksFit, TaskFits, Tasks
<1>5. r \in Tasks /\ r.at = "send"
  BY GotoOf DEF HostsFit, Places, Waits
<1>6. mask \in SUBSET Events /\ error \in BOOLEAN /\ fine \in BOOLEAN
  BY DEF Events
<1>7. CASE over
  <2>1. Returns(h, s, error)
    BY <1>1, <1>7
  <2> HIDE DEF error
  <2> QED BY <1>2, <1>6, <2>1, ReturnsSelfQueued
<1>8. CASE ~over
  <2>1. /\ room \in Int /\ room > 0 /\ s.sndUser \in Nat /\ s.sndUser + room <= TxBufferSize
        /\ s.state \in {"ESTABLISHED", "CLOSE_WAIT"}
    <3>1. ~(room <= 0) /\ s.state \in {"ESTABLISHED", "CLOSE_WAIT"}
      BY <1>8
    <3> HIDE DEF s
    <3>2. room \in Int /\ s.sndUser \in Nat /\ s.sndUser + room <= TxBufferSize
      BY <1>3, RoomOf
    <3> HIDE DEF room
    <3> QED BY <3>1, <3>2
  <2>2. IF left = 0 THEN Returns(h, t, fine) ELSE Await(h, t, next, mask)
    BY <1>1, <1>8
  <2> HIDE DEF s, room, size, w, r, mask, place, fine
  <2>3. n \in Nat /\ n <= room /\ n <= size
    BY <1>4, <2>1 DEF Least
  <2> HIDE DEF n
  <2>4. left \in Nat
    BY <1>4, <2>3
  <2>5. data \in Seq(Nat) /\ Len(data) = n
    <3>1. \A k \in 1 .. n : w + k \in Nat
      BY <1>4, <2>3
    <3> QED BY <2>3, <3>1
  <2>6. s.sndUser + Len(data) <= TxBufferSize
    BY <2>1, <2>3, <2>5, Sizes
  <2> HIDE DEF data, left
  <2>7. Fit(t) /\ Progress(s, t)
    BY <1>3, <2>5, <2>6, WriteDataFits, WriteDataProgress
  <2> HIDE DEF t
  <2>8. HostQueued("send", t)
    BY <1>3, <2>1, <2>7, ProgressHostQueued
  <2>9. CASE left = 0
    BY <1>2, <1>6, <2>2, <2>7, <2>8, <2>9, ReturnsQueued
  <2>10. CASE left # 0
    <3>1. next \in Tasks /\ next.at = "send"
      BY <1>5, <2>4 DEF Tasks
    <3>2. Await(h, t, next, mask)
      BY <2>2, <2>10
    <3> HIDE DEF next
    <3> QED BY <1>2, <1>6, <2>7, <2>8, <3>1, <3>2, AwaitQueued
  <2> QED BY <2>9, <2>10
<1> QED BY <1>7, <1>8

LEMMA ReceiveTurnQueued ==
    ASSUME HostsFit, QueuesFit, NEW h \in Hosts, NEW nic \in Nics, ReceiveTurn(h, nic)
    PROVE  QueuesFit'
<1> DEFINE s == [sock[h] EXCEPT !.nic = nic]
           size == task[h].size
           n == Least(s.rcvUser, size)
           t == Consume(s, n)
           place == task[h].at
<1>1. /\ Resumes(h, "receive", nic)
      /\ \E closing \in BOOLEAN : Returns(h, s, closing) \/ Returns(h, t, closing)
  BY DEF ReceiveTurn, Return, ReturnError
<1>2. Works(h)
  BY <1>1, ResumesFits, IdleWorks DEF HostsFit, Places, Waits
<1>3. Fit(s) /\ HostQueued(place, s)
  BY OwnSocketFits, SocketWithNic, NicQueued
<1>4. size \in Nat
  BY DEF HostsFit, TasksFit, Tasks
<1> HIDE DEF s, size, place
<1>5. n \in Nat /\ n <= s.rcvUser
  BY <1>3, <1>4 DEF Fit, Bounded, Loose, ReceiveOK, Least
<1> HIDE DEF n
<1>6. Fit(t) /\ t.state = s.state /\ StillQueued(s, t)
  <2>1. Fit(t) /\ StillQueued(s, t)
    BY <1>3, <1>5, ConsumeFits, FitHasQueue, ConsumeQueue
  <2>2. t.state = s.state
    <3> DEFINE r == [s EXCEPT !.rcvUser = @ - n]
               v == UpdateReceiveWindow(r)
    <3>1. t = UpdateEvents(v)
      BY DEF Consume
    <3>2. DOMAIN s = SocketFields
      BY <1>3 DEF Fit, Bounded, Loose, WaitOK
    <3>3. r.state = s.state /\ DOMAIN r = SocketFields
      BY <3>2 DEF SocketFields
    <3> HIDE DEF r
    <3>4. v.state = r.state /\ DOMAIN v = SocketFields
      BY <3>3 DEF UpdateReceiveWindow, SendAck, SendSegment, SocketFields
    <3> HIDE DEF v
    <3> QED BY <3>1, <3>3, <3>4, StateOfEvents
  <2> QED BY <2>1, <2>2
<1> HIDE DEF t
<1>7. HostQueued(place, t)
  BY <1>3, <1>6, SameHostQueued
<1>8. PICK closing \in BOOLEAN : Returns(h, s, closing) \/ Returns(h, t, closing)
  BY <1>1
<1> QED BY <1>2, <1>3, <1>6, <1>7, <1>8, ReturnsQueued

LEMMA DisableReceptionQueued ==
    ASSUME HostsFit, QueuesFit, NEW h \in Hosts, Works(h),
           NEW how \in {"SEND", "RECEIVE", "BOTH"}, DisableReception(h, sock[h], how)
    PROVE  QueuesFit'
<1> DEFINE r == Goto(h, "end")
           t == [r EXCEPT !.how = how]
           mask == {"RX_SHUTDOWN"}
           closing == how = "BOTH"
<1>1. Await(h, sock[h], t, mask) \/ Returns(h, sock[h], closing)
  BY DEF DisableReception, ShutdownReturns
<1>2. r \in Tasks /\ r.at = "end"
  BY GotoOf DEF HostsFit, Places, Waits
<1>3. mask \in SUBSET Events /\ closing \in BOOLEAN
  BY DEF Events
<1> HIDE DEF r, mask, closing
<1>4. t \in Tasks /\ t.at = "end"
  BY <1>2 DEF Tasks
<1> HIDE DEF t
<1> QED BY <1>1, <1>3, <1>4, AwaitSockQueued, ReturnsSockQueued

LEMMA ShutdownQueued ==
    ASSUME HostsFit, QueuesFit, NEW h \in Hosts, Shutdown(h)
    PROVE  QueuesFit'
<1> DEFINE s == sock[h]
           Begin(place, how) == [Goto(h, place) EXCEPT !.how = how]
           finState == IF s.state = "CLOSE_WAIT" THEN "LAST_ACK" ELSE "FIN_WAIT_1"
           closing == TRUE
           ready == {"TX_READY"}
           ended_ == {"TX_SHUTDOWN"}
<1>1. PICK how \in Hows :
        \/ DisableReception(h, s, how)
        \/ Returns(h, s, closing)
        \/ Await(h, s, [Begin("flush", how) EXCEPT !.finState = finState], ready)
        \/ Await(h, s, Begin("fin", how), ended_)
  BY DEF Shutdown, ReturnError
<1>2. Works(h)
  BY CallFits DEF Shutdown
<1>3. /\ closing \in BOOLEAN /\ ready \in SUBSET Events /\ ended_ \in SUBSET Events
      /\ finState \in {"FIN_WAIT_1", "LAST_ACK"}
  BY DEF Events
<1>4. how \in {"SEND", "RECEIVE", "BOTH"}
  BY System
<1> HIDE DEF finState, closing, ready, ended_
<1> DEFINE f == Goto(h, "flush")
           fh == [f EXCEPT !.how = how]
           t == [fh EXCEPT !.finState = finState]
           g == Goto(h, "fin")
           u == [g EXCEPT !.how = how]
<1>5. f \in Tasks /\ f.at = "flush" /\ g \in Tasks /\ g.at = "fin"
  BY GotoOf DEF HostsFit, Places, Waits
<1>6. \/ DisableReception(h, s, how) \/ Returns(h, s, closing)
      \/ Await(h, s, t, ready) \/ Await(h, s, u, ended_)
  BY <1>1
<1> HIDE DEF f, g
<1>7. fh \in Tasks /\ fh.at = "flush"
  BY <1>4, <1>5 DEF Tasks
<1>8. u \in Tasks /\ u.at = "fin"
  BY <1>4, <1>5 DEF Tasks
<1> HIDE DEF fh, u
<1>9. t \in Tasks /\ t.at = "flush"
  BY <1>3, <1>7 DEF Tasks
<1> HIDE DEF t
<1> QED BY <1>2, <1>3, <1>4, <1>6, <1>8, <1>9, DisableReceptionQueued, ReturnsSockQueued,
           AwaitSockQueued

LEMMA FlushTurnQueued ==
    ASSUME HostsFit, QueuesFit, NEW h \in Hosts, NEW nic \in Nics, FlushTurn(h, nic)
    PROVE  QueuesFit'
<1> DEFINE s == [sock[h] EXCEPT !.nic = nic]
           noDelay == TRUE
           u == NagleAlgo(s, noDelay)
           t == Goto(h, "drain")
           mask == {"TX_DONE"}
           place == task[h].at
<1>1. /\ Resumes(h, "flush", nic)
      /\ \/ Returns(h, s, noDelay)
         \/ s.state \in {"ESTABLISHED", "CLOSE_WAIT"} /\ Await(h, u, t, mask)
  BY DEF FlushTurn, ReturnError
<1>2. Works(h)
  BY <1>1, ResumesFits, IdleWorks DEF HostsFit, Places, Waits
<1>3. Fit(s) /\ HostQueued(place, s)
  BY OwnSocketFits, SocketWithNic, NicQueued
<1>4. noDelay \in BOOLEAN /\ mask \in SUBSET Events
  BY DEF Events
<1>5. t \in Tasks /\ t.at = "drain"
  BY GotoOf DEF HostsFit, Places, Waits
<1> HIDE DEF s, noDelay, mask, t, place
<1>6. CASE Returns(h, s, noDelay)
  BY <1>2, <1>3, <1>4, <1>6, ReturnsQueued
<1>7. CASE s.state \in {"ESTABLISHED", "CLOSE_WAIT"} /\ Await(h, u, t, mask)
  <2>1. Fit(u) /\ Progress(s, u)
    BY <1>3, NagleAlgoFits, NagleProgress
  <2> HIDE DEF u
  <2>2. HostQueued(t.at, u)
    BY <1>3, <1>7, <2>1, ProgressHostQueued
  <2> QED BY <1>2, <1>4, <1>5, <1>7, <2>1, <2>2, AwaitQueued
<1> QED BY <1>1, <1>6, <1>7

\* The FIN is sent, or waits in the queue if the NIC refused it.
LEMMA DrainTurnQueued ==
    ASSUME HostsFit, QueuesFit, NEW h \in Hosts, NEW nic \in Nics, DrainTurn(h, nic)
    PROVE  QueuesFit'
<1> DEFINE s == [sock[h] EXCEPT !.nic = nic]
           finState == task[h].finState
           u == SendFin(s, finState)
           closing == TRUE
           t == Goto(h, "fin")
           mask == {"TX_SHUTDOWN"}
           place == task[h].at
<1>1. /\ Resumes(h, "drain", nic)
      /\ \/ Returns(h, s, closing)
         \/ nic # "up" /\ Returns(h, u, closing)
         \/ nic = "up" /\ Await(h, u, t, mask)
  BY DEF DrainTurn, ReturnError
<1>2. place = "drain" /\ Works(h)
  BY <1>1, ResumesFits, IdleWorks DEF HostsFit, Places, Waits
<1>3. Fit(s) /\ Goes(sock[h], s) /\ HostQueued(place, s) /\ s.nic = nic
  BY OwnSocketFits, SocketWithNic, NicQueued
<1>4. closing \in BOOLEAN /\ mask \in SUBSET Events
  BY DEF Events
<1>5. t \in Tasks /\ t.at = "fin"
  BY GotoOf DEF HostsFit, Places, Waits
<1>6. finState \in {"FIN_WAIT_1", "LAST_ACK"} /\ Draining(sock[h])
  BY <1>2 DEF HostsFit, TasksFit, TaskFits, Tasks
<1> HIDE DEF s, closing, mask, t, finState, place
<1>7. Apart(s, 0) /\ Queued(s, TxBufferSize)
  BY <1>2, <1>3, <1>6 DEF Goes, Draining, HostQueued
<1>8. Fit(u)
  BY <1>3, <1>6, <1>7, SendFinFits
<1>9. CASE Returns(h, s, closing)
  BY <1>2, <1>3, <1>4, <1>9, ReturnsQueued
<1>10. CASE nic # "up" /\ Returns(h, u, closing)
  <2>1. StillQueued(s, u)
    BY <1>3, <1>10, SendFinQueued DEF Fails
  <2> HIDE DEF u
  <2>2. HostQueued(place, u)
    BY <1>7, <1>8, <2>1, StillProgress, QueuedHost
  <2> QED BY <1>2, <1>4, <1>8, <1>10, <2>2, ReturnsQueued
<1>11. CASE nic = "up" /\ Await(h, u, t, mask)
  <2>1. Queued(u, TxBufferSize + 1)
    BY <1>3, <1>7, <1>11, SendFinQueued DEF Fails
  <2>2. u.state \in Finishing
    <3> DEFINE q == SendSegment(s, {"FIN", "ACK"}, s.sndNxt, s.rcvNxt, 0, TRUE)
               e == [q EXCEPT !.sndNxt = Plus(@, 1)]
    <3>1. u = ChangeState(e, finState)
      BY <1>3, <1>11 DEF SendFin, Fails
    <3>2. DOMAIN s = SocketFields
      BY <1>3 DEF Fit, Bounded, Loose, WaitOK
    <3>3. DOMAIN q = SocketFields
      BY <3>2 DEF SendSegment
    <3> HIDE DEF q
    <3>4. DOMAIN e = SocketFields
      BY <3>3
    <3> HIDE DEF e
    <3>5. u.state = finState
      BY <3>1, <3>4, StateOfEvents
    <3> QED BY <1>6, <3>5 DEF Finishing
  <2> HIDE DEF u
  <2>3. HostQueued(t.at, u)
    BY <1>5, <2>1, <2>2 DEF HostQueued
  <2> QED BY <1>2, <1>4, <1>5, <1>8, <1>11, <2>3, AwaitQueued
<1> QED BY <1>1, <1>9, <1>10, <1>11

LEMMA LastTurnsQueued ==
    ASSUME HostsFit, QueuesFit, NEW h \in Hosts, FinTurn(h) \/ EndTurn(h)
    PROVE  QueuesFit'
<1> DEFINE how == task[h].how
<1>1. /\ Resumes(h, "fin", "up") \/ Resumes(h, "end", "up")
      /\ \/ \E closing \in BOOLEAN : Returns(h, sock[h], closing)
         \/ DisableReception(h, sock[h], how)
  BY DEF FinTurn, EndTurn, ShutdownReturns, ReturnError
<1>2. Works(h)
  BY <1>1, ResumesFits, IdleWorks DEF HostsFit, Places, Waits
<1>3. how \in {"SEND", "RECEIVE", "BOTH"}
  BY DEF HostsFit, TasksFit, Tasks
<1> HIDE DEF how
<1> QED BY <1>1, <1>2, <1>3, ReturnsSockQueued, DisableReceptionQueued

LEMMA CloseQueued ==
    ASSUME HostsFit, QueuesFit, NEW h \in Hosts, NEW nic \in Nics, Close(h, nic)
    PROVE  QueuesFit'
<1> DEFINE s == [sock[h] EXCEPT !.nic = nic]
           u == Abort(s)
           t == [Idle EXCEPT !.at = "closed"]
<1>1. Put(h, u) /\ Become(h, t)
  BY DEF Close
<1>2. Fit(s)
  BY OwnSocketFits, SocketWithNic
<1>3. t.at = "closed"
  BY DEF Idle
<1> HIDE DEF s, t
<1>4. Fit(u)
  BY <1>2, AbortFits
<1>5. HostQueued("closed", u)
  <2> DEFINE e == [s EXCEPT !.owned = FALSE]
  <2>1. \/ u = e /\ s.state = "TIME_WAIT"
        \/ \E v : u = Free(v)
    BY DEF Abort
  <2>2. CASE u = e /\ s.state = "TIME_WAIT"
    <3>1. e.state = s.state
      BY <1>2 DEF Fit, Bounded, Loose, WaitOK, SocketFields
    <3> QED BY <2>2, <3>1 DEF HostQueued, Over, Finishing
  <2>3. CASE \E v : u = Free(v)
    <3>1. Queued(u, TxBufferSize)
      BY <2>3, FreeQueued DEF Mosts
    <3> QED BY <1>4, <3>1, QueuedHost
  <2> QED BY <2>1, <2>2, <2>3
<1> HIDE DEF u
<1> QED BY <1>1, <1>3, <1>4, <1>5, TaskStepQueued

LEMMA ProcessSegmentQueued ==
    ASSUME HostsFit, QueuesFit, NEW h \in Hosts, NEW nic \in Nics, ProcessSegment(h, nic)
    PROVE  QueuesFit'
<1> DEFINE seg == Head(net[h])
           x == CHOOSE x \in Matching(h) : TRUE
           r == [sock[x] EXCEPT !.nic = nic]
           peer == Peer(h)
           z == [Unused EXCEPT !.nic = nic]
           s == IF Matching(h) = {} THEN StateClosed(z, seg)
                ELSE ProcessState(r, peer, seg)
<1>1. /\ net[h] # <<>> /\ UNCHANGED task
      /\ sock' = [y \in Sockets |-> IF y \in Matching(h) THEN Left(s) ELSE sock[y]]
  BY DEF ProcessSegment, Left
<1>2. seg \in Segments
  BY <1>1, HeadOf DEF HostsFit
<1>3. peer \in Hosts
  BY DEF Peer, Hosts
<1>4. CASE h \notin Matching(h)
  <2>1. \A g \in Hosts : sock'[g] = sock[g]
    BY <1>1, <1>4 DEF Matching, Hosts, Sockets
  <2> QED BY <1>1, <2>1 DEF QueuesFit
<1>5. CASE h \in Matching(h)
  <2>1. x = h /\ Matching(h) = {h} /\ h \in Sockets
    BY <1>5 DEF Matching, Hosts, Sockets
  <2>2. r = [sock[h] EXCEPT !.nic = nic] /\ s = ProcessState(r, peer, seg)
    BY <1>5, <2>1
  <2> HIDE DEF x, seg, peer
  <2>3. Fit(r)
    BY <2>2, OwnSocketFits, SocketWithNic
  <2>4. sock' = [sock EXCEPT ![h] = Left(s)]
    BY <1>1, <2>1 DEF HostsFit, SocketsFit
  <2> HIDE DEF r, s
  <2>5. Moves(r, s) /\ Goes(r, s)
    BY <1>2, <1>3, <2>2, <2>3, ProcessStateMoves, ProcessStateGoes
  <2> QED BY <1>1, <2>2, <2>4, <2>5, NetStepQueued
<1> QED BY <1>4, <1>5

LEMMA TicksQueued ==
    ASSUME HostsFit, QueuesFit, NEW h \in Hosts, NEW nic \in Nics, Tick(h, nic)
    PROVE  QueuesFit'
<1> DEFINE s == [sock[h] EXCEPT !.nic = nic]
<1>1. Fit(s) /\ UNCHANGED task
  BY OwnSocketFits, SocketWithNic
     DEF Tick, RetransmitTick, PersistTick, OverrideTick, FinWait2Tick, TimeWaitTick
<1>2. CASE RetransmitTick(h, nic)
  <2> DEFINE t == RetransmitTimeout(s)
  <2>1. Put(h, t)
    BY <1>2 DEF RetransmitTick
  <2>2. Moves(s, t) /\ Goes(s, t)
    BY <1>1, TimeoutMoves, RetransmitTimeoutGoes
  <2> HIDE DEF t
  <2> QED BY <1>1, <2>1, <2>2, TickQueued
<1>3. CASE PersistTick(h, nic)
  <2> DEFINE t == PersistTimeout(s)
  <2>1. Put(h, t)
    BY <1>3 DEF PersistTick
  <2>2. Moves(s, t) /\ Goes(s, t)
    BY <1>1, TimeoutMoves, PersistTimeoutGoes
  <2> HIDE DEF t
  <2> QED BY <1>1, <2>1, <2>2, TickQueued
<1>4. CASE OverrideTick(h, nic)
  <2> DEFINE t == OverrideTimeout(s)
  <2>1. Put(h, t) /\ OverrideTimerRuns(s)
    BY <1>4 DEF OverrideTick
  <2>2. Moves(s, t) /\ Goes(s, t)
    BY <1>1, <2>1, OtherTimeoutMoves, OverrideTimeoutGoes
  <2> HIDE DEF t
  <2> QED BY <1>1, <2>1, <2>2, TickQueued
<1>5. CASE FinWait2Tick(h) \/ TimeWaitTick(h)
  <2> DEFINE r == sock[h]
             c == FinWait2Timeout(r)
             d == TimeWaitTimeout(r)
             place == task[h].at
  <2>1. \/ r.state = "FIN_WAIT_2" /\ Put(h, c)
        \/ r.state = "TIME_WAIT" /\ Put(h, d)
    BY <1>5 DEF FinWait2Tick, TimeWaitTick
  <2>2. Fit(r) /\ r.state \in States /\ HostQueued(place, r)
    BY OwnSocketFits, FitHasQueue DEF QueuesFit
  <2>3. place = "drain" => Draining(r)
    BY DEF HostsFit, TasksFit, TaskFits
  <2> HIDE DEF r, place
  <2>4. /\ Moves(r, c) /\ Fit(c)
        /\ r.state = "TIME_WAIT" => Moves(r, d) /\ Fit(d)
    BY <2>2, OtherTimeoutMoves, CloseFits, FreeFits DEF FinWait2Timeout, TimeWaitTimeout
  <2> HIDE DEF c, d
  <2>5. PICK u \in {c, d} : Put(h, u) /\ Fit(u) /\ Moves(r, u) /\ r.state \in {"FIN_WAIT_2", "TIME_WAIT"}
    BY <2>1, <2>4
  <2>6. HostQueued(place, u)
    BY <2>2, <2>3, <2>5, OtherGoes, MovesQueued
  <2>7. /\ h \in Sockets /\ sock' = [sock EXCEPT ![h] = Left(u)]
    BY <2>5 DEF Put, Left, Hosts, Sockets
  <2>8. HostQueued(place, sock'[h]) /\ \A g \in Hosts : g # h => sock'[g] = sock[g]
    BY <2>5, <2>6, <2>7, LeftQueued, SocketStep
  <2> QED BY <1>1, <2>8, HostStepQueued DEF place
<1> QED BY <1>2, <1>3, <1>4, <1>5 DEF Tick

LEMMA InitQueued ==
    ASSUME Init
    PROVE  QueuesFit
<1> DEFINE r == Unused
           o == [r EXCEPT !.used = TRUE]
<1>1. /\ sock["client"] = o /\ sock["server"] = r
      /\ \A h \in Hosts : task[h] = Start
  BY DEF Init, Opened, Sockets
<1>2. r.state = "CLOSED" /\ DOMAIN r = SocketFields
  BY UnusedFits
<1> HIDE DEF r
<1>3. o.state = "CLOSED"
  BY <1>2 DEF SocketFields
<1>4. Start.at = "start"
  BY DEF Start, Idle
<1> QED BY <1>1, <1>2, <1>3, <1>4 DEF QueuesFit, HostQueued, Hosts, Over, Finishing

LEMMA NextQueued ==
    ASSUME HostsFit, QueuesFit, [Next]_vars
    PROVE  QueuesFit'
<1>1. CASE \E nic \in Nics : Connect(nic) \/ AcceptTurn(nic)
  BY <1>1, ConnectQueued, AcceptTurnQueued
<1>2. CASE ConnectReturns \/ Accept
  BY <1>2, ConnectReturnsQueued, AcceptQueued
<1>3. CASE \E h \in Hosts : Call(h)
  BY <1>3, CallQueued, ShutdownQueued DEF Call
<1>4. ASSUME NEW h \in Hosts, NEW nic \in Nics, Turn(h, nic)
      PROVE  QueuesFit'
  BY <1>4, SendTurnQueued, ReceiveTurnQueued, FlushTurnQueued, DrainTurnQueued,
     LastTurnsQueued DEF Turn
<1>5. CASE \E h \in Hosts : Network(h) \/ UNCHANGED vars
  BY <1>5 DEF Network, Lose, Duplicate, Delay, vars, QueuesFit
<1>6. ASSUME NEW h \in Hosts, NEW nic \in Nics,
             Close(h, nic) \/ ProcessSegment(h, nic) \/ Tick(h, nic)
      PROVE  QueuesFit'
  BY <1>6, CloseQueued, ProcessSegmentQueued, TicksQueued
<1>7. CASE UNCHANGED vars
  BY <1>7 DEF vars, QueuesFit
<1> QED BY <1>1, <1>2, <1>3, <1>4, <1>5, <1>6, <1>7 DEF Next

\* For every size of the buffers, every sequence space they are a small part
\* of and every initial sequence number: what a connection has sent and not
\* had acknowledged is always in its retransmission queue (InFlightIsQueued),
\* so that no partial acknowledgment, refused transmission or timeout leaves
\* numbers that nothing would send again.  What makes it inductive besides
\* HostsFit is QueuesFit: no more than a send buffer, and the FIN, is in
\* flight, so that tcpUpdateRetransmitQueue, which compares sequence numbers,
\* removes no segment that is still needed.
THEOREM FlightAlwaysQueued == Spec => []InFlightIsQueued
<1> DEFINE IInv == HostsFit /\ QueuesFit
<1>1. Init => IInv
  BY InitFits, InitQueued
<1>2. IInv /\ [Next]_vars => IInv'
  BY NextFits, NextQueued
<1>3. IInv => InFlightIsQueued
  <2> SUFFICES ASSUME IInv, NEW h \in Hosts, sock[h].state \notin {"CLOSED", "TIME_WAIT"}
               PROVE  \A x \in Sequenced(sock[h]) : Queues(sock[h], x)
    BY DEF InFlightIsQueued, Queues
  <2> DEFINE s == sock[h]
  <2>1. s.state \in States /\ HostQueued(task[h].at, s)
    BY OwnSocketFits, FitHasQueue DEF QueuesFit
  <2> QED BY <2>1 DEF HostQueued, Queued, Over
<1> QED BY <1>1, <1>2, <1>3, PTL DEF Spec

-----------------------------------------------------------------------------
(* Which fields of a socket an operation leaves alone *)

\* The fields Right and Stage depend on.
Core == {"owned", "state", "iss", "irs", "sndUna", "sndNxt", "sndUser", "rcvNxt",
         "rcvUser", "queue", "sackBlock", "txBuffer", "rxBuffer", "closedFlag",
         "probing", "out"}

AlikeBut(s, t, changed) == \A f \in Core \ changed : t[f] = s[f]

Alike(s, t) == AlikeBut(s, t, {})

LEMMA AlikeFields ==
    ASSUME NEW s, NEW t, Alike(s, t)
    PROVE  /\ t.owned = s.owned /\ t.state = s.state /\ t.iss = s.iss /\ t.irs = s.irs
           /\ t.sndUna = s.sndUna /\ t.sndNxt = s.sndNxt /\ t.sndUser = s.sndUser
           /\ t.rcvNxt = s.rcvNxt /\ t.rcvUser = s.rcvUser /\ t.queue = s.queue
           /\ t.sackBlock = s.sackBlock /\ t.txBuffer = s.txBuffer
           /\ t.rxBuffer = s.rxBuffer /\ t.closedFlag = s.closedFlag
           /\ t.probing = s.probing /\ t.out = s.out
BY DEF Alike, AlikeBut, Core

LEMMA AlikeSelf ==
    ASSUME NEW s, NEW changed
    PROVE  AlikeBut(s, s, changed)
BY DEF AlikeBut

LEMMA AlikeOfAlike ==
    ASSUME NEW s, NEW t, NEW u, NEW F, NEW G, AlikeBut(s, t, F), AlikeBut(t, u, G)
    PROVE  AlikeBut(s, u, F \cup G)
BY DEF AlikeBut

LEMMA AlikeMore ==
    ASSUME NEW s, NEW t, NEW F, NEW G, AlikeBut(s, t, F), F \subseteq G
    PROVE  AlikeBut(s, t, G)
BY DEF AlikeBut

LEMMA UpdateEventsAlike ==
    ASSUME NEW s, DOMAIN s = SocketFields
    PROVE  Alike(s, UpdateEvents(s)) /\ DOMAIN UpdateEvents(s) = SocketFields
BY DEF UpdateEvents, Alike, AlikeBut, Core, SocketFields

\* A control block t that differs from s in these fields only.
Differs(s, t, changed) == DOMAIN t = SocketFields /\ AlikeBut(s, t, changed)

LEMMA DiffersOf ==
    ASSUME NEW s, NEW t, NEW u, NEW F, NEW G, NEW H, Differs(s, t, F), Differs(t, u, G),
           F \cup G \subseteq H
    PROVE  Differs(s, u, H)
BY DEF Differs, AlikeBut

LEMMA EventsDiffer ==
    ASSUME NEW s, DOMAIN s = SocketFields, NEW newState, NEW mask
    PROVE  /\ Differs(s, UpdateEvents(s), {})
           /\ Differs(s, WaitForEvents(s, mask), {})
           /\ Differs(s, Unwatched(s), {})
           /\ Differs(s, ChangeState(s, newState), {"state", "closedFlag"})
           /\ ChangeState(s, newState).state = newState
           /\ s.state \notin {"LAST_ACK", "TIME_WAIT"} \/ newState # "CLOSED" =>
                (ChangeState(s, newState).closedFlag => s.closedFlag)
           /\ Differs(s, Left(s), {"out"}) /\ Left(s).out = <<>>
<1>1. \A r : DOMAIN r = SocketFields => Differs(r, UpdateEvents(r), {})
  BY DEF Differs, AlikeBut, UpdateEvents, Core, SocketFields
<1>2. Differs(s, WaitForEvents(s, mask), {})
  <2> DEFINE r == [s EXCEPT !.eventMask = mask]
             t == UpdateEvents(r)
  <2>1. Differs(s, r, {}) /\ DOMAIN r = SocketFields
    BY DEF Differs, AlikeBut, Core, SocketFields
  <2>2. Differs(r, t, {})
    BY <1>1, <2>1
  <2>3. WaitForEvents(s, mask) = [t EXCEPT !.event = @ /\ t.eventFlags # {}]
    BY DEF WaitForEvents
  <2> HIDE DEF t, r
  <2>4. Differs(t, WaitForEvents(s, mask), {})
    BY <2>2, <2>3 DEF Differs, AlikeBut, Core, SocketFields
  <2> QED BY <2>1, <2>2, <2>4 DEF Differs, AlikeBut
<1>3. Differs(s, Unwatched(s), {})
  BY DEF Differs, AlikeBut, Unwatched, Core, SocketFields
<1>4. /\ Differs(s, ChangeState(s, newState), {"state", "closedFlag"})
      /\ ChangeState(s, newState).state = newState
      /\ s.state \notin {"LAST_ACK", "TIME_WAIT"} \/ newState # "CLOSED" =>
           (ChangeState(s, newState).closedFlag => s.closedFlag)
  <2> DEFINE proper == s.state \in {"LAST_ACK", "TIME_WAIT"}
             r == [s EXCEPT !.closedFlag = @ \/ (newState = "CLOSED" /\ proper),
                            !.resetFlag = @ \/ (newState = "CLOSED" /\ ~proper),
                            !.state = newState]
  <2>1. Differs(s, r, {"state", "closedFlag"}) /\ DOMAIN r = SocketFields
    BY DEF Differs, AlikeBut, Core, SocketFields
  <2>2. r.state = newState /\ r.closedFlag = (s.closedFlag \/ (newState = "CLOSED" /\ proper))
    BY DEF SocketFields
  <2>3. ChangeState(s, newState) = UpdateEvents(r)
    BY DEF ChangeState
  <2> HIDE DEF r
  <2>4. Differs(r, ChangeState(s, newState), {})
    BY <1>1, <2>1, <2>3
  <2> QED BY <2>1, <2>2, <2>4 DEF Differs, AlikeBut, Core
<1>5. Differs(s, Left(s), {"out"}) /\ Left(s).out = <<>>
  BY DEF Differs, AlikeBut, Left, Core, SocketFields
<1> QED BY <1>1, <1>2, <1>3, <1>4, <1>5

LEMMA SendSegmentDiffers ==
    ASSUME NEW s, DOMAIN s = SocketFields, NEW flags, NEW seqNum, NEW ackNum,
           NEW length, NEW addToQueue
    PROVE  Differs(s, SendSegment(s, flags, seqNum, ackNum, length, addToQueue),
                   {"queue", "out"})
BY DEF SendSegment, Differs, AlikeBut, Core, SocketFields

LEMMA SendAckDiffers ==
    ASSUME NEW s, DOMAIN s = SocketFields
    PROVE  Differs(s, SendAck(s), {"queue", "out"})
BY SendSegmentDiffers DEF SendAck

LEMMA RetransmitSegmentDiffers ==
    ASSUME NEW s, DOMAIN s = SocketFields
    PROVE  Differs(s, RetransmitSegment(s), {"out"})
BY DEF RetransmitSegment, Differs, AlikeBut, Core, SocketFields

LEMMA WindowsDiffer ==
    ASSUME NEW s, DOMAIN s = SocketFields, NEW seg
    PROVE  /\ Differs(s, UpdateSendWindow(s, seg), {"probing"})
           /\ Differs(s, InitSendWindow(s, seg), {})
           /\ Differs(s, CutCwnd(s), {})
<1>1. Differs(s, UpdateSendWindow(s, seg), {"probing"})
  <2> DEFINE closes == ~(seg.seq = s.sndWl1 /\ seg.ack = s.sndWl2) /\ seg.wnd = 0 /\ s.sndWnd > 0
             most == Most(s.maxSndWnd, seg.wnd)
             probes == s.probing \/ closes
             count == IF closes THEN 0 ELSE s.wndProbeCount
             t == [s EXCEPT !.sndWnd = seg.wnd, !.sndWl1 = seg.seq, !.sndWl2 = seg.ack,
                            !.maxSndWnd = most, !.probing = probes,
                            !.wndProbeCount = count]
  <2>1. UpdateSendWindow(s, seg) \in {s, t}
    BY DEF UpdateSendWindow
  <2> HIDE DEF most, probes, count
  <2>2. Differs(s, t, {"probing"}) /\ Differs(s, s, {"probing"})
    BY DEF Differs, AlikeBut, Core, SocketFields
  <2> HIDE DEF t
  <2> QED BY <2>1, <2>2
<1>2. Differs(s, InitSendWindow(s, seg), {})
  BY DEF InitSendWindow, Differs, AlikeBut, Core, SocketFields
<1>3. Differs(s, CutCwnd(s), {})
  BY DEF CutCwnd, Differs, AlikeBut, Core, SocketFields
<1> QED BY <1>1, <1>2, <1>3

LEMMA CongestionDiffers ==
    ASSUME NEW s, DOMAIN s = SocketFields, NEW recover, NEW cwnd, NEW congestState, NEW n
    PROVE  /\ Differs(s, [s EXCEPT !.recover = recover, !.cwnd = cwnd,
                                   !.congestState = congestState], {})
           /\ Differs(s, [s EXCEPT !.cwnd = cwnd, !.congestState = congestState], {})
           /\ Differs(s, [s EXCEPT !.cwnd = cwnd], {})
           /\ Differs(s, [s EXCEPT !.congestState = congestState], {})
           /\ Differs(s, [s EXCEPT !.dupAckCount = n], {})
           /\ Differs(s, CutCwnd(s), {})
<1>1. /\ Differs(s, [s EXCEPT !.recover = recover, !.cwnd = cwnd,
                              !.congestState = congestState], {})
      /\ Differs(s, [s EXCEPT !.cwnd = cwnd, !.congestState = congestState], {})
  BY DEF Differs, AlikeBut, Core, SocketFields
<1>2. /\ Differs(s, [s EXCEPT !.cwnd = cwnd], {})
      /\ Differs(s, [s EXCEPT !.congestState = congestState], {})
      /\ Differs(s, [s EXCEPT !.dupAckCount = n], {})
  BY DEF Differs, AlikeBut, Core, SocketFields
<1> QED BY <1>1, <1>2, WindowsDiffer

LEMMA DiffersMore ==
    ASSUME NEW s, NEW t, NEW F, NEW G, Differs(s, t, F), F \subseteq G
    PROVE  Differs(s, t, G)
BY DEF Differs, AlikeBut

LEMMA FinDiffers ==
    ASSUME NEW s, DOMAIN s = SocketFields, NEW newState
    PROVE  LET t == SendFin(s, newState)
           IN  /\ Differs(s, t, {"queue", "out", "sndNxt", "state", "closedFlag"})
               /\ t.state \in {s.state, newState}
               /\ s.nic = "memory" => t = s
               /\ s.nic = "up" => t.state = newState
<1> DEFINE F == {"queue", "out", "sndNxt", "state", "closedFlag"}
           u == SendSegment(s, {"FIN", "ACK"}, s.sndNxt, s.rcvNxt, 0, TRUE)
           next == Plus(u.sndNxt, 1)
           r == [u EXCEPT !.sndNxt = next]
           v == ChangeState(r, newState)
<1>1. SendFin(s, newState) = IF Fails(s) THEN u ELSE v
  BY DEF SendFin
<1>2. s.nic = "memory" => u = s /\ Fails(s)
  BY DEF SendSegment, Fails
<1>3. Differs(s, u, {"queue", "out"})
  BY SendSegmentDiffers
<1> HIDE DEF u, next
<1>4. Differs(u, r, {"sndNxt"})
  BY <1>3 DEF Differs, AlikeBut, Core, SocketFields
<1> HIDE DEF r
<1>5. Differs(r, v, {"state", "closedFlag"}) /\ v.state = newState
  BY <1>4, EventsDiffer DEF Differs
<1> HIDE DEF v
<1>6. Differs(u, v, {"sndNxt", "state", "closedFlag"})
  BY <1>4, <1>5, DiffersOf
<1>7. Differs(s, v, F) /\ Differs(s, u, F)
  BY <1>3, <1>6, DiffersOf, DiffersMore
<1>8. u.state = s.state
  BY <1>3 DEF Differs, AlikeBut, Core
<1> QED BY <1>1, <1>2, <1>5, <1>7, <1>8 DEF Fails

-----------------------------------------------------------------------------
(* Places in a circular buffer *)

LEMMA DivMod ==
    ASSUME NEW n \in Nat \ {0}, NEW x \in Int
    PROVE  \E q \in Int, r \in 0 .. n - 1 : x = q * n + r /\ r = (x % n)
<1>1. x \div n \in Int /\ x % n \in 0 .. n - 1 /\ x = (x \div n) * n + (x % n)
  OBVIOUS
<1> QED BY <1>1

LEMMA ModUnique ==
    ASSUME NEW n \in Nat \ {0}, NEW q \in Int, NEW r \in 0 .. n - 1
    PROVE  (q * n + r) % n = r
OBVIOUS

\* Two numbers less than n apart that have the same place are the same.
LEMMA ModSame ==
    ASSUME NEW n \in Nat \ {0}, NEW x \in Int, NEW y \in Int, x % n = y % n,
           x - y < n, y - x < n
    PROVE  x = y
<1>1. PICK q \in Int, r \in 0 .. n - 1 : x = q * n + r /\ r = (x % n)
  BY DivMod
<1>2. PICK p \in Int, u \in 0 .. n - 1 : y = p * n + u /\ u = (y % n)
  BY DivMod
<1>3. (q - p) * n < n /\ (p - q) * n < n
  BY <1>1, <1>2
<1>4. \A d \in Int : d >= 1 => d * n >= n
  OBVIOUS
<1>5. ~(q - p >= 1) /\ ~(p - q >= 1)
  <2>1. q - p \in Int /\ p - q \in Int
    OBVIOUS
  <2> QED BY <1>3, <1>4, <2>1
<1>6. q = p
  BY <1>5
<1>7. r = u
  BY <1>1, <1>2
<1> QED BY <1>1, <1>2, <1>6, <1>7

LEMMA ModDiff ==
    ASSUME NEW n \in Nat \ {0}, NEW a \in Int, NEW b \in Int
    PROVE  ((a % n) - b) % n = (a - b) % n
<1>1. PICK q \in Int, r \in 0 .. n - 1 : a = q * n + r /\ r = (a % n)
  BY DivMod
<1>2. PICK p \in Int, u \in 0 .. n - 1 : r - b = p * n + u /\ u = ((r - b) % n)
  <2>1. r - b \in Int
    OBVIOUS
  <2> QED BY <2>1, DivMod
<1>3. a - b = (q + p) * n + u /\ q + p \in Int
  BY <1>1, <1>2
<1>4. ((q + p) * n + u) % n = u
  BY <1>3, ModUnique
<1> QED BY <1>1, <1>2, <1>3, <1>4

\* The place of the unit at a position of the stream, as the buffers count.
LEMMA StartOf ==
    ASSUME NEW origin \in SeqNums, NEW x \in SeqNums, Minus(x, origin) >= 1
    PROVE  Minus(x, Plus(origin, 1)) = Minus(x, origin) - 1
<1> DEFINE m == Minus(x, origin)
           o == Plus(origin, 1)
<1>1. SeqSpace \in Nat /\ SeqSpace >= 2
  BY Sizes
<1>2. /\ origin \in 0 .. SeqSpace - 1 /\ x \in 0 .. SeqSpace - 1
      /\ m = IF x >= origin THEN x - origin ELSE x - origin + SeqSpace
  BY MinusIs
<1>3. o \in SeqNums /\ o = IF origin + 1 < SeqSpace THEN origin + 1 ELSE origin + 1 - SeqSpace
  <2> DEFINE n == 1
  <2>1. n \in Int /\ n \in 0 .. SeqSpace
    BY <1>1
  <2> HIDE DEF n
  <2>2. /\ Plus(origin, n) \in SeqNums
        /\ Plus(origin, n) = IF origin + n < SeqSpace THEN origin + n ELSE origin + n - SeqSpace
    BY <2>1, PlusOf
  <2> QED BY <2>2 DEF n
<1> HIDE DEF o, m
<1>4. Minus(x, o) = IF x >= o THEN x - o ELSE x - o + SeqSpace
  BY <1>3, MinusIs
<1>5. m >= 1
  BY DEF m
<1>6. Minus(x, o) = m - 1
  BY <1>1, <1>2, <1>3, <1>4, <1>5
<1> QED BY <1>6 DEF m, o

Ring(n) == [0 .. n - 1 -> Nat]

LEMMA RingSize ==
    ASSUME NEW n \in Nat \ {0}, NEW buffer \in Ring(n)
    PROVE  DOMAIN buffer = 0 .. n - 1 /\ Cardinality(DOMAIN buffer) = n
           /\ buffer # Released
<1>1. DOMAIN buffer = 0 .. n - 1
  BY DEF Ring
<1>2. Cardinality(0 .. n - 1) = n
  BY FS_Interval
<1>3. buffer # Released
  <2>1. 0 \in DOMAIN buffer /\ DOMAIN Released = {}
    BY <1>1 DEF Released
  <2> QED BY <2>1
<1> QED BY <1>1, <1>2, <1>3

LEMMA ReadAt ==
    ASSUME NEW n \in Nat \ {0}, NEW buffer \in Ring(n), NEW origin \in SeqNums,
           NEW x \in SeqNums, Minus(x, origin) >= 1, NEW length \in Nat,
           NEW k \in 1 .. length
    PROVE  ReadBuffer(buffer, origin, x, length)[k] =
               buffer[(Minus(x, origin) + k - 1 - 1) % n]
<1>1. /\ DOMAIN buffer = 0 .. n - 1 /\ Cardinality(DOMAIN buffer) = n
      /\ buffer # Released
  BY RingSize
<1>2. Minus(x, Plus(origin, 1)) = Minus(x, origin) - 1
  BY StartOf
<1>3. Minus(x, origin) \in Int
  BY MinusIs
<1>4. (Minus(x, origin) - 1) + k - 1 = Minus(x, origin) + k - 1 - 1
  BY <1>3
<1> QED BY <1>1, <1>2, <1>4 DEF ReadBuffer

\* What a write changes: the units from position o on.
Overwrites(b, buffer, n, o, data) ==
    /\ b \in Ring(n)
    /\ \A j \in Nat : o <= j /\ j < o + n =>
            b[(j - 1) % n] = IF j < o + Len(data) THEN data[j - o + 1]
                             ELSE buffer[(j - 1) % n]
    /\ \A j \in Nat : j < o /\ o + Len(data) <= j + n =>
            b[(j - 1) % n] = buffer[(j - 1) % n]

LEMMA WriteAt ==
    ASSUME NEW n \in Nat \ {0}, NEW buffer \in Ring(n), NEW origin \in SeqNums,
           NEW x \in SeqNums, NEW o \in Nat, o = Minus(x, origin), o >= 1,
           NEW data \in Seq(Nat)
    PROVE  Overwrites(WriteBuffer(buffer, origin, x, data), buffer, n, o, data)
<1> DEFINE b == WriteBuffer(buffer, origin, x, data)
<1>1. /\ DOMAIN buffer = 0 .. n - 1 /\ Cardinality(DOMAIN buffer) = n
      /\ buffer # Released
  BY RingSize
<1>2. Minus(x, Plus(origin, 1)) = o - 1
  BY StartOf
<1>3. b = [i \in 0 .. n - 1 |-> LET k == (i - (o - 1)) % n
                                IN IF k < Len(data) THEN data[k + 1] ELSE buffer[i]]
  BY <1>1, <1>2 DEF WriteBuffer
<1> HIDE DEF b
<1>4. ASSUME NEW i \in 0 .. n - 1
      PROVE  /\ (i - (o - 1)) % n \in Nat
             /\ b[i] = IF (i - (o - 1)) % n < Len(data) THEN data[((i - (o - 1)) % n) + 1]
                       ELSE buffer[i]
             /\ b[i] \in Nat
  <2> DEFINE k == (i - (o - 1)) % n
  <2>1. i - (o - 1) \in Int
    OBVIOUS
  <2>2. k \in 0 .. n - 1
    <3>1. \A a \in Int : a % n \in 0 .. n - 1
      BY ModOf
    <3> QED BY <2>1, <3>1
  <2>3. b[i] = IF k < Len(data) THEN data[k + 1] ELSE buffer[i]
    BY <1>3
  <2> HIDE DEF k
  <2>4. k < Len(data) => k + 1 \in 1 .. Len(data)
    BY <2>2
  <2>5. buffer[i] \in Nat /\ \A m \in 1 .. Len(data) : data[m] \in Nat
    BY DEF Ring
  <2>6. b[i] \in Nat
    BY <2>3, <2>4, <2>5
  <2> QED BY <2>2, <2>3, <2>6 DEF k
<1>5. b \in Ring(n)
  BY <1>3, <1>4 DEF Ring
<1>6. ASSUME NEW j \in Nat
      PROVE  /\ (j - 1) % n \in 0 .. n - 1
             /\ (((j - 1) % n) - (o - 1)) % n = (j - o) % n
  <2>1. j - 1 \in Int /\ o - 1 \in Int /\ (j - 1) - (o - 1) = j - o
    OBVIOUS
  <2>2. (((j - 1) % n) - (o - 1)) % n = ((j - 1) - (o - 1)) % n
    BY <2>1, ModDiff
  <2> QED BY <2>1, <2>2, ModOf
<1>7. ASSUME NEW j \in Nat, o <= j, j < o + n
      PROVE  b[(j - 1) % n] = IF j < o + Len(data) THEN data[j - o + 1]
                              ELSE buffer[(j - 1) % n]
  <2>1. j - o \in Int /\ j - o \in 0 .. n - 1
    BY <1>7
  <2>2. (j - o) % n = j - o
    <3> DEFINE d == j - o
    <3>1. d \in Int /\ d \in 0 .. n - 1
      BY <2>1
    <3> HIDE DEF d
    <3>2. d % n = d
      BY <3>1, ModOf
    <3> QED BY <3>2 DEF d
  <2> DEFINE i == (j - 1) % n
  <2>3. i \in 0 .. n - 1 /\ (i - (o - 1)) % n = j - o
    BY <1>6, <2>2
  <2> HIDE DEF i
  <2>4. b[i] = IF j - o < Len(data) THEN data[(j - o) + 1] ELSE buffer[i]
    BY <1>4, <2>3
  <2>5. j - o < Len(data) <=> j < o + Len(data)
    BY <2>1
  <2> QED BY <2>4, <2>5 DEF i
<1>8. ASSUME NEW j \in Nat, j < o, o + Len(data) <= j + n
      PROVE  b[(j - 1) % n] = buffer[(j - 1) % n]
  <2>1. j - o \in Int /\ j - o \in -n .. -1
    BY <1>8
  <2>2. (j - o) % n = j - o + n
    BY <2>1, ModOf
  <2> DEFINE i == (j - 1) % n
  <2>3. i \in 0 .. n - 1 /\ (i - (o - 1)) % n = j - o + n
    BY <1>6, <2>2
  <2> HIDE DEF i
  <2>4. ~(j - o + n < Len(data))
    BY <1>8
  <2>5. b[i] = buffer[i]
    BY <1>4, <2>3, <2>4
  <2> QED BY <2>5 DEF i
<1> QED BY <1>5, <1>7, <1>8 DEF Overwrites, b

LEMMA TxRing ==
    ASSUME NEW buffer \in Buffers, buffer # Released
    PROVE  buffer \in Ring(TxBufferSize) /\ TxBufferSize \in Nat \ {0}
BY Sizes DEF Buffers, Ring

-----------------------------------------------------------------------------
(* What is sent again, and blocks of data out of order *)

LEMMA LooseFields ==
    ASSUME NEW s, Loose(s)
    PROVE  /\ DOMAIN s = SocketFields
           /\ s.iss \in SeqNums /\ s.sndUna \in SeqNums /\ s.sndNxt \in SeqNums
           /\ s.irs \in SeqNums /\ s.rcvNxt \in SeqNums
           /\ s.sndUser \in Nat /\ s.sndUser <= TxBufferSize
           /\ s.queue \in Seq(Headers) /\ s.out \in Seq(Segments)
           /\ s.txBuffer \in Buffers /\ s.sackBlock \in Seq(Blocks)
           /\ s.rcvUser \in Nat /\ s.rcvWnd \in Nat /\ s.rcvUser + s.rcvWnd <= RxBufferSize
<1>1. DOMAIN s = SocketFields
  BY DEF Loose, WaitOK
<1>2. /\ s.iss \in SeqNums /\ s.sndUna \in SeqNums /\ s.sndNxt \in SeqNums
      /\ s.sndUser \in Nat /\ s.sndUser <= TxBufferSize
      /\ s.queue \in Seq(Headers) /\ s.out \in Seq(Segments) /\ s.txBuffer \in Buffers
  BY Sizes DEF Loose, SendOK
<1>3. /\ s.irs \in SeqNums /\ s.rcvNxt \in SeqNums /\ s.sackBlock \in Seq(Blocks)
      /\ s.rcvUser \in Nat /\ s.rcvWnd \in Nat /\ s.rcvUser + s.rcvWnd <= RxBufferSize
  BY Sizes DEF Loose, ReceiveOK
<1> QED BY <1>1, <1>2, <1>3

LEMMA HeaderFields ==
    ASSUME NEW q \in Headers
    PROVE  /\ q.flags \subseteq Flags /\ q.seq \in SeqNums /\ q.ack \in SeqNums
           /\ q.length \in Nat /\ q.length <= Mss
BY Sizes DEF Headers

\* What is queued is sent again.
LEMMA Joined ==
    ASSUME NEW S, NEW p \in Seq(S), NEW q \in Seq(S), NEW i \in DOMAIN (p \o q)
    PROVE  \/ i \in DOMAIN p /\ (p \o q)[i] = p[i]
           \/ i - Len(p) \in 1 .. Len(q) /\ (p \o q)[i] = q[i - Len(p)]
OBVIOUS

LEMMA RetransmitSends ==
    ASSUME NEW s, Loose(s), NEW i \in DOMAIN RetransmitSegment(s).out
    PROVE  LET g == RetransmitSegment(s).out[i]
           IN  \/ i \in DOMAIN s.out /\ g = s.out[i]
               \/ \E k \in DOMAIN s.queue : g = Segment(s, s.queue[k])
<1> DEFINE t == RetransmitSegment(s)
           dataUpTo[k \in 0 .. Len(s.queue)] ==
               IF k = 0 THEN 0 ELSE dataUpTo[k - 1] + s.queue[k].length
           count == Cardinality({k \in DOMAIN s.queue : dataUpTo[k] <= Mss})
           sent == [k \in 1 .. count |-> Segment(s, s.queue[k])]
<1>1. CASE Fails(s)
  BY <1>1 DEF RetransmitSegment
<1>2. CASE ~Fails(s)
  <2>1. t = [s EXCEPT !.out = @ \o sent]
    BY <1>2 DEF RetransmitSegment
  <2>2. s.queue \in Seq(Headers) /\ s.out \in Seq(Segments) /\ DOMAIN s = SocketFields
    BY LooseFields
  <2> DEFINE marked == {k \in DOMAIN s.queue : dataUpTo[k] <= Mss}
  <2>3. marked \subseteq 1 .. Len(s.queue) /\ IsFiniteSet(1 .. Len(s.queue))
        /\ Cardinality(1 .. Len(s.queue)) = Len(s.queue)
    <3>1. marked \subseteq DOMAIN s.queue
      OBVIOUS
    <3> HIDE DEF marked
    <3>2. Len(s.queue) \in Nat /\ DOMAIN s.queue = 1 .. Len(s.queue)
      BY <2>2
    <3>3. IsFiniteSet(1 .. Len(s.queue)) /\ Cardinality(1 .. Len(s.queue)) = Len(s.queue)
      BY <3>2, FS_Interval
    <3> QED BY <3>1, <3>2, <3>3
  <2> HIDE DEF dataUpTo
  <2>4. count \in Nat /\ count <= Len(s.queue)
    <3>1. IsFiniteSet(marked) /\ Cardinality(marked) <= Cardinality(1 .. Len(s.queue))
      BY <2>3, FS_Subset
    <3>2. Cardinality(marked) \in Nat
      BY <3>1, FS_CardinalityType
    <3> QED BY <2>2, <2>3, <3>1, <3>2
  <2> HIDE DEF count
  <2>5. ASSUME NEW k \in 1 .. count
        PROVE  /\ sent[k] \in Segments
               /\ k \in DOMAIN s.queue /\ sent[k] = Segment(s, s.queue[k])
    <3>1. k \in 1 .. Len(s.queue) /\ k \in DOMAIN s.queue /\ s.queue[k] \in Headers
      BY <2>2, <2>4
    <3>2. Segment(s, s.queue[k]) \in Segments
      BY <3>1, LooseFields, SegmentOf
    <3> QED BY <3>1, <3>2
  <2>6. sent \in Seq(Segments) /\ Len(sent) = count /\ DOMAIN sent = 1 .. count
    BY <2>4, <2>5
  <2> HIDE DEF sent
  <2>7. t.out = s.out \o sent
    BY <2>1, <2>2 DEF SocketFields
  <2> HIDE DEF t
  <2>8. i \in DOMAIN t.out
    BY DEF t
  <2>9. \/ i \in DOMAIN s.out /\ t.out[i] = s.out[i]
        \/ i - Len(s.out) \in 1 .. count /\ t.out[i] = sent[i - Len(s.out)]
    BY <2>2, <2>6, <2>7, <2>8, Joined
  <2>10. \/ i \in DOMAIN s.out /\ t.out[i] = s.out[i]
         \/ \E k \in DOMAIN s.queue : t.out[i] = Segment(s, s.queue[k])
    BY <2>5, <2>9
  <2> QED BY <2>10 DEF t
<1> QED BY <1>1, <1>2

\* Distances add up.
LEMMA MinusAdds ==
    ASSUME NEW a \in SeqNums, NEW b \in SeqNums, NEW o \in SeqNums,
           Minus(b, o) + Minus(a, b) < SeqSpace
    PROVE  Minus(a, o) = Minus(b, o) + Minus(a, b)
<1>1. /\ Minus(a, b) = IF a >= b THEN a - b ELSE a - b + SeqSpace
      /\ Minus(b, o) = IF b >= o THEN b - o ELSE b - o + SeqSpace
      /\ Minus(a, o) = IF a >= o THEN a - o ELSE a - o + SeqSpace
      /\ a \in 0 .. SeqSpace - 1 /\ b \in 0 .. SeqSpace - 1 /\ o \in 0 .. SeqSpace - 1
      /\ SeqSpace \in Nat
  BY MinusIs
<1> QED BY <1>1

LEMMA MinusLess ==
    ASSUME NEW x \in SeqNums, NEW o \in SeqNums, NEW n \in Nat, n <= Minus(x, o)
    PROVE  Minus(x, n) \in SeqNums /\ Minus(Minus(x, n), o) = Minus(x, o) - n
<1>1. /\ SeqSpace \in Nat /\ SeqNums = 0 .. SeqSpace - 1
      /\ Minus(x, o) = IF x >= o THEN x - o ELSE x - o + SeqSpace
  BY MinusIs DEF SeqNums
<1>2. n \in SeqNums
  BY <1>1
<1>3. Minus(x, n) = IF x >= n THEN x - n ELSE x - n + SeqSpace
  BY <1>2, MinusIs
<1>4. Minus(x, n) \in SeqNums
  BY <1>1, <1>2, <1>3
<1> DEFINE y == Minus(x, n)
<1>5. y = IF x >= n THEN x - n ELSE x - n + SeqSpace
  BY <1>3
<1> HIDE DEF y
<1>6. y \in SeqNums
  BY <1>4 DEF y
<1>7. Minus(y, o) = IF y >= o THEN y - o ELSE y - o + SeqSpace
  BY <1>6, MinusIs
<1>8. Minus(y, o) = Minus(x, o) - n
  BY <1>1, <1>2, <1>5, <1>6, <1>7
<1> QED BY <1>6, <1>8 DEF y

\* The numbers from the left to the right end of a block, as offsets, are in F.
Inside(s, b, F, top) ==
    /\ Offset(s, b.right) <= top
    /\ \A k \in Offset(s, b.left) .. Offset(s, b.right) - 1 : k \in F

InsideAll(s, m, F, top) ==
    /\ Interval(s, m) /\ Inside(s, m, F, top)
    /\ \A i \in 1 .. Len(m.others) : Inside(s, m.others[i], F, top)

\* What is merged is what one of the two had.
LEMMA MergeInside ==
    ASSUME NEW s, ReceiveOK(s), NEW F, NEW top, NEW m \in Merges, InsideAll(s, m, F, top),
           NEW b \in Blocks, Interval(s, b), Inside(s, b, F, top)
    PROVE  Merge(m, b) \in Merges /\ InsideAll(s, Merge(m, b), F, top)
<1> DEFINE t == Merge(m, b)
           O(x) == Offset(s, x)
           r == s.rcvNxt
           w == s.rcvWnd
           touches == ~Before(m.right, b.left) /\ ~After(m.left, b.right)
<1>1. /\ m.left \in SeqNums /\ m.right \in SeqNums /\ m.others \in Seq(Blocks)
      /\ b.left \in SeqNums /\ b.right \in SeqNums
      /\ DOMAIN m = {"left", "right", "others"}
  BY DEF Merges, Blocks
<1>2. r \in SeqNums /\ w \in Nat /\ 2 * w < SeqSpace
  BY WindowOf, Sizes
<1>3. /\ O(m.left) \in Nat /\ O(m.right) \in Nat /\ O(b.left) \in Nat /\ O(b.right) \in Nat
  BY <1>1, <1>2, OffsetsAreNats
<1>4. /\ O(m.left) <= O(m.right) /\ O(m.right) <= w
      /\ O(b.left) <= O(b.right) /\ O(b.right) <= w
  BY DEF Interval, InsideAll
<1>5. touches <=> O(b.left) <= O(m.right) /\ O(m.left) <= O(b.right)
  <2> HIDE DEF r, w
  <2>1. /\ Minus(m.left, r) <= w /\ Minus(m.right, r) <= w
        /\ Minus(b.left, r) <= w /\ Minus(b.right, r) <= w
    BY <1>2, <1>3, <1>4 DEF Offset, r
  <2>2. Before(m.right, b.left) <=> Minus(m.right, r) < Minus(b.left, r)
    BY <1>1, <1>2, <2>1, OrderOf
  <2>3. After(m.left, b.right) <=> Minus(b.right, r) < Minus(m.left, r)
    BY <1>1, <1>2, <2>1, OrderOf
  <2> QED BY <1>3, <2>2, <2>3 DEF Offset, r
<1>6. t \in Merges /\ Interval(s, t)
  BY MergeOf DEF InsideAll
<1>7. /\ O(m.right) <= top /\ \A k \in O(m.left) .. O(m.right) - 1 : k \in F
      /\ O(b.right) <= top /\ \A k \in O(b.left) .. O(b.right) - 1 : k \in F
  BY DEF Inside, InsideAll
<1> HIDE DEF O, r, w
<1>8. CASE touches
  <2>1. t = [m EXCEPT !.left = Least(@, b.left), !.right = Most(@, b.right)]
    BY <1>8 DEF Merge
  <2>2. /\ t.left \in {m.left, b.left} /\ t.right \in {m.right, b.right}
        /\ t.others = m.others
    BY <1>1, <2>1 DEF Least, Most
  <2> HIDE DEF t, touches
  <2>3. O(t.right) <= top
    BY <1>7, <2>2
  <2>4. ASSUME NEW k \in O(t.left) .. O(t.right) - 1
        PROVE  k \in F
    <3>1. k \in O(m.left) .. O(m.right) - 1 \/ k \in O(b.left) .. O(b.right) - 1
      BY <1>3, <1>4, <1>5, <1>8, <2>2
    <3> QED BY <1>7, <3>1
  <2>5. Inside(s, t, F, top)
    BY <2>3, <2>4 DEF Inside, O
  <2> QED BY <1>6, <2>2, <2>5 DEF InsideAll, t
<1>9. CASE ~touches
  <2>1. t = [m EXCEPT !.others = Append(@, b)]
    BY <1>9 DEF Merge
  <2>2. t.left = m.left /\ t.right = m.right /\ t.others = Append(m.others, b)
    BY <1>1, <2>1
  <2> HIDE DEF t, touches
  <2>3. \A i \in 1 .. Len(t.others) : Inside(s, t.others[i], F, top)
    <3>1. Len(t.others) = Len(m.others) + 1 /\ Len(m.others) \in Nat
      BY <1>1, <2>2
    <3>2. ASSUME NEW i \in 1 .. Len(m.others) + 1
          PROVE  t.others[i] = IF i = Len(m.others) + 1 THEN b ELSE m.others[i]
      BY <1>1, <2>2, <3>1
    <3> QED BY <3>1, <3>2 DEF InsideAll
  <2>4. Inside(s, t, F, top)
    BY <2>2 DEF InsideAll, Inside
  <2> QED BY <1>6, <2>3, <2>4 DEF InsideAll, t
<1> QED BY <1>8, <1>9

\* The data and the blocks, merged, have what the data or one of the blocks had.
LEMMA MergeBlocksInside ==
    ASSUME NEW s, ReceiveOK(s), NEW low, Apart(s, low), NEW F, NEW top,
           NEW left \in SeqNums, NEW right \in SeqNums,
           Offset(s, left) <= Offset(s, right), Offset(s, right) <= s.rcvWnd,
           Offset(s, right) <= top,
           \A k \in Offset(s, left) .. Offset(s, right) - 1 : k \in F,
           \A i \in 1 .. Len(s.sackBlock) : Inside(s, s.sackBlock[i], F, top)
    PROVE  InsideAll(s, MergeBlocks(s, left, right), F, top)
<1> DEFINE n == Len(s.sackBlock)
           first == [left |-> left, right |-> right, others |-> <<>>]
           merged[i \in 0 .. Len(s.sackBlock)] ==
               IF i = 0 THEN [left |-> left, right |-> right, others |-> <<>>]
               ELSE Merge(merged[i - 1], s.sackBlock[i])
           Unfolded(f) ==
               [i \in 0 .. Len(s.sackBlock) |->
                    IF i = 0 THEN [left |-> left, right |-> right, others |-> <<>>]
                    ELSE Merge(f[i - 1], s.sackBlock[i])]
           T == {m \in Merges : InsideAll(s, m, F, top)}
<1>1. MergeBlocks(s, left, right) = merged[n]
  BY DEF MergeBlocks
<1>2. /\ n \in Nat
      /\ \A i \in 1 .. n : /\ s.sackBlock[i] \in Blocks /\ Interval(s, s.sackBlock[i])
                           /\ Inside(s, s.sackBlock[i], F, top)
  <2>1. s.sackBlock \in Seq(Blocks)
    BY DEF ReceiveOK
  <2> QED BY <2>1 DEF Apart
<1>3. first \in T
  BY DEF Merges, Interval, InsideAll, Inside
<1>4. ASSUME NEW i \in 1 .. n, NEW m \in T
      PROVE  Merge(m, s.sackBlock[i]) \in T
  <2> DEFINE b == s.sackBlock[i]
  <2>1. b \in Blocks /\ Interval(s, b) /\ Inside(s, b, F, top)
    BY <1>2
  <2> HIDE DEF b
  <2>2. m \in Merges /\ InsideAll(s, m, F, top)
    OBVIOUS
  <2>3. Merge(m, b) \in Merges /\ InsideAll(s, Merge(m, b), F, top)
    BY <2>1, <2>2, MergeInside
  <2> QED BY <2>3 DEF b
<1> HIDE DEF T
<1>5. \E f : f = Unfolded(f)
  <2> DEFINE next == [i \in 1 .. n |-> [m \in T |-> Merge(m, s.sackBlock[i])]]
  <2>1. next \in [1 .. n -> [T -> T]]
    <3> HIDE DEF n
    <3> QED BY <1>4
  <2> HIDE DEF n, first, next
  <2>2. PICK f \in [0 .. n -> T] : Recurs(f, n, first, next)
    BY <1>2, <1>3, <2>1, RecursionOf
  <2> USE DEF n, Recurs
  <2>3. ASSUME NEW i \in 1 .. n
        PROVE  f[i] = Merge(f[i - 1], s.sackBlock[i])
    <3>1. f[i] = next[i][f[i - 1]] /\ f[i - 1] \in T
      BY <2>2
    <3> QED BY <3>1 DEF next
  <2>4. \A i \in 0 .. n : f[i] = Unfolded(f)[i]
    BY <1>2, <2>2, <2>3 DEF first
  <2>5. DOMAIN f = 0 .. n /\ f = [i \in 0 .. n |-> f[i]]
    OBVIOUS
  <2>6. f = Unfolded(f)
    BY <2>4, <2>5
  <2> QED BY <2>6
<1>6. merged = Unfolded(merged)
  BY <1>5
<1>7. ASSUME NEW i \in 0 .. n
      PROVE  merged[i] = IF i = 0 THEN first ELSE Merge(merged[i - 1], s.sackBlock[i])
  <2> HIDE DEF merged
  <2>1. Unfolded(merged)[i] = IF i = 0 THEN first
                              ELSE Merge(merged[i - 1], s.sackBlock[i])
    OBVIOUS
  <2> HIDE DEF Unfolded, first
  <2> QED BY <1>6, <2>1
<1> HIDE DEF merged, first, Unfolded
<1> DEFINE U == {i \in 0 .. n : merged[i] \in T}
<1>8. 0 \in U
  <2>1. 0 \in 0 .. n
    BY <1>2
  <2>2. merged[0] = first
    BY <1>7, <2>1
  <2> QED BY <1>3, <2>1, <2>2
<1>9. ASSUME NEW i \in 1 .. n, i - 1 \in U
      PROVE  i \in U
  <2>1. i \in 0 .. n /\ i # 0
    BY <1>2
  <2>2. merged[i] = Merge(merged[i - 1], s.sackBlock[i])
    BY <1>7, <2>1
  <2> QED BY <1>4, <1>9, <2>1, <2>2
<1> HIDE DEF U
<1>10. n \in U
  <2>1. \A i \in 1 .. n : i - 1 \in U => i \in U
    BY <1>9
  <2>2. 0 .. n \subseteq U
    BY <1>2, <1>8, <2>1, UpTo
  <2> QED BY <1>2, <2>2
<1> QED BY <1>1, <1>10 DEF U, T

LEMMA TickStates ==
    ASSUME NEW s, DOMAIN s = SocketFields
    PROVE  /\ RetransmitTimeout(s).state \in {s.state, "CLOSED"}
           /\ PersistTimeout(s).state \in {s.state, "CLOSED"}
           /\ FinWait2Timeout(s).state = "CLOSED"
           /\ TimeWaitTimeout(s).state = "CLOSED"
<1> DEFINE t == [s EXCEPT !.cwnd = Least(Mss, TxBufferSize), !.recover = Minus(s.sndNxt, 1),
                          !.congestState = "LOSS_RECOVERY"]
           r == RetransmitSegment(t)
           a == [r EXCEPT !.retransmitCount = @ + 1]
           p == ChangeState(t, "CLOSED")
           b == [p EXCEPT !.retransmitTimer = FALSE]
           c == ChangeState(s, "CLOSED")
           probe == SendSegment(s, {"ACK"}, Minus(s.sndNxt, 1), s.rcvNxt, 0, FALSE)
           d == [probe EXCEPT !.wndProbeCount = @ + 1]
<1>1. RetransmitTimeout(s) \in {a, b} /\ PersistTimeout(s) \in {c, d}
  BY DEF RetransmitTimeout, PersistTimeout
<1>2. FinWait2Timeout(s) = c /\ TimeWaitTimeout(s) \in {c, Free(c)}
  BY DEF FinWait2Timeout, TimeWaitTimeout, Dispose
<1>3. DOMAIN t = SocketFields /\ t.state = s.state
  BY DEF SocketFields
<1> HIDE DEF t
<1>4. DOMAIN r = SocketFields /\ r.state = s.state
  BY <1>3, RetransmitSegmentDiffers DEF Differs, AlikeBut, Core
<1>5. DOMAIN p = SocketFields /\ p.state = "CLOSED" /\ c.state = "CLOSED"
  BY <1>3, EventsDiffer DEF Differs
<1>6. DOMAIN probe = SocketFields /\ probe.state = s.state
  <2>1. Differs(s, probe, {"queue", "out"})
    BY SendSegmentDiffers
  <2> HIDE DEF probe
  <2> QED BY <2>1 DEF Differs, AlikeBut, Core
<1> HIDE DEF r, p, c, probe
<1>7. a.state = s.state /\ b.state = "CLOSED" /\ d.state = s.state
  BY <1>4, <1>5, <1>6 DEF SocketFields
<1>8. Free(c).state = "CLOSED"
  BY DEF Free, Unused
<1> QED BY <1>1, <1>2, <1>5, <1>7, <1>8

\* From a state the socket has left there is no way back to SYN_SENT.
LEMMA NotBack ==
    ASSUME NEW s, Fit(s), s.state # "SYN_SENT", NEW src \in Hosts, NEW seg \in Segments
    PROVE  ProcessState(s, src, seg).state # "SYN_SENT"
<1> DEFINE t == ProcessState(s, src, seg)
<1>1. s.state \in States /\ Loose(s) /\ BlocksOK(s) /\ ReceiveOK(s)
  BY DEF Fit, Bounded, Loose, WaitOK
<1>2. CASE s.state \in {"CLOSED", "TIME_WAIT"} \cup Finishing
  <2>1. Moves(s, t)
    BY ProcessStateMoves
  <2> HIDE DEF t
  <2>2. t.state # "SYN_SENT"
    BY <1>2, <2>1 DEF Moves, Finishing, Over
  <2> QED BY <2>2 DEF t
<1>3. ASSUME NEW r, Fit(r), r.state \in {"ESTABLISHED", "CLOSE_WAIT"}
      PROVE  ProcessState(r, src, seg).state # "SYN_SENT"
  <2> DEFINE u == ProcessState(r, src, seg)
  <2>1. Draining(r)
    <3>1. BlocksOK(r) /\ ReceiveOK(r)
      BY <1>3 DEF Fit, Bounded, Loose
    <3>2. Apart(r, 0)
      BY <1>3, <3>1, ApartLess DEF BlocksOK
    <3> QED BY <1>3, <3>2 DEF Draining
  <2>2. Goes(r, u)
    BY <1>3, ProcessStateGoes
  <2> HIDE DEF u
  <2>3. u.state # "SYN_SENT"
    BY <2>1, <2>2 DEF Goes, Draining
  <2> QED BY <2>3 DEF u
<1>4. CASE s.state \in {"ESTABLISHED", "CLOSE_WAIT"}
  BY <1>3, <1>4
<1>5. CASE s.state = "LISTEN"
  <2>1. t = StateListen(s, src, seg)
    BY <1>5 DEF ProcessState
  <2> QED BY <1>5, <2>1, StateListenFits
<1>6. CASE s.state = "SYN_RECEIVED"
  <2> DEFINE a == SendSegment(s, {"RST"}, seg.ack, 0, 0, FALSE)
             q == InitSendWindow(s, seg)
             r == ChangeState(q, "ESTABLISHED")
             b == StateEstablished(r, seg)
  <2>1. t = StateSynReceived(s, seg)
    BY <1>6 DEF ProcessState
  <2>2. t \in {s, Refuse(s, seg), a, b}
    BY <2>1 DEF StateSynReceived
  <2>3. Refuse(s, seg).state # "SYN_SENT"
    <3>1. Goes(s, Refuse(s, seg)) /\ Ends(s, Refuse(s, seg))
      BY RefuseFits, RefuseGoes
    <3> QED BY <1>6, <3>1 DEF Ends
  <2>4. a.state = s.state
    <3>1. Differs(s, a, {"queue", "out"})
      BY <1>1, LooseFields, SendSegmentDiffers
    <3> HIDE DEF a
    <3> QED BY <3>1 DEF Differs, AlikeBut, Core
  <2>5. Fit(r) /\ r.state = "ESTABLISHED"
    <3>1. Apart(s, 1) /\ s.cwnd <= TxBufferSize
      BY <1>1, <1>6 DEF Fit, Bounded, BlocksOK
    <3>2. Loose(q) /\ SameRest(s, q) /\ q.cwnd = s.cwnd
      BY <1>1, InitSendWindowFits
    <3> HIDE DEF q
    <3>3. MayEnter(q, "ESTABLISHED")
      BY <3>1, <3>2, SameBlocksApart DEF MayEnter, SameRest, SameReceiver, States
    <3> QED BY <3>1, <3>2, <3>3, ChangeStateFits DEF Fit, Bounded
  <2> HIDE DEF r, a
  <2>6. b.state # "SYN_SENT"
    <3>1. b = ProcessState(r, src, seg)
      BY <2>5 DEF ProcessState
    <3> QED BY <1>3, <2>5, <3>1
  <2> HIDE DEF b, t
  <2>7. t.state # "SYN_SENT"
    BY <1>6, <2>2, <2>3, <2>4, <2>6
  <2> QED BY <2>7 DEF t
<1> QED BY <1>1, <1>2, <1>4, <1>5, <1>6 DEF States, Finishing

\* What is read next follows what has been read.
LEMMA Follows ==
    ASSUME NEW q \in Seq(Nat), q = [k \in 1 .. Len(q) |-> k], NEW n \in Nat,
           NEW d, d = [k \in 1 .. n |-> Len(q) + k]
    PROVE  LET b == q \o d
           IN  b \in Seq(Nat) /\ Len(b) = Len(q) + n /\ b = [k \in 1 .. Len(b) |-> k]
<1> DEFINE m == Len(q)
           b == q \o d
<1>1. m \in Nat /\ d \in Seq(Nat) /\ Len(d) = n
  <2>1. \A k \in 1 .. n : Len(q) + k \in Nat
    OBVIOUS
  <2> QED BY <2>1
<1>2. b \in Seq(Nat) /\ Len(b) = m + n
  BY <1>1
<1>3. ASSUME NEW k \in 1 .. m + n
      PROVE  b[k] = k
  <2>1. CASE k <= m
    <3>1. k \in 1 .. m
      BY <1>1, <2>1
    <3>2. q[k] = k
      BY <3>1
    <3>3. b[k] = q[k]
      BY <1>1, <3>1
    <3> QED BY <3>2, <3>3
  <2>2. CASE k > m
    <3>1. k - m \in 1 .. n /\ m + (k - m) = k
      <4> HIDE DEF m
      <4> QED BY <1>1, <2>2
    <3>2. b[k] = d[k - m]
      BY <1>1, <1>3, <2>2
    <3> QED BY <3>1, <3>2
  <2> QED BY <1>1, <2>1, <2>2
<1> HIDE DEF b, m
<1>4. b = [k \in 1 .. Len(b) |-> k]
  BY <1>2, <1>3
<1> QED BY <1>2, <1>4 DEF b, m

=============================================================================
